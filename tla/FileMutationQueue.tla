-------------------------- MODULE FileMutationQueue --------------------------
(***************************************************************************)
(* The edit and write tools of the just-bash environment, and the queue    *)
(* withFileMutationQueue makes of the calls on one path: a map from a path *)
(* to the promise of its latest call, which every call chains itself to.   *)
(*                                                                         *)
(* A call's chained promise resolves when the promise it chained to has    *)
(* and the call has released it; a call releases only once it was let in,  *)
(* so the promise of call i is resolved exactly when i is "over".  An      *)
(* action is the code between two awaits.  A path is the queue's key, the  *)
(* resolved string; two spellings of one file are two paths.               *)
(***************************************************************************)
EXTENDS Naturals, Sequences

CONSTANTS Paths,
          MaxCalls,  \* bound on the tool calls of a behaviour
          MaxBash    \* bound on the changes made by bash commands

ASSUME BoundsAssumption == MaxCalls \in Nat /\ MaxBash \in Nat

Ids == 1 .. MaxCalls

VARIABLES
  content,  \* of each file, as the calls that shaped it; <<>> is no file
  calls,    \* each call: its tool, path, the call it chained to, progress,
            \* the content an edit has read, and its abort signal
  arrived,  \* calls made so far
  tail,     \* fileMutationQueues: the latest call of a path, 0 if no entry
  bashed    \* changes made by bash commands so far

vars == <<content, calls, arrived, tail, bashed>>

NoCall == [kind |-> "none", path |-> "none", prev |-> 0, at |-> "unused", base |-> <<>>,
           aborted |-> FALSE]

\* It takes the promise of its path's latest call, or a resolved one.
NewCall(kind, path) ==
  [kind |-> kind, path |-> path, prev |-> tail[path], at |-> "queued", base |-> <<>>,
   aborted |-> FALSE]

Init ==
  /\ content = [p \in Paths |-> <<>>]
  /\ calls = [i \in Ids |-> NoCall]
  /\ arrived = 0
  /\ tail = [p \in Paths |-> 0]
  /\ bashed = 0

\* Mutant: the chained promise is not entered in the map.
Submit_Unchained(path, kind) ==
  /\ arrived < MaxCalls
  /\ arrived' = arrived + 1
  /\ calls' = [calls EXCEPT ![arrived + 1] = NewCall(kind, path)]
  /\ tail' = [tail EXCEPT ![path] = IF @ = 0 THEN arrived + 1 ELSE @]
  /\ UNCHANGED <<content, bashed>>

\* The call chains itself to the path's promise and leaves its own.
Submit(path, kind) ==
  /\ arrived < MaxCalls
  /\ arrived' = arrived + 1
  /\ calls' = [calls EXCEPT ![arrived + 1] = NewCall(kind, path)]
  /\ tail' = [tail EXCEPT ![path] = arrived + 1]
  /\ UNCHANGED <<content, bashed>>

\* The promise the call chained to is resolved: it is let in.
LetIn(i) ==
  /\ calls[i].at = "queued"
  /\ calls[i].prev # 0 => calls[calls[i].prev].at = "over"

\* A call aborted while it waited throws at once.
Refuse(i) ==
  /\ LetIn(i)
  /\ calls[i].aborted
  /\ calls' = [calls EXCEPT ![i].at = "leaving"]
  /\ UNCHANGED <<content, arrived, tail, bashed>>

\* readFile; there is nothing to edit in a missing file.
BeginEdit(i) ==
  /\ LetIn(i)
  /\ calls[i].kind = "edit"
  /\ ~calls[i].aborted
  /\ LET found == content[calls[i].path]
     IN  calls' = [calls EXCEPT ![i].at = IF found = <<>> THEN "leaving" ELSE "read",
                                ![i].base = found]
  /\ UNCHANGED <<content, arrived, tail, bashed>>

\* The edits are matched against what was read, and the result is written,
\* unless they do not apply or the call was aborted.
ApplyEdit(i) ==
  /\ calls[i].at = "read"
  /\ calls' = [calls EXCEPT ![i].at = "leaving"]
  /\ \/ /\ ~calls[i].aborted
        /\ content' = [content EXCEPT ![calls[i].path] = Append(calls[i].base, i)]
     \/ UNCHANGED content
  /\ UNCHANGED <<arrived, tail, bashed>>

Write(i) ==
  /\ LetIn(i)
  /\ calls[i].kind = "write"
  /\ ~calls[i].aborted
  /\ calls' = [calls EXCEPT ![i].at = "leaving"]
  /\ content' = [content EXCEPT ![calls[i].path] = <<i>>]
  /\ UNCHANGED <<arrived, tail, bashed>>

\* Mutant: the map's entry is deleted whoever left it.
Release_Unguarded(i) ==
  /\ calls[i].at = "leaving"
  /\ calls' = [calls EXCEPT ![i].at = "over"]
  /\ tail' = [tail EXCEPT ![calls[i].path] = 0]
  /\ UNCHANGED <<content, arrived, bashed>>

\* Mutant: a call that was aborted leaves without releasing the next.
Release_OnSuccess(i) ==
  /\ calls[i].at = "leaving"
  /\ ~calls[i].aborted
  /\ calls' = [calls EXCEPT ![i].at = "over"]
  /\ tail' = [tail EXCEPT ![calls[i].path] = IF @ = i THEN 0 ELSE @]
  /\ UNCHANGED <<content, arrived, bashed>>

\* The finally block, however the tool ended, one that was aborted after it
\* had written included.
Release(i) ==
  /\ calls[i].at = "leaving"
  /\ calls' = [calls EXCEPT ![i].at = "over"]
  /\ tail' = [tail EXCEPT ![calls[i].path] = IF @ = i THEN 0 ELSE @]
  /\ UNCHANGED <<content, arrived, bashed>>

\* Mutant: the signal outlives the run and reaches the calls of the next.
Abort_Sticky ==
  /\ \E i \in 1 .. arrived : ~calls[i].aborted
  /\ calls' = [i \in Ids |-> [calls[i] EXCEPT !.aborted = TRUE]]
  /\ UNCHANGED <<content, arrived, tail, bashed>>

\* The run's signal reaches every tool call the run has made.
Abort ==
  /\ \E i \in 1 .. arrived : ~calls[i].aborted
  /\ calls' = [i \in Ids |-> IF i <= arrived THEN [calls[i] EXCEPT !.aborted = TRUE] ELSE calls[i]]
  /\ UNCHANGED <<content, arrived, tail, bashed>>

\* A bash command does not queue: it adds to a file or removes it.  0 marks
\* what it adds.
BashChange(path) ==
  /\ bashed < MaxBash
  /\ bashed' = bashed + 1
  /\ \E after \in {<<>>, Append(content[path], 0)} : content' = [content EXCEPT ![path] = after]
  /\ UNCHANGED <<calls, arrived, tail>>

ToolStep(i) == Refuse(i) \/ BeginEdit(i) \/ ApplyEdit(i) \/ Write(i) \/ Release(i)

ToolNext ==
  \/ \E path \in Paths, kind \in {"edit", "write"} : Submit(path, kind)
  \/ \E i \in Ids : ToolStep(i)
  \/ Abort

Next == ToolNext \/ \E path \in Paths : BashChange(path)

\* The two tools alone, and with bash commands among them.
ToolSpec == Init /\ [][ToolNext]_vars
Spec == Init /\ [][Next]_vars

\* The file system answers, and the event loop resumes what was let in.
FairSpec == Spec /\ \A i \in Ids : WF_vars(ToolStep(i))

-----------------------------------------------------------------------------
(* Properties *)

CallRecord ==
  [kind : {"none", "edit", "write"}, path : Paths \cup {"none"}, prev : 0 .. MaxCalls,
   at : {"unused", "queued", "read", "leaving", "over"}, base : Seq(0 .. MaxCalls),
   aborted : BOOLEAN]

\* The types of the variables; a call not yet made has no trace.
TypeOK ==
  /\ content \in [Paths -> Seq(0 .. MaxCalls)]
  /\ calls \in [Ids -> CallRecord]
  /\ arrived \in 0 .. MaxCalls
  /\ tail \in [Paths -> 0 .. MaxCalls]
  /\ bashed \in 0 .. MaxBash
  /\ \A i \in Ids : i > arrived <=> calls[i] = NoCall

Inside(i) == calls[i].at \in {"read", "leaving"}

\* "Serialise file mutation operations targeting the same path": at most one
\* call of a path is past its wait and not yet over.
MutualExclusion ==
  \A i, j \in Ids : i # j /\ Inside(i) /\ Inside(j) => calls[i].path # calls[j].path

\* Calls are let in in the order they were made, aborted ones included: none
\* overtakes a call of its path that is still waiting.
FirstComeFirstServed ==
  \A i, j \in Ids :
    j < i /\ calls[j].path = calls[i].path /\ calls[i].at \in {"read", "leaving", "over"}
      => calls[j].at = "over"

\* The map holds an entry for a path exactly while a call of it is not over:
\* nothing is kept for a path no one uses, and no waiting call is forgotten.
EntryWhileInUse ==
  \A p \in Paths :
    tail[p] # 0 <=> \E i \in Ids : calls[i].path = p /\ calls[i].at \in {"queued", "read", "leaving"}

\* An edit loses nothing another edit or write left in the file, whatever
\* bash commands do to the file meanwhile.
Shapers(p) == {content[p][k] : k \in DOMAIN content[p]} \ {0}
EditKeepsOthers ==
  [][\A i \in Ids : ApplyEdit(i) => \A p \in Paths : Shapers(p) \subseteq Shapers(p)']_vars

\* Every call made ends, whatever becomes of the calls before it.
EveryCallEnds == \A i \in Ids : calls[i].at = "queued" ~> calls[i].at = "over"

\* Without bash commands the tools do what FileStore promises: a call is
\* served where it writes or gives up.
Store == INSTANCE FileStore WITH
           tool <- [i \in Ids |-> calls[i].kind],
           target <- [i \in Ids |-> calls[i].path],
           served <- {i \in Ids : calls[i].at \in {"leaving", "over"}}

ImplementsFileStore == Store!Spec
=============================================================================
