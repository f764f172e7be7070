------------------------------ MODULE FileStore ------------------------------
(***************************************************************************)
(* What the edit and write tools promise of a file: the calls made on a    *)
(* path take effect one at a time, in the order they were made, each at    *)
(* once or not at all.                                                     *)
(***************************************************************************)
EXTENDS Naturals, Sequences

CONSTANTS Paths, MaxCalls

Ids == 1 .. MaxCalls

VARIABLES
  content,  \* of each file, as the calls that shaped it; <<>> is no file
  tool,     \* each call's tool
  target,   \* each call's path
  arrived,  \* calls made so far
  served    \* the calls that have taken their effect, or given up

vars == <<content, tool, target, arrived, served>>

Init ==
  /\ content = [p \in Paths |-> <<>>]
  /\ tool = [i \in Ids |-> "none"]
  /\ target = [i \in Ids |-> "none"]
  /\ arrived = 0
  /\ served = {}

Submit(path, kind) ==
  /\ arrived < MaxCalls
  /\ arrived' = arrived + 1
  /\ tool' = [tool EXCEPT ![arrived + 1] = kind]
  /\ target' = [target EXCEPT ![arrived + 1] = path]
  /\ UNCHANGED <<content, served>>

\* An edit adds to the file it finds; a write replaces it.
Serve(i) ==
  /\ i \in 1 .. arrived \ served
  /\ \A j \in Ids : j < i /\ target[j] = target[i] => j \in served
  /\ served' = served \cup {i}
  /\ \/ /\ tool[i] = "edit"
        /\ content[target[i]] # <<>>
        /\ content' = [content EXCEPT ![target[i]] = Append(@, i)]
     \/ /\ tool[i] = "write"
        /\ content' = [content EXCEPT ![target[i]] = <<i>>]
     \/ UNCHANGED content
  /\ UNCHANGED <<tool, target, arrived>>

Next ==
  \/ \E path \in Paths, kind \in {"edit", "write"} : Submit(path, kind)
  \/ \E i \in Ids : Serve(i)

Spec == Init /\ [][Next]_vars
=============================================================================
