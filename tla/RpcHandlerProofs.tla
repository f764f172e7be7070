--------------------------- MODULE RpcHandlerProofs ---------------------------
(***************************************************************************)
(* Proofs about RpcHandler: its types, that every command is answered once,*)
(* that onShutdown is called once unless the safety net fires, and what    *)
(* holds when the sequence closes the transport itself.                    *)
(***************************************************************************)
EXTENDS RpcHandler, SequenceTheorems, TLAPS

-----------------------------------------------------------------------------
(* The inductive invariant *)

Places == DOMAIN jobs

\* The shutdown commands that wait: for the sequence, or for their turn to respond.
Waits(c) == commands[c].kind = "shutdown" /\ commands[c].at = "waiting"
Turns(c) == {i \in Places : jobs[i].kind = "respond" /\ jobs[i].of = c}
WaitsFor(c) == {i \in DOMAIN waiters : waiters[i] = c}

\* The stages each kind of command goes through, and what it is answered at each.
Proper(command) ==
  LET kind == command.kind
      at == command.at
      replies == command.replies
  IN  \/ kind = "none" /\ at = "unused" /\ replies = <<>>
      \/ kind = "prompt" /\ at \in {"handlers", "running", "over"} /\ replies = <<"success">>
      \/ kind = "prompt" /\ at = "over" /\ replies = <<"success", "error">>
      \/ kind \in {"awaited", "shutdown"} /\ at = "waiting" /\ replies = <<>>
      \/ kind = "awaited" /\ at \in {"running", "ran"} /\ replies = <<>>
      \/ /\ kind \in {"plain", "awaited", "shutdown"} /\ at = "over"
         /\ replies \in {<<"success">>, <<"error">>}

Stages == \A c \in Commands : Proper(commands[c])

\* Who waits waits once; whoever is in a queue waits, and nobody is in both.
Waiting ==
  /\ \A i \in DOMAIN waiters : Waits(waiters[i])
  /\ \A i \in Places : jobs[i].kind = "respond" => jobs[i].of \in Commands /\ Waits(jobs[i].of)
  /\ \A c \in Commands : Waits(c) => Turns(c) # {} \/ WaitsFor(c) # {}
  /\ \A c \in Commands : \A i, j \in Turns(c) : i = j
  /\ \A c \in Commands : \A i, j \in WaitsFor(c) : i = j
  /\ \A c \in Commands : Turns(c) = {} \/ WaitsFor(c) = {}

\* How far the disposal is, and which timers may be armed, at each stage of the sequence.
Sequence ==
  /\ shutdown = "no" => /\ disposal = "no" /\ timers = <<>> /\ waiters = <<>> /\ jobs = <<>>
                        /\ ~forced
  /\ shutdown = "idle" => disposal = "no"
  /\ shutdown = "dispose" => disposal \in {"closing", "done", "failed"}
  /\ shutdown = "over" => disposal \in {"done", "failed"} /\ timers = <<>>
  /\ timers \in {<<"idle">>, <<"safety", "idle">>} => shutdown = "idle"
  /\ timers \in {<<"safety">>, <<"safety", "idle">>} => ~forced

\* The jobs of the sequence come alone; once it resolves the commands nobody waits and no timer is
\* armed until it is over.
Resolving == shutdown = "dispose" /\ disposal = "done" /\ timers = <<>> /\ waiters = <<>>

Turn ==
  \A i \in Places :
    LET kind == jobs[i].kind
    IN  /\ kind = "settled" => Len(jobs) = 1 /\ shutdown = "idle"
        /\ kind = "disposed" => Len(jobs) = 1 /\ shutdown = "dispose" /\ disposal = "done"
        /\ kind = "failed" => Len(jobs) = 1 /\ shutdown = "dispose" /\ disposal = "failed"
        /\ kind = "tick" => i = Len(jobs) /\ Resolving
        /\ kind = "finish" => Len(jobs) = 1 /\ Resolving

\* One call of onShutdown for the safety net, one for the sequence.
Counted == notified = (IF forced THEN 1 ELSE 0) + (IF shutdown = "over" THEN 1 ELSE 0)

Inv ==
  /\ TypeOK /\ Stages
  /\ Waiting /\ Sequence /\ Turn /\ Counted

-----------------------------------------------------------------------------
(* Types *)

CommandRecord ==
  [kind : {"none", "prompt", "plain", "awaited", "shutdown"},
   at : {"unused", "handlers", "running", "waiting", "ran", "over"},
   replies : {<<>>} \cup {<<o>> : o \in {"success", "error"}} \cup {<<"success", "error">>}]

JobRecord ==
  [kind : {"settled", "disposed", "tick", "finish", "failed", "respond", "exit"},
   of : Commands \cup {"none"}]

DialogRecord ==
  [asker : Askers \cup {"none"}, at : {"unused", "pending", "answered", "rejected"}]

LEMMA VariableTypes ==
  ASSUME TypeOK
  PROVE  /\ commands \in [Commands -> CommandRecord] /\ dialogs \in [Dialogs -> DialogRecord]
         /\ jobs \in Seq(JobRecord) /\ waiters \in Seq(Commands)
BY DEF TypeOK, CommandRecord, DialogRecord, JobRecord

\* A step that sends a reply to a command, or does not, and puts it at another stage.
LEMMA CommandTypes ==
  ASSUME TypeOK, NEW c \in Commands, NEW new \in CommandRecord,
         commands' = [commands EXCEPT ![c] = new]
  PROVE  /\ commands' \in [Commands -> CommandRecord]
         /\ commands'[c] = new
         /\ \A d \in Commands : d # c => commands'[d] = commands[d]
BY VariableTypes

LEMMA ReplyTypes ==
  ASSUME TypeOK, NEW c \in Commands, NEW outcome \in {"success", "error"}, Reply(c, outcome, "over"),
         NEW replies \in {<<"success">>, <<"error">>, <<"success", "error">>},
         replies = Append(commands[c].replies, outcome)
  PROVE  \E new \in CommandRecord :
           /\ commands' = [commands EXCEPT ![c] = new]
           /\ new.kind = commands[c].kind /\ new.at = "over" /\ new.replies = replies
<1> DEFINE new == [commands[c] EXCEPT !.replies = replies, !.at = "over"]
<1>1. commands[c] \in CommandRecord
  BY VariableTypes
<1>2. commands' = [commands EXCEPT ![c] = new]
  BY DEF Reply
<1>3. new.kind = commands[c].kind /\ new.at = "over" /\ new.replies = replies
  BY <1>1 DEF CommandRecord
<1>4. replies \in {<<>>} \cup {<<o>> : o \in {"success", "error"}} \cup {<<"success", "error">>}
  OBVIOUS
<1>5. new \in CommandRecord
  BY <1>1, <1>4 DEF CommandRecord
<1> QED
  BY <1>2, <1>3, <1>5

LEMMA JobTypes ==
  /\ \A kind \in {"settled", "disposed", "tick", "finish", "failed", "exit"} :
       Job(kind) \in JobRecord /\ Job(kind).kind = kind
  /\ \A c \in Commands : Respond(c) \in JobRecord /\ Respond(c).kind = "respond" /\ Respond(c).of = c
BY DEF Job, Respond, JobRecord

-----------------------------------------------------------------------------
(* Steps that leave the shutdown as it is *)

LEMMA QuietInv ==
  ASSUME Inv, UNCHANGED sequenceVars, commands' \in [Commands -> CommandRecord],
         run' \in {"off", "on", "abort"}, dialogs' \in [Dialogs -> DialogRecord],
         \A c \in Commands : Proper(commands'[c]) /\ (Waits(c)' <=> Waits(c))
  PROVE  Inv'
<1> USE DEF sequenceVars
<1>1. TypeOK' /\ Stages'
  BY DEF Inv, TypeOK, CommandRecord, DialogRecord, Stages
<1>2. Waiting'
  <2>1. \A i \in DOMAIN waiters : waiters[i] \in Commands
    BY VariableTypes DEF Inv
  <2>2. \A c : Turns(c)' = Turns(c) /\ WaitsFor(c)' = WaitsFor(c)
    BY DEF Turns, WaitsFor, Places
  <2> QED
    BY <2>1, <2>2 DEF Inv, Waiting, Places
<1>3. Sequence' /\ Turn' /\ Counted'
  BY DEF Inv, Sequence, Turn, Resolving, Counted, Places
<1> QED
  BY <1>1, <1>2, <1>3 DEF Inv

\* One command that is no shutdown is at another stage.
LEMMA StageInv ==
  ASSUME Inv, NEW c \in Commands, NEW new \in CommandRecord, Proper(new),
         commands' = [commands EXCEPT ![c] = new],
         new.kind # "shutdown", commands[c].kind # "shutdown",
         run' \in {"off", "on", "abort"}, UNCHANGED <<dialogs, sequenceVars>>
  PROVE  Inv'
<1>1. /\ commands' \in [Commands -> CommandRecord]
      /\ commands'[c] = new
      /\ \A d \in Commands : d # c => commands'[d] = commands[d]
  BY CommandTypes DEF Inv
<1>2. \A d \in Commands : Proper(commands'[d]) /\ (Waits(d)' <=> Waits(d))
  BY <1>1 DEF Inv, Stages, Waits
<1>3. dialogs' \in [Dialogs -> DialogRecord]
  BY VariableTypes DEF Inv
<1> QED
  BY <1>1, <1>2, <1>3, QuietInv

LEMMA ReceiveInv ==
  ASSUME Inv, NEW c \in Commands,
         ReceivePrompt(c) \/ ReceivePlain(c) \/ ReceiveAbort(c) \/ ReceiveAwaited(c)
  PROVE  Inv'
<1>1. commands[c] \in CommandRecord /\ Proper(commands[c]) /\ commands[c].at = "unused"
  BY VariableTypes DEF Inv, Stages, Received, ReceivePrompt, ReceivePlain, ReceiveAbort, ReceiveAwaited
<1>2. commands[c].kind = "none" /\ commands[c].replies = <<>>
  BY <1>1 DEF Proper
<1>3. run' \in {"off", "on", "abort"} /\ UNCHANGED <<dialogs, sequenceVars>>
  BY DEF Inv, TypeOK, ReceivePrompt, ReceivePlain, ReceiveAbort, ReceiveAwaited
<1>4. ASSUME NEW new \in CommandRecord, commands' = [commands EXCEPT ![c] = new], Proper(new),
             new.kind # "shutdown"
      PROVE  Inv'
  BY <1>2, <1>3, <1>4, StageInv
<1>5. CASE ReceivePrompt(c)
  <2> DEFINE new == [kind |-> "prompt", at |-> "handlers", replies |-> <<"success">>]
  <2>1. new \in CommandRecord /\ Proper(new) /\ commands' = [commands EXCEPT ![c] = new]
    BY <1>5 DEF ReceivePrompt, CommandRecord, Proper
  <2> QED
    BY <1>4, <2>1
<1>6. CASE ReceivePlain(c) \/ ReceiveAbort(c)
  <2>1. PICK outcome \in {"success", "error"} :
          commands' = [commands EXCEPT ![c] = [kind |-> "plain", at |-> "over",
                                               replies |-> <<outcome>>]]
    BY <1>6 DEF ReceivePlain, ReceiveAbort
  <2> DEFINE new == [kind |-> "plain", at |-> "over", replies |-> <<outcome>>]
  <2>2. new \in CommandRecord /\ Proper(new) /\ new.kind # "shutdown"
    BY DEF CommandRecord, Proper
  <2>3. commands' = [commands EXCEPT ![c] = new]
    BY <2>1
  <2> HIDE DEF new
  <2> QED
    BY <1>4, <2>2, <2>3
<1>7. CASE ReceiveAwaited(c)
  <2> DEFINE new == [commands[c] EXCEPT !.kind = "awaited", !.at = "waiting"]
  <2>1. new.kind = "awaited" /\ new.at = "waiting" /\ new.replies = <<>>
    BY <1>1, <1>2 DEF CommandRecord
  <2>2. new \in CommandRecord /\ commands' = [commands EXCEPT ![c] = new]
    BY <1>1, <1>7 DEF ReceiveAwaited, CommandRecord
  <2>3. Proper(new)
    BY <2>1 DEF Proper
  <2> HIDE DEF new
  <2> QED
    BY <1>4, <2>1, <2>2, <2>3
<1> QED
  BY <1>5, <1>6, <1>7

LEMMA AwaitedInv ==
  ASSUME Inv, NEW c \in Commands, AwaitedAnswers(c)
  PROVE  Inv'
<1>1. commands[c] \in CommandRecord /\ Proper(commands[c])
  BY VariableTypes DEF Inv, Stages
<1>2. /\ commands[c].kind = "awaited" /\ commands[c].at \in {"waiting", "ran"}
      /\ UNCHANGED <<run, dialogs, sequenceVars>>
  BY DEF AwaitedAnswers
<1>3. commands[c].replies = <<>>
  BY <1>1, <1>2 DEF Proper
<1>4. PICK outcome \in {"success", "error"} : Reply(c, outcome, "over")
  BY DEF AwaitedAnswers
<1>5. <<outcome>> = Append(commands[c].replies, outcome)
  BY <1>3
<1>6. PICK new \in CommandRecord :
        /\ commands' = [commands EXCEPT ![c] = new]
        /\ new.kind = "awaited" /\ new.at = "over" /\ new.replies = <<outcome>>
  <2>1. TypeOK /\ <<outcome>> \in {<<"success">>, <<"error">>, <<"success", "error">>}
    BY DEF Inv
  <2>2. \E new \in CommandRecord :
          /\ commands' = [commands EXCEPT ![c] = new]
          /\ new.kind = commands[c].kind /\ new.at = "over" /\ new.replies = <<outcome>>
    BY <1>4, <1>5, <2>1, ReplyTypes, ZenonT(30)
  <2> QED
    BY <1>2, <2>2
<1>7. Proper(new) /\ new.kind = "awaited"
  BY <1>6 DEF Proper
<1>8. run' \in {"off", "on", "abort"}
  BY <1>2 DEF Inv, TypeOK
<1> QED
  BY <1>2, <1>6, <1>7, <1>8, StageInv

LEMMA PromptStartsInv ==
  ASSUME Inv, NEW c \in Commands, PromptStarts(c)
  PROVE  Inv'
<1>1. commands[c] \in CommandRecord /\ Proper(commands[c])
  BY VariableTypes DEF Inv, Stages
<1>2. commands[c].at = "handlers" /\ UNCHANGED <<dialogs, sequenceVars>>
  BY DEF PromptStarts
<1>3. commands[c].kind = "prompt" /\ commands[c].replies = <<"success">>
  BY <1>1, <1>2 DEF Proper
<1>4. ASSUME NEW new \in CommandRecord, commands' = [commands EXCEPT ![c] = new], Proper(new),
             new.kind = "prompt"
      PROVE  Inv'
  <2>1. run' \in {"off", "on", "abort"}
    BY DEF PromptStarts, Inv, TypeOK
  <2> QED
    BY <1>2, <1>3, <1>4, <2>1, StageInv
<1>5. ASSUME NEW at \in {"running", "over"}, commands' = [commands EXCEPT ![c].at = at] PROVE Inv'
  <2> DEFINE new == [commands[c] EXCEPT !.at = at]
  <2>1. new.kind = "prompt" /\ new.at \in {"running", "over"} /\ new.replies = <<"success">>
    BY <1>1, <1>3 DEF CommandRecord
  <2>2. new \in CommandRecord /\ commands' = [commands EXCEPT ![c] = new]
    BY <1>1, <1>5 DEF CommandRecord
  <2>3. Proper(new)
    BY <2>1 DEF Proper
  <2> HIDE DEF new
  <2> QED
    BY <1>4, <2>1, <2>2, <2>3
<1>6. CASE Reply(c, "error", "over")
  <2>1. <<"success", "error">> = Append(commands[c].replies, "error")
    BY <1>3
  <2>2. PICK new \in CommandRecord :
          /\ commands' = [commands EXCEPT ![c] = new]
          /\ new.kind = "prompt" /\ new.at = "over" /\ new.replies = <<"success", "error">>
    BY <1>3, <1>6, <2>1, ReplyTypes DEF Inv
  <2>3. Proper(new) /\ new.kind = "prompt"
    BY <2>2 DEF Proper
  <2> QED
    BY <1>4, <2>2, <2>3
<1> QED
  BY <1>5, <1>6 DEF PromptStarts

LEMMA SkillStartsInv ==
  ASSUME Inv, NEW c \in Commands, SkillStarts(c)
  PROVE  Inv'
<1>1. commands[c] \in CommandRecord /\ Proper(commands[c])
  BY VariableTypes DEF Inv, Stages
<1>2. commands[c].kind = "awaited" /\ commands[c].at = "waiting" /\ UNCHANGED <<dialogs, sequenceVars>>
  BY DEF SkillStarts
<1> DEFINE new == [commands[c] EXCEPT !.at = "running"]
<1>3. new.kind = "awaited" /\ new.at = "running" /\ new.replies = <<>>
  BY <1>1, <1>2 DEF CommandRecord, Proper
<1>4. new \in CommandRecord /\ commands' = [commands EXCEPT ![c] = new]
  BY <1>1 DEF CommandRecord, SkillStarts
<1>5. Proper(new) /\ run' \in {"off", "on", "abort"}
  BY <1>3 DEF Proper, SkillStarts
<1> HIDE DEF new
<1> QED
  BY <1>2, <1>3, <1>4, <1>5, StageInv

\* Dialogs are asked and answered beside the commands.
LEMMA DialogInv ==
  ASSUME Inv, NEW d \in Dialogs, Answer(d) \/ \E asker \in Askers : Ask(d, asker)
  PROVE  Inv'
<1>1. UNCHANGED <<commands, run, sequenceVars>>
  BY DEF Answer, Ask
<1>2. dialogs' \in [Dialogs -> DialogRecord]
  <2>1. dialogs[d] \in DialogRecord
    BY VariableTypes DEF Inv
  <2>2. CASE Answer(d)
    BY <2>1, <2>2, VariableTypes DEF Inv, Answer, DialogRecord
  <2>3. ASSUME NEW asker \in Askers, Ask(d, asker) PROVE dialogs' \in [Dialogs -> DialogRecord]
    <3>1. [asker |-> asker, at |-> "pending"] \in DialogRecord
      BY DEF DialogRecord
    <3> QED
      BY <2>3, <3>1, VariableTypes DEF Inv, Ask
  <2> QED
    BY <2>2, <2>3
<1>3. \A c \in Commands : Proper(commands'[c]) /\ (Waits(c)' <=> Waits(c))
  BY <1>1 DEF Inv, Stages, Waits
<1> QED
  BY <1>1, <1>2, <1>3, VariableTypes, QuietInv DEF Inv, TypeOK

-----------------------------------------------------------------------------
(* The queues of those who wait *)

NoTurns == \A i \in Places : jobs[i].kind # "respond"

\* A job of the sequence is the only one, at its own stage.
LEMMA LoneJob ==
  ASSUME Inv, jobs # <<>>,
         Head(jobs).kind \in {"settled", "disposed", "failed", "tick", "finish"}
  PROVE  /\ Tail(jobs) = <<>> /\ NoTurns
         /\ Head(jobs).kind = "settled" => shutdown = "idle"
         /\ Head(jobs).kind = "disposed" => shutdown = "dispose" /\ disposal = "done"
         /\ Head(jobs).kind = "failed" => shutdown = "dispose" /\ disposal = "failed"
         /\ Head(jobs).kind \in {"tick", "finish"} => Resolving
<1>1. jobs \in Seq(JobRecord)
  BY VariableTypes DEF Inv
<1>2. 1 \in Places /\ Head(jobs) = jobs[1]
  BY <1>1 DEF Places
<1>3. Len(jobs) = 1
  BY <1>1, <1>2 DEF Inv, Turn
<1>4. Places = {1} /\ Tail(jobs) = <<>>
  <2>1. Tail(jobs) \in Seq(JobRecord) /\ Len(Tail(jobs)) = 0
    BY <1>1, <1>3
  <2>2. Tail(jobs) = <<>>
    BY <2>1, EmptySeq
  <2>3. DOMAIN jobs = 1 .. 1
    BY <1>1, <1>3
  <2> QED
    BY <2>2, <2>3 DEF Places
<1> QED
  BY <1>2, <1>4 DEF Inv, Turn, NoTurns

\* With no turn queued before or after, the commands that wait are the waiters.
LEMMA KeptWaiting ==
  ASSUME Inv, NoTurns, NoTurns', waiters' = waiters, \A c \in Commands : Waits(c)' <=> Waits(c)
  PROVE  Waiting'
<1>1. \A i \in DOMAIN waiters : waiters[i] \in Commands
  BY VariableTypes DEF Inv
<1>2. \A c : Turns(c) = {} /\ Turns(c)' = {} /\ WaitsFor(c)' = WaitsFor(c)
  BY DEF NoTurns, Turns, WaitsFor, Respond
<1> QED
  BY <1>1, <1>2 DEF Inv, Waiting, NoTurns

LEMMA ThreeParts ==
  ASSUME NEW S, NEW s \in Seq(S), NEW t \in Seq(S), NEW u \in Seq(S), NEW whole, whole = s \o t \o u,
         NEW m, NEW n, NEW k, m = Len(s), n = Len(t), k = Len(u)
  PROVE  /\ whole \in Seq(S)
         /\ DOMAIN whole = 1 .. m + n + k /\ Len(whole) = m + n + k
         /\ \A i \in 1 .. m : i \in 1 .. m + n + k /\ whole[i] = s[i]
         /\ \A i \in 1 .. n : m + i \in 1 .. m + n + k /\ whole[m + i] = t[i]
         /\ \A i \in 1 .. k : m + n + i \in 1 .. m + n + k /\ whole[m + n + i] = u[i]
<1>1. m \in Nat /\ n \in Nat /\ k \in Nat
  BY LenProperties
<1>2. /\ s \o t \in Seq(S) /\ Len(s \o t) = m + n
      /\ \A i \in 1 .. m + n : (s \o t)[i] = IF i <= m THEN s[i] ELSE t[i - m]
  BY ConcatProperties
<1> DEFINE st == s \o t
<1> HIDE DEF st
<1>3. /\ st \o u \in Seq(S) /\ Len(st \o u) = m + n + k
      /\ \A i \in 1 .. m + n + k : (st \o u)[i] = IF i <= m + n THEN st[i] ELSE u[i - (m + n)]
  BY <1>2, ConcatProperties DEF st
<1>4. DOMAIN (st \o u) = 1 .. m + n + k
  BY <1>3, LenProperties
<1>5. \A i \in 1 .. m : i \in 1 .. m + n + k /\ (st \o u)[i] = s[i]
  BY <1>1, <1>2, <1>3 DEF st
<1>6. \A i \in 1 .. n : m + i \in 1 .. m + n + k /\ (st \o u)[m + i] = t[i]
  BY <1>1, <1>2, <1>3 DEF st
<1>7. \A i \in 1 .. k : m + n + i \in 1 .. m + n + k /\ (st \o u)[m + n + i] = u[i]
  BY <1>1, <1>3
<1> QED
  BY <1>3, <1>4, <1>5, <1>6, <1>7 DEF st

\* _resolveShutdown(): those who waited for the sequence wait for their turn.
LEMMA ResumedWaiting ==
  ASSUME Inv, NoTurns, waiters' = <<>>, UNCHANGED commands,
         NEW before \in Seq(JobRecord), NEW after \in Seq(JobRecord),
         \A i \in DOMAIN before : before[i].kind # "respond",
         \A i \in DOMAIN after : after[i].kind # "respond",
         jobs' = before \o Resolved \o after
  PROVE  /\ Waiting'
         /\ jobs' \in Seq(JobRecord) /\ Len(jobs') = Len(before) + Len(waiters) + Len(after)
         /\ \A i \in Places' : \/ i \in DOMAIN before /\ jobs'[i] = before[i]
                               \/ jobs'[i].kind = "respond"
                               \/ \E j \in DOMAIN after : /\ i = Len(before) + Len(waiters) + j
                                                          /\ jobs'[i] = after[j]
<1> DEFINE m == Len(before)
           n == Len(waiters)
           k == Len(after)
<1>1. /\ waiters \in Seq(Commands) /\ DOMAIN waiters = 1 .. n /\ n \in Nat
      /\ DOMAIN before = 1 .. m /\ m \in Nat /\ DOMAIN after = 1 .. k /\ k \in Nat
      /\ m = Len(before) /\ n = Len(waiters) /\ k = Len(after)
      /\ \A i \in 1 .. n : waiters[i] \in Commands
  BY VariableTypes DEF Inv
<1> HIDE DEF m, n, k
<1>2. Resolved \in Seq(JobRecord) /\ Len(Resolved) = n /\ \A i \in 1 .. n : Resolved[i] = Respond(waiters[i])
  <2>1. \A i \in 1 .. n : Respond(waiters[i]) \in JobRecord
    BY <1>1, JobTypes
  <2> QED
    BY <1>1, <2>1 DEF Resolved
<1>3. /\ jobs' \in Seq(JobRecord)
      /\ DOMAIN jobs' = 1 .. m + n + k /\ Len(jobs') = m + n + k
      /\ \A i \in 1 .. m : i \in 1 .. m + n + k /\ jobs'[i] = before[i]
      /\ \A i \in 1 .. n : m + i \in 1 .. m + n + k /\ jobs'[m + i] = Resolved[i]
      /\ \A i \in 1 .. k : m + n + i \in 1 .. m + n + k /\ jobs'[m + n + i] = after[i]
  <2> DEFINE r == Resolved
             whole == before \o r \o after
  <2>1. r \in Seq(JobRecord) /\ n = Len(r)
    BY <1>1, <1>2
  <2> HIDE DEF r
  <2>2. /\ whole \in Seq(JobRecord)
        /\ DOMAIN whole = 1 .. m + n + k /\ Len(whole) = m + n + k
        /\ \A i \in 1 .. m : i \in 1 .. m + n + k /\ whole[i] = before[i]
        /\ \A i \in 1 .. n : m + i \in 1 .. m + n + k /\ whole[m + i] = r[i]
        /\ \A i \in 1 .. k : m + n + i \in 1 .. m + n + k /\ whole[m + n + i] = after[i]
    BY <1>1, <2>1, ThreeParts
  <2>3. jobs' = whole
    BY DEF r
  <2> HIDE DEF whole
  <2> QED
    BY <2>2, <2>3 DEF r
<1>4. /\ \A i \in 1 .. m : i \in Places' /\ jobs'[i] = before[i]
      /\ \A i \in 1 .. n : m + i \in Places' /\ jobs'[m + i] = Respond(waiters[i])
      /\ \A i \in 1 .. k : m + n + i \in Places' /\ jobs'[m + n + i] = after[i]
  BY <1>2, <1>3 DEF Places
<1>5. \A i \in Places' : i \in 1 .. m \/ (\E j \in 1 .. n : i = m + j) \/ (\E j \in 1 .. k : i = m + n + j)
  <2> SUFFICES ASSUME NEW i \in 1 .. m + n + k, ~(i \in 1 .. m), ~(i - m \in 1 .. n)
               PROVE  i - m - n \in 1 .. k /\ i = m + n + (i - m - n)
    <3>1. \A i \in 1 .. m + n + k : i = m + (i - m)
      BY <1>1
    <3> QED
      BY <1>3, <3>1 DEF Places
  <2> QED
    BY <1>1
<1>6. \A i \in Places' : jobs'[i].kind = "respond" =>
                           \E j \in 1 .. n : /\ i = m + j /\ waiters[j] \in Commands
                                             /\ jobs'[i] = Respond(waiters[j]) /\ jobs'[i].of = waiters[j]
  <2> HIDE DEF Respond
  <2> SUFFICES ASSUME NEW i \in Places', jobs'[i].kind = "respond"
               PROVE  \E j \in 1 .. n : i = m + j /\ jobs'[i] = Respond(waiters[j])
    <3>1. \A j \in 1 .. n : waiters[j] \in Commands /\ Respond(waiters[j]).of = waiters[j]
      BY <1>1, JobTypes
    <3> QED
      BY <3>1
  <2>1. i \notin 1 .. m
    BY <1>1, <1>4
  <2>2. ASSUME NEW j \in 1 .. k, i = m + n + j PROVE FALSE
    <3>1. jobs'[m + n + j] = after[j] /\ after[j].kind # "respond"
      BY <1>1, <1>4
    <3> QED
      BY <2>2, <3>1
  <2>3. PICK j \in 1 .. n : i = m + j
    BY <1>5, <2>1, <2>2, Zenon
  <2>4. jobs'[m + j] = Respond(waiters[j])
    BY <1>4
  <2> QED
    BY <2>3, <2>4
<1>7. /\ \A c \in Commands : WaitsFor(c)' = {} /\ Turns(c) = {}
      /\ \A c : Waits(c)' <=> Waits(c)
  BY JobTypes DEF WaitsFor, Turns, NoTurns, Waits
<1>8. \A c \in Commands : \A i \in Turns(c)' : i - m \in WaitsFor(c) /\ i \in Places' /\ i \in Nat
  <2> SUFFICES ASSUME NEW c \in Commands, NEW i \in Places', jobs'[i].kind = "respond", jobs'[i].of = c
               PROVE  i - m \in WaitsFor(c) /\ i \in Nat
    BY DEF Turns
  <2>1. PICK j \in 1 .. n : i = m + j /\ jobs'[i].of = waiters[j]
    BY <1>6, JobTypes
  <2>2. i - m = j /\ i \in Nat
    BY <1>1, <2>1
  <2>3. waiters[j] = c
    BY <2>1
  <2> QED
    BY <1>1, <2>2, <2>3 DEF WaitsFor
<1>9. \A c \in Commands : \A i \in WaitsFor(c) : m + i \in Turns(c)'
  <2> SUFFICES ASSUME NEW c \in Commands, NEW i \in 1 .. n, waiters[i] = c
               PROVE  m + i \in Turns(c)'
    BY <1>1 DEF WaitsFor
  <2>1. m + i \in Places' /\ jobs'[m + i] = Respond(c)
    BY <1>1, <1>3, <1>4
  <2> QED
    BY <2>1, JobTypes DEF Turns
<1>10. Waiting'
  <2>1. (\A i \in Places : jobs[i].kind = "respond" => jobs[i].of \in Commands /\ Waits(jobs[i].of))'
    <3>1. \A j \in 1 .. n : Waits(waiters[j])
      BY <1>1 DEF Inv, Waiting
    <3> QED
      BY <1>6, <3>1 DEF Waits
  <2>2. \A c \in Commands : Waits(c)' => Turns(c)' # {}
    BY <1>7, <1>9 DEF Inv, Waiting
  <2>3. \A c \in Commands : \A i, j \in Turns(c)' : i = j
    <3> SUFFICES ASSUME NEW c \in Commands, NEW i \in Turns(c)', NEW j \in Turns(c)' PROVE i = j
      OBVIOUS
    <3>1. i - m = j - m
      BY <1>8 DEF Inv, Waiting
    <3> QED
      BY <1>1, <1>8, <3>1
  <2>4. DOMAIN waiters' = {}
    OBVIOUS
  <2> QED
    BY <1>7, <2>1, <2>2, <2>3, <2>4 DEF Waiting
<1> QED
  <2>1. \A i \in Places' : \/ i \in DOMAIN before /\ jobs'[i] = before[i]
                           \/ jobs'[i].kind = "respond"
                           \/ \E j \in DOMAIN after : i = m + n + j /\ jobs'[i] = after[j]
    <3>1. \A j \in 1 .. n : jobs'[m + j].kind = "respond"
      BY <1>1, <1>4, JobTypes, ZenonT(30)
    <3>2. /\ \A j \in DOMAIN before : jobs'[j] = before[j]
          /\ \A j \in DOMAIN after : jobs'[m + n + j] = after[j]
      BY <1>1, <1>4
    <3> TAKE i \in Places'
    <3>3. i \in DOMAIN before \/ (\E j \in 1 .. n : i = m + j) \/ (\E j \in DOMAIN after : i = m + n + j)
      BY <1>1, <1>5
    <3> QED
      BY <3>1, <3>2, <3>3
  <2> QED
    BY <1>1, <1>3, <1>10, <2>1

-----------------------------------------------------------------------------
(* The steps of the sequence *)

LEMMA StopTypes ==
  ASSUME Inv, Stop
  PROVE  dialogs' \in [Dialogs -> DialogRecord] /\ transport' = "closed"
<1>1. \A d \in Dialogs : /\ dialogs[d] \in DialogRecord
                         /\ [dialogs[d] EXCEPT !.at = "rejected"] \in DialogRecord
  BY VariableTypes DEF Inv, DialogRecord
<1> QED
  BY <1>1 DEF Stop

\* A block that starts when no job is queued, or the last one of the sequence, and resumes nobody.
LEMMA BlockInv ==
  ASSUME Inv, NoTurns, UNCHANGED <<waiters, dialogs, transport, host>>,
         commands' \in [Commands -> CommandRecord],
         \A c \in Commands : Proper(commands'[c]) /\ (Waits(c)' <=> Waits(c)),
         run' \in {"off", "on", "abort"}, disposal' \in {"no", "closing", "done", "failed"},
         shutdown' \in {"no", "idle", "dispose"}, UNCHANGED <<forced, notified>>, shutdown # "over",
         timers' \in {<<>>, <<"idle">>, <<"safety">>, <<"safety", "idle">>},
         \/ jobs' = <<>>
         \/ \E kind \in {"settled", "disposed", "failed", "finish"} : jobs' = <<Job(kind)>>,
         Sequence', Turn'
  PROVE  Inv'
<1>1. jobs' \in Seq(JobRecord) /\ NoTurns'
  <2>1. CASE jobs' = <<>>
    BY <2>1 DEF NoTurns, Places
  <2>2. ASSUME NEW kind \in {"settled", "disposed", "failed", "finish"}, jobs' = <<Job(kind)>>
        PROVE  jobs' \in Seq(JobRecord) /\ NoTurns'
    <3>1. Job(kind) \in JobRecord /\ Job(kind).kind # "respond"
      BY JobTypes
    <3> HIDE DEF Job
    <3> QED
      BY <2>2, <3>1 DEF NoTurns, Places
  <2> QED
    BY <2>1, <2>2
<1>2. TypeOK'
  BY <1>1 DEF Inv, TypeOK, CommandRecord, JobRecord
<1>3. Waiting'
  BY <1>1, KeptWaiting
<1>4. Stages' /\ Counted'
  BY DEF Inv, Stages, Counted
<1> QED
  BY <1>2, <1>3, <1>4 DEF Inv

\* No job is queued while the event loop is idle; one job has its own kind.
LEMMA NoJob == ASSUME jobs = <<>> PROVE NoTurns
BY DEF NoTurns, Places

LEMMA OneJob ==
  ASSUME NEW kind \in {"settled", "disposed", "failed", "finish"}, jobs' = <<Job(kind)>>
  PROVE  Len(jobs') = 1 /\ \A i \in Places' : jobs'[i].kind = kind
<1>1. Job(kind).kind = kind
  BY JobTypes
<1> HIDE DEF Job
<1> QED
  BY <1>1 DEF Places

\* The safety timer is armed before the idle timer.
LEMMA TimerOrder ==
  ASSUME Inv, timers # <<>>
  PROVE  /\ Head(timers) = "idle" => timers = <<"idle">> /\ Tail(timers) = <<>>
         /\ Head(timers) = "safety" => /\ timers \in {<<"safety">>, <<"safety", "idle">>}
                                       /\ Tail(timers) \in {<<>>, <<"idle">>}
<1>1. timers \in {<<"idle">>, <<"safety">>, <<"safety", "idle">>}
  BY DEF Inv, TypeOK
<1>2. /\ Head(<<"idle">>) = "idle" /\ Tail(<<"idle">>) = <<>>
      /\ Head(<<"safety">>) = "safety" /\ Tail(<<"safety">>) = <<>>
      /\ Head(<<"safety", "idle">>) = "safety" /\ Tail(<<"safety", "idle">>) = <<"idle">>
  OBVIOUS
<1> QED
  BY <1>1, <1>2

LEMMA SameCommands ==
  ASSUME Inv, UNCHANGED commands
  PROVE  /\ commands' \in [Commands -> CommandRecord]
         /\ \A c \in Commands : Proper(commands'[c]) /\ (Waits(c)' <=> Waits(c))
BY VariableTypes DEF Inv, Stages, Waits

LEMMA RunEndsInv ==
  ASSUME Inv, RunEnds
  PROVE  Inv'
<1>1. /\ jobs = <<>> /\ run' = "off"
      /\ UNCHANGED <<dialogs, disposal, shutdown, forced, waiters, timers, transport, notified, host>>
  BY DEF RunEnds, Idle
<1>2. /\ commands' \in [Commands -> CommandRecord]
      /\ \A c \in Commands : Proper(commands'[c]) /\ (Waits(c)' <=> Waits(c))
  <2> DEFINE Ended(c) == [commands[c] EXCEPT !.at = IF commands[c].kind = "awaited" THEN "ran" ELSE "over"]
  <2>1. \A c \in Commands : /\ commands[c] \in CommandRecord /\ Proper(commands[c])
                            /\ Ended(c) \in CommandRecord
    BY VariableTypes DEF Inv, Stages, CommandRecord
  <2>2. \A c \in Commands : commands'[c] = IF commands[c].at # "running" THEN commands[c] ELSE Ended(c)
    BY DEF RunEnds
  <2>3. ASSUME NEW c \in Commands PROVE Proper(commands'[c]) /\ (Waits(c)' <=> Waits(c))
    <3>1. CASE commands[c].at = "running"
      <4>1. /\ commands'[c].kind = commands[c].kind /\ commands'[c].replies = commands[c].replies
            /\ commands'[c].at = IF commands[c].kind = "awaited" THEN "ran" ELSE "over"
        <5>1. commands[c] \in CommandRecord /\ commands'[c] = Ended(c)
          BY <2>1, <2>2, <3>1
        <5>2. ASSUME NEW at PROVE /\ [commands[c] EXCEPT !.at = at].kind = commands[c].kind
                                  /\ [commands[c] EXCEPT !.at = at].replies = commands[c].replies
                                  /\ [commands[c] EXCEPT !.at = at].at = at
          BY <5>1 DEF CommandRecord
        <5> QED
          BY <5>1, <5>2
      <4> QED
        BY <2>1, <3>1, <4>1 DEF Proper, Waits
    <3>2. CASE commands[c].at # "running"
      BY <2>1, <2>2, <3>2 DEF Waits
    <3> QED
      BY <3>1, <3>2
  <2> QED
    BY <2>1, <2>3 DEF RunEnds
<1>3. \/ shutdown = "idle" /\ jobs' = <<Job("settled")>>
      \/ shutdown # "idle" /\ jobs' = <<>>
  BY DEF RunEnds
<1>4. Sequence' /\ Turn'
  BY <1>1, <1>3, OneJob DEF Inv, Sequence, Turn, Places
<1>5. CASE shutdown # "over"
  <2>1. shutdown' \in {"no", "idle", "dispose"} /\ disposal' \in {"no", "closing", "done", "failed"}
    BY <1>1, <1>5 DEF Inv, TypeOK
  <2>2. timers' \in {<<>>, <<"idle">>, <<"safety">>, <<"safety", "idle">>}
    BY <1>1 DEF Inv, TypeOK
  <2> QED
    BY <1>1, <1>2, <1>3, <1>4, <1>5, <2>1, <2>2, NoJob, BlockInv
<1>6. CASE shutdown = "over"
  <2>1. UNCHANGED sequenceVars
    BY <1>1, <1>3, <1>6 DEF sequenceVars
  <2>2. dialogs' \in [Dialogs -> DialogRecord]
    BY <1>1, VariableTypes DEF Inv
  <2> QED
    BY <1>1, <1>2, <2>1, <2>2, QuietInv
<1> QED
  BY <1>5, <1>6

LEMMA SignalInv ==
  ASSUME Inv, Signal
  PROVE  Inv'
<1>1. /\ jobs = <<>> /\ shutdown = "no" /\ shutdown' = "idle" /\ timers' = <<"safety", "idle">>
      /\ run' \in {"off", "abort"} /\ jobs' \in {<<>>, <<Job("settled")>>}
      /\ UNCHANGED <<commands, disposal, dialogs, forced, waiters, transport, notified, host>>
  BY DEF Signal, Idle, RequestShutdown
<1>2. disposal' = "no" /\ ~forced /\ waiters = <<>>
  BY <1>1 DEF Inv, Sequence
<1>3. Sequence' /\ Turn'
  BY <1>1, <1>2, OneJob DEF Sequence, Turn, Places
<1> QED
  BY <1>1, <1>2, <1>3, NoJob, SameCommands, BlockInv

LEMMA DisposeAnswersInv ==
  ASSUME Inv, DisposeAnswers
  PROVE  Inv'
<1>1. /\ jobs = <<>> /\ disposal = "closing"
      /\ \/ disposal' = "done" /\ jobs' = <<Job("disposed")>>
         \/ disposal' = "failed" /\ jobs' = <<Job("failed")>>
      /\ UNCHANGED <<commands, run, dialogs, shutdown, forced, waiters, timers, transport, notified, host>>
  BY DEF DisposeAnswers, Idle
<1>2. shutdown = "dispose"
  BY <1>1 DEF Inv, TypeOK, Sequence
<1>3. Sequence' /\ Turn'
  BY <1>1, <1>2, OneJob DEF Inv, Sequence, Turn, Places
<1>4. run' \in {"off", "on", "abort"} /\ timers' \in {<<>>, <<"idle">>, <<"safety">>, <<"safety", "idle">>}
  BY <1>1 DEF Inv, TypeOK
<1> QED
  BY <1>1, <1>2, <1>3, <1>4, NoJob, SameCommands, BlockInv

LEMMA IdleTimerInv ==
  ASSUME Inv, IdleTimer
  PROVE  Inv'
<1>1. /\ jobs = <<>> /\ jobs' = <<Job("settled")>>
      /\ UNCHANGED <<commands, run, disposal, dialogs, shutdown, forced, waiters, transport, notified, host>>
  BY DEF IdleTimer, Idle
<1>2. timers = <<"idle">> /\ timers' = <<>>
  BY TimerOrder DEF IdleTimer
<1>3. shutdown = "idle"
  BY <1>2 DEF Inv, Sequence
<1>4. Sequence' /\ Turn'
  BY <1>1, <1>2, <1>3, OneJob DEF Inv, Sequence, Turn, Places
<1>5. run' \in {"off", "on", "abort"} /\ disposal' \in {"no", "closing", "done", "failed"}
  BY <1>1 DEF Inv, TypeOK
<1> QED
  BY <1>1, <1>2, <1>3, <1>4, <1>5, NoJob, SameCommands, BlockInv

LEMMA SettledInv ==
  ASSUME Inv, jobs # <<>>, Settled
  PROVE  Inv'
<1>1. NoTurns /\ shutdown = "idle" /\ jobs' = <<>>
  BY LoneJob DEF Settled
<1>2. /\ shutdown' = "dispose" /\ disposal' = "closing"
      /\ UNCHANGED <<commands, run, dialogs, forced, waiters, transport, notified, host>>
  BY DEF Settled
<1>3. \/ timers' = <<>>
      \/ timers' = <<"safety">> /\ timers \in {<<"safety">>, <<"safety", "idle">>}
  BY TimerOrder DEF Settled
<1>4. Sequence' /\ Turn'
  BY <1>1, <1>2, <1>3 DEF Inv, Sequence, Turn, Places
<1>5. run' \in {"off", "on", "abort"}
  BY <1>2 DEF Inv, TypeOK
<1> QED
  BY <1>1, <1>2, <1>3, <1>4, <1>5, SameCommands, BlockInv

LEMMA TickInv ==
  ASSUME Inv, jobs # <<>>, Tick
  PROVE  Inv'
<1>1. NoTurns /\ Resolving /\ jobs' = <<Job("finish")>>
  <2>1. Tail(jobs) = <<>> /\ NoTurns /\ Resolving
    BY LoneJob DEF Tick
  <2>2. jobs' = Append(<<>>, Job("finish"))
    BY <2>1 DEF Tick
  <2> QED
    BY <2>1, <2>2
<1>2. UNCHANGED <<commands, run, disposal, dialogs, shutdown, forced, waiters, timers, transport,
                  notified, host>>
  BY DEF Tick
<1>3. Sequence' /\ Turn'
  BY <1>1, <1>2, OneJob DEF Inv, Sequence, Turn, Resolving, Places
<1>4. /\ run' \in {"off", "on", "abort"} /\ disposal' \in {"no", "closing", "done", "failed"}
      /\ timers' \in {<<>>, <<"idle">>, <<"safety">>, <<"safety", "idle">>}
  BY <1>2 DEF Inv, TypeOK
<1> QED
  BY <1>1, <1>2, <1>3, <1>4, SameCommands, BlockInv DEF Resolving

LEMMA DisposedInv ==
  ASSUME Inv, jobs # <<>>, Disposed
  PROVE  Inv'
<1>1. NoTurns /\ Tail(jobs) = <<>> /\ shutdown = "dispose" /\ disposal = "done"
  BY LoneJob DEF Disposed
<1>2. /\ timers' = <<>> /\ waiters' = <<>>
      /\ UNCHANGED <<commands, run, disposal, dialogs, shutdown, forced, transport, notified, host>>
  BY DEF Disposed
<1> DEFINE before == <<>>
           after == <<Job("tick")>>
<1>3. /\ before \in Seq(JobRecord) /\ DOMAIN before = {} /\ Len(before) = 0
      /\ after \in Seq(JobRecord) /\ DOMAIN after = {1} /\ Len(after) = 1 /\ after[1].kind = "tick"
  <2>1. Job("tick") \in JobRecord /\ Job("tick").kind = "tick"
    BY JobTypes
  <2> HIDE DEF Job
  <2> QED
    BY <2>1
<1>4. jobs' = before \o Resolved \o after
  BY <1>1 DEF Disposed
<1>5. waiters \in Seq(Commands)
  BY VariableTypes DEF Inv
<1> HIDE DEF before, after
<1>6. /\ Waiting' /\ jobs' \in Seq(JobRecord) /\ Len(jobs') = Len(waiters) + 1
      /\ \A i \in Places' : jobs'[i].kind = "respond" \/ (jobs'[i].kind = "tick" /\ i = Len(jobs'))
  <2>1. \A i \in DOMAIN before : before[i].kind # "respond"
    BY <1>3
  <2>2. \A i \in DOMAIN after : after[i].kind # "respond"
    BY <1>3
  <2>3. Len(waiters) \in Nat /\ UNCHANGED commands
    BY <1>2, <1>5
  <2>4. /\ Waiting' /\ jobs' \in Seq(JobRecord) /\ Len(jobs') = Len(before) + Len(waiters) + Len(after)
        /\ \A i \in Places' : \/ i \in DOMAIN before /\ jobs'[i] = before[i]
                              \/ jobs'[i].kind = "respond"
                              \/ \E j \in DOMAIN after : /\ i = Len(before) + Len(waiters) + j
                                                         /\ jobs'[i] = after[j]
    BY <1>1, <1>2, <1>3, <1>4, <2>1, <2>2, <2>3, ResumedWaiting
  <2> QED
    BY <1>3, <2>3, <2>4
<1>7. Sequence' /\ Turn'
  BY <1>1, <1>2, <1>6 DEF Inv, Sequence, Turn, Resolving, Places
<1>8. TypeOK'
  BY <1>2, <1>6 DEF Inv, TypeOK, JobRecord
<1>9. Stages' /\ Counted'
  BY <1>2 DEF Inv, Stages, Counted
<1> QED
  BY <1>6, <1>7, <1>8, <1>9 DEF Inv

\* HostJobs is none, or the one that ends the process.
LEMMA HostJobsTypes ==
  /\ HostJobs \in Seq(JobRecord)
  /\ HostJobs = <<>> \/ HostJobs = <<Job("exit")>>
  /\ \A i \in DOMAIN HostJobs : HostJobs[i].kind = "exit"
<1>1. Job("exit") \in JobRecord /\ Job("exit").kind = "exit"
  BY JobTypes
<1> HIDE DEF Job
<1> QED
  BY <1>1 DEF HostJobs

\* A block that calls onShutdown: nobody waits any more, and the sequence is over or cut short.
LEMMA NotifyInv ==
  ASSUME Inv, Stop, Notify, Waiting', jobs' \in Seq(JobRecord),
         \A i \in Places' : jobs'[i].kind \in {"respond", "exit"},
         UNCHANGED <<commands, run, disposal, host>>,
         \/ /\ shutdown = "dispose" /\ disposal \in {"done", "failed"}
            /\ shutdown' = "over" /\ forced' = forced /\ timers' = <<>>
         \/ /\ shutdown \in {"idle", "dispose"} /\ ~forced
            /\ shutdown' = shutdown /\ forced' = TRUE /\ timers' \in {<<>>, <<"idle">>}
            /\ timers' = <<"idle">> => shutdown = "idle",
         waiters' = <<>>
  PROVE  Inv'
<1>1. /\ dialogs' \in [Dialogs -> DialogRecord] /\ transport' = "closed"
      /\ commands' \in [Commands -> CommandRecord]
  BY StopTypes, VariableTypes DEF Inv
<1>2. Counted' /\ notified' \in 0 .. 2
  <2>1. notified' = notified + 1 /\ forced \in BOOLEAN
    BY DEF Notify, Inv, TypeOK
  <2> QED
    BY <2>1 DEF Inv, Counted
<1>3. Sequence' /\ Turn'
  <2>1. timers' \in {<<>>, <<"idle">>} /\ shutdown' \in {"idle", "dispose", "over"}
    OBVIOUS
  <2> QED
    BY <2>1 DEF Inv, Sequence, Turn
<1>4. TypeOK'
  <2>1. /\ shutdown' \in {"no", "idle", "dispose", "over"} /\ forced' \in BOOLEAN
        /\ timers' \in {<<>>, <<"idle">>, <<"safety">>, <<"safety", "idle">>}
        /\ waiters' \in Seq(Commands)
    <3>1. forced \in BOOLEAN
      BY DEF Inv, TypeOK
    <3>2. timers' \in {<<>>, <<"idle">>} /\ shutdown' \in {"idle", "dispose", "over"}
      OBVIOUS
    <3>3. forced' \in BOOLEAN
      BY <3>1
    <3>4. waiters' \in Seq(Commands)
      BY EmptySeq
    <3> QED
      BY <3>2, <3>3, <3>4
  <2>2. /\ run' \in {"off", "on", "abort"} /\ disposal' \in {"no", "closing", "done", "failed"}
        /\ host' \in Hosts \cup {"exited"} /\ transport' \in {"open", "closed"}
    BY <1>1 DEF Inv, TypeOK
  <2> QED
    BY <1>1, <1>2, <2>1, <2>2 DEF TypeOK, JobRecord, CommandRecord, DialogRecord
<1>5. Stages'
  BY DEF Inv, Stages
<1> QED
  BY <1>2, <1>3, <1>4, <1>5 DEF Inv

LEMMA FinishInv ==
  ASSUME Inv, jobs # <<>>, Finish
  PROVE  Inv'
<1>1. NoTurns /\ Tail(jobs) = <<>> /\ Resolving
  BY LoneJob DEF Finish
<1>2. /\ Stop /\ Notify /\ shutdown' = "over"
      /\ UNCHANGED <<commands, run, disposal, forced, waiters, timers, host>>
  BY DEF Finish
<1>3. jobs' = HostJobs
  BY <1>1, HostJobsTypes, ConcatEmptySeq DEF Finish
<1>4. NoTurns' /\ \A i \in Places' : jobs'[i].kind \in {"respond", "exit"}
  BY <1>3, HostJobsTypes DEF NoTurns, Places
<1>5. Waiting'
  BY <1>1, <1>2, <1>4, KeptWaiting DEF Waits
<1> QED
  BY <1>1, <1>2, <1>3, <1>4, <1>5, HostJobsTypes, NotifyInv DEF Resolving

\* The host's jobs, then those of the commands resumed.
LEMMA ResumedJobs ==
  ASSUME Inv, NoTurns, waiters' = <<>>, UNCHANGED commands, jobs' = HostJobs \o Resolved
  PROVE  /\ Waiting' /\ jobs' \in Seq(JobRecord)
         /\ \A i \in Places' : jobs'[i].kind \in {"respond", "exit"}
<1>1. waiters \in Seq(Commands)
  BY VariableTypes DEF Inv
<1>2. Resolved \in Seq(JobRecord)
  <2>1. \A i \in 1 .. Len(waiters) : Respond(waiters[i]) \in JobRecord
    BY <1>1, JobTypes
  <2> QED
    BY <1>1, <2>1 DEF Resolved
<1>3. HostJobs \o Resolved \in Seq(JobRecord)
  BY <1>2, HostJobsTypes, ConcatProperties
<1>4. jobs' = HostJobs \o Resolved \o <<>>
  BY <1>3, ConcatEmptySeq
<1>5. <<>> \in Seq(JobRecord) /\ DOMAIN <<>> = {}
  OBVIOUS
<1>6. \A i \in DOMAIN HostJobs : HostJobs[i].kind # "respond"
  BY HostJobsTypes
<1>7. /\ Waiting' /\ jobs' \in Seq(JobRecord)
      /\ \A i \in Places' : \/ i \in DOMAIN HostJobs /\ jobs'[i] = HostJobs[i]
                            \/ jobs'[i].kind = "respond"
                            \/ \E j \in DOMAIN <<>> : /\ i = Len(HostJobs) + Len(waiters) + j
                                                      /\ jobs'[i] = <<>>[j]
  BY <1>4, <1>5, <1>6, HostJobsTypes, ResumedWaiting
<1> QED
  BY <1>5, <1>7, HostJobsTypes

LEMMA FailedInv ==
  ASSUME Inv, jobs # <<>>, Failed
  PROVE  Inv'
<1>1. NoTurns /\ Tail(jobs) = <<>> /\ shutdown = "dispose" /\ disposal = "failed"
  BY LoneJob DEF Failed
<1>2. /\ Stop /\ Notify /\ shutdown' = "over" /\ timers' = <<>> /\ waiters' = <<>>
      /\ UNCHANGED <<commands, run, disposal, forced, host>>
  BY DEF Failed
<1>3. jobs' = HostJobs \o Resolved
  BY <1>1, HostJobsTypes, ConcatEmptySeq DEF Failed
<1> QED
  BY <1>1, <1>2, <1>3, ResumedJobs, NotifyInv

LEMMA SafetyTimerInv ==
  ASSUME Inv, SafetyTimer
  PROVE  Inv'
<1>1. /\ jobs = <<>> /\ timers # <<>> /\ Head(timers) = "safety" /\ timers' = Tail(timers)
      /\ Stop /\ Notify /\ jobs' = HostJobs \o Resolved /\ waiters' = <<>>
      /\ UNCHANGED <<commands, run, disposal, shutdown, host>>
  BY DEF SafetyTimer, Idle
<1>2. timers \in {<<"safety">>, <<"safety", "idle">>} /\ timers' \in {<<>>, <<"idle">>}
  BY <1>1, TimerOrder
<1>3. ~forced /\ shutdown \in {"idle", "dispose"}
  <2>1. timers # <<>> /\ shutdown \in {"no", "idle", "dispose", "over"}
    BY <1>1 DEF Inv, TypeOK
  <2> QED
    BY <1>2, <2>1 DEF Inv, Sequence
<1>4. forced' = TRUE
  BY <1>3 DEF SafetyTimer
<1>5. timers' = <<"idle">> => shutdown = "idle"
  <2>1. timers = <<"safety">> => Tail(timers) = <<>>
    OBVIOUS
  <2> QED
    BY <1>1, <1>2, <2>1 DEF Inv, Sequence
<1> QED
  BY <1>1, <1>2, <1>3, <1>4, <1>5, NoJob, ResumedJobs, NotifyInv

LEMMA ExitInv ==
  ASSUME Inv, Exit
  PROVE  Inv'
<1>1. host' = "exited" /\ UNCHANGED <<commands, run, disposal, dialogs, shutdown, forced, waiters, timers,
                                      jobs, transport, notified>>
  BY DEF Exit
<1>2. TypeOK'
  BY <1>1 DEF Inv, TypeOK
<1>3. Stages' /\ Sequence' /\ Counted' /\ Turn'
  BY <1>1 DEF Inv, Stages, Sequence, Counted, Turn, Resolving, Places
<1>4. Waiting'
  <2>1. \A c : (Waits(c)' <=> Waits(c)) /\ Turns(c)' = Turns(c) /\ WaitsFor(c)' = WaitsFor(c)
    BY <1>1 DEF Waits, Turns, WaitsFor, Places
  <2>2. (\A i \in DOMAIN waiters : Waits(waiters[i]))'
    BY <1>1 DEF Inv, Waiting, Waits
  <2>3. (\A i \in Places : jobs[i].kind = "respond" => jobs[i].of \in Commands /\ Waits(jobs[i].of))'
    BY <1>1 DEF Inv, Waiting, Waits, Places
  <2> QED
    BY <2>1, <2>2, <2>3 DEF Inv, Waiting
<1> QED
  BY <1>2, <1>3, <1>4 DEF Inv

LEMMA ReceiveShutdownInv ==
  ASSUME Inv, NEW c \in Commands, ReceiveShutdown(c)
  PROVE  Inv'
<1>1. /\ jobs = <<>> /\ commands[c] \in CommandRecord /\ Proper(commands[c])
      /\ commands[c].at = "unused"
  BY VariableTypes DEF Inv, Stages, Received, ReceiveShutdown, Idle
<1>2. commands[c].kind = "none" /\ commands[c].replies = <<>>
  BY <1>1 DEF Proper
<1> DEFINE new == [commands[c] EXCEPT !.kind = "shutdown", !.at = "waiting"]
<1>3. new.kind = "shutdown" /\ new.at = "waiting" /\ new.replies = <<>>
  BY <1>1, <1>2 DEF CommandRecord
<1>4. new \in CommandRecord /\ commands' = [commands EXCEPT ![c] = new]
  BY <1>1 DEF ReceiveShutdown, CommandRecord
<1> HIDE DEF new
<1>5. /\ commands' \in [Commands -> CommandRecord] /\ commands'[c] = new
      /\ \A d \in Commands : d # c => commands'[d] = commands[d]
  BY <1>4, CommandTypes DEF Inv
<1>6. Stages'
  BY <1>3, <1>5 DEF Inv, Stages, Proper
<1>7. /\ waiters \in Seq(Commands) /\ Len(waiters) \in Nat /\ DOMAIN waiters = 1 .. Len(waiters)
      /\ waiters' \in Seq(Commands) /\ DOMAIN waiters' = 1 .. Len(waiters) + 1
      /\ \A i \in 1 .. Len(waiters) : waiters'[i] = waiters[i]
      /\ waiters'[Len(waiters) + 1] = c
  <2>1. waiters' = Append(waiters, c)
    BY DEF ReceiveShutdown
  <2> QED
    BY <2>1, VariableTypes, AppendProperties, LenProperties DEF Inv
<1>8. /\ \/ /\ shutdown = "no" /\ shutdown' = "idle" /\ timers' = <<"safety", "idle">>
            /\ run' \in {"off", "abort"} /\ jobs' \in {<<>>, <<Job("settled")>>}
         \/ shutdown # "no" /\ UNCHANGED <<shutdown, timers, run, jobs>>
      /\ UNCHANGED <<disposal, dialogs, forced, transport, notified, host>>
  BY DEF ReceiveShutdown, RequestShutdown
<1>9. jobs' = <<>> \/ (shutdown' = "idle" /\ jobs' = <<Job("settled")>>)
  BY <1>1, <1>8
<1>10. /\ jobs' \in Seq(JobRecord) /\ NoTurns /\ NoTurns'
       /\ \A i \in Places' : jobs'[i].kind = "settled" /\ Len(jobs') = 1 /\ shutdown' = "idle"
  <2>1. CASE jobs' = <<>>
    BY <1>1, <2>1, NoJob, EmptySeq DEF NoTurns, Places
  <2>2. CASE shutdown' = "idle" /\ jobs' = <<Job("settled")>>
    <3>1. Job("settled") \in JobRecord
      BY JobTypes
    <3>2. \A i \in Places' : jobs'[i].kind = "settled" /\ Len(jobs') = 1
      BY <2>2, OneJob
    <3> HIDE DEF Job
    <3> QED
      BY <1>1, <2>2, <3>1, <3>2, NoJob DEF NoTurns
  <2> QED
    BY <1>9, <2>1, <2>2
<1>11. Waiting'
  <2>1. (\A i \in DOMAIN waiters : Waits(waiters[i]))'
    <3>1. \A i \in 1 .. Len(waiters) : waiters[i] \in Commands /\ Waits(waiters[i])
      BY <1>7 DEF Inv, Waiting
    <3>2. \A i \in 1 .. Len(waiters) : waiters[i] # c
      BY <1>1, <3>1 DEF Waits
    <3>3. \A i \in 1 .. Len(waiters) : commands'[waiters'[i]] = commands[waiters[i]]
      BY <1>5, <1>7, <3>1, <3>2
    <3> QED
      BY <1>3, <1>5, <1>7, <3>1, <3>3 DEF Waits
  <2>2. \A d \in Commands : Turns(d) = {} /\ Turns(d)' = {}
    BY <1>10 DEF Turns, NoTurns
  <2>3. WaitsFor(c) = {} /\ WaitsFor(c)' = {Len(waiters) + 1}
    <3>1. \A i \in 1 .. Len(waiters) : waiters[i] # c
      BY <1>1, <1>7 DEF Inv, Waiting, Waits
    <3> QED
      BY <1>7, <3>1 DEF WaitsFor
  <2>4. \A d \in Commands : d # c => WaitsFor(d)' = WaitsFor(d)
    BY <1>7 DEF WaitsFor
  <2>5. \A d \in Commands : d # c => (Waits(d)' <=> Waits(d))
    BY <1>5 DEF Waits
  <2>6. (\A i \in Places : jobs[i].kind = "respond" => jobs[i].of \in Commands /\ Waits(jobs[i].of))'
    BY <1>10 DEF NoTurns
  <2>7. \A d \in Commands : /\ Waits(d)' => WaitsFor(d)' # {}
                            /\ \A i, j \in WaitsFor(d)' : i = j
    BY <2>2, <2>3, <2>4, <2>5 DEF Inv, Waiting
  <2> QED
    BY <2>1, <2>2, <2>6, <2>7 DEF Waiting
<1>12. Sequence' /\ Turn' /\ Counted'
  BY <1>8, <1>10 DEF Inv, Sequence, Turn, Counted
<1>13. TypeOK'
  <2>1. /\ shutdown' \in {"no", "idle", "dispose", "over"} /\ run' \in {"off", "on", "abort"}
        /\ timers' \in {<<>>, <<"idle">>, <<"safety">>, <<"safety", "idle">>}
    BY <1>8 DEF Inv, TypeOK
  <2> QED
    BY <1>5, <1>7, <1>8, <1>10, <2>1 DEF Inv, TypeOK, JobRecord, CommandRecord
<1> QED
  BY <1>6, <1>11, <1>12, <1>13 DEF Inv

LEMMA RespondInv ==
  ASSUME Inv, jobs # <<>>, RespondToShutdown
  PROVE  Inv'
<1>1. /\ jobs \in Seq(JobRecord) /\ jobs' = Tail(jobs) /\ Head(jobs) = jobs[1] /\ jobs[1].kind = "respond"
      /\ UNCHANGED <<run, disposal, dialogs, shutdown, forced, waiters, timers, transport, notified, host>>
  BY VariableTypes DEF Inv, RespondToShutdown
<1>2. /\ Len(jobs) \in Nat /\ Places = 1 .. Len(jobs) /\ 1 \in Places
      /\ jobs' \in Seq(JobRecord) /\ Len(jobs') = Len(jobs) - 1 /\ Places' = 1 .. Len(jobs) - 1
      /\ \A i \in Places' : i + 1 \in Places /\ jobs'[i] = jobs[i + 1]
  <2>1. Len(jobs) \in Nat /\ Places = 1 .. Len(jobs) /\ Len(jobs) # 0
    BY <1>1, LenProperties, EmptySeq DEF Places
  <2>2. /\ jobs' \in Seq(JobRecord) /\ Len(jobs') = Len(jobs) - 1
        /\ \A i \in 1 .. Len(jobs') : jobs'[i] = jobs[i + 1]
    BY <1>1, HeadTailProperties
  <2>3. Places' = 1 .. Len(jobs) - 1
    BY <2>2, LenProperties DEF Places
  <2> QED
    BY <2>1, <2>2, <2>3
<1> DEFINE c == jobs[1].of
<1>3. c \in Commands /\ Waits(c) /\ Reply(c, "success", "over")
  BY <1>1, <1>2 DEF Inv, Waiting, RespondToShutdown
<1> HIDE DEF c
<1>4. commands[c].kind = "shutdown" /\ commands[c].replies = <<>>
  BY <1>3 DEF Inv, Stages, Proper, Waits
<1>5. <<"success">> = Append(commands[c].replies, "success")
  BY <1>4
<1>6. PICK new \in CommandRecord :
        /\ commands' = [commands EXCEPT ![c] = new]
        /\ new.kind = "shutdown" /\ new.at = "over" /\ new.replies = <<"success">>
  BY <1>3, <1>4, <1>5, ReplyTypes DEF Inv
<1>7. /\ commands' \in [Commands -> CommandRecord] /\ commands'[c] = new
      /\ \A d \in Commands : d # c => commands'[d] = commands[d]
  BY <1>3, <1>6, CommandTypes DEF Inv
<1>8. Stages'
  BY <1>6, <1>7 DEF Inv, Stages, Proper
<1>9. /\ 1 \in Turns(c) /\ \A i \in Turns(c) : i = 1
      /\ WaitsFor(c) = {}
  BY <1>1, <1>2, <1>3 DEF Inv, Waiting, Turns, c
<1>10. \A d \in Commands : \A i \in Turns(d)' : i + 1 \in Turns(d) /\ i \in Nat
  BY <1>2 DEF Turns
<1>11. \A i \in Places' : jobs'[i].kind = "respond" => jobs'[i].of # c
  BY <1>2, <1>9 DEF Turns
<1>12. Waiting'
  <2>1. (\A i \in DOMAIN waiters : Waits(waiters[i]))'
    <3>1. \A i \in DOMAIN waiters : waiters[i] \in Commands /\ Waits(waiters[i]) /\ waiters[i] # c
      BY <1>9, VariableTypes DEF Inv, Waiting, WaitsFor
    <3> QED
      BY <1>1, <1>7, <3>1 DEF Waits
  <2>2. (\A i \in Places : jobs[i].kind = "respond" => jobs[i].of \in Commands /\ Waits(jobs[i].of))'
    <3>1. \A i \in Places' : jobs'[i].kind = "respond" => jobs'[i].of \in Commands /\ Waits(jobs'[i].of)
      BY <1>2 DEF Inv, Waiting
    <3> QED
      BY <1>7, <1>11, <3>1 DEF Waits
  <2>3. \A d \in Commands : WaitsFor(d)' = WaitsFor(d)
    BY <1>1 DEF WaitsFor
  <2>4. ASSUME NEW d \in Commands, Waits(d)' PROVE Turns(d)' # {} \/ WaitsFor(d)' # {}
    <3>1. d # c /\ Waits(d)
      BY <1>6, <1>7, <2>4 DEF Waits
    <3>2. CASE WaitsFor(d) # {}
      BY <2>3, <3>2
    <3>3. ASSUME NEW i \in Turns(d) PROVE Turns(d)' # {}
      <4>1. i \in Places /\ jobs[i].kind = "respond" /\ jobs[i].of = d /\ i # 1
        BY <3>1 DEF Turns, c
      <4>2. i - 1 \in Places' /\ jobs'[i - 1] = jobs[i]
        BY <1>2, <4>1
      <4> QED
        BY <4>1, <4>2 DEF Turns
    <3> QED
      BY <3>1, <3>2, <3>3 DEF Inv, Waiting
  <2>5. \A d \in Commands : \A i, j \in Turns(d)' : i = j
    <3> SUFFICES ASSUME NEW d \in Commands, NEW i \in Turns(d)', NEW j \in Turns(d)' PROVE i = j
      OBVIOUS
    <3>1. i + 1 = j + 1
      BY <1>10 DEF Inv, Waiting
    <3> QED
      BY <1>10, <3>1
  <2>6. \A d \in Commands : Turns(d)' = {} \/ WaitsFor(d)' = {}
    BY <1>10, <2>3 DEF Inv, Waiting
  <2>7. \A d \in Commands : \A i, j \in WaitsFor(d)' : i = j
    BY <2>3 DEF Inv, Waiting
  <2> QED
    BY <2>1, <2>2, <2>4, <2>5, <2>6, <2>7 DEF Waiting
<1>13. Turn'
  <2>1. \A i \in Places' :
          /\ jobs'[i].kind \notin {"settled", "disposed", "failed", "finish"}
          /\ jobs'[i].kind = "tick" => i = Len(jobs') /\ Resolving
    BY <1>1, <1>2 DEF Inv, Turn
  <2> QED
    BY <1>1, <2>1 DEF Turn, Resolving
<1>14. Sequence' /\ Counted'
  <2>1. shutdown # "no"
    BY DEF Inv, Sequence
  <2> QED
    BY <1>1, <2>1 DEF Inv, Sequence, Counted
<1>15. TypeOK'
  BY <1>1, <1>2, <1>7 DEF Inv, TypeOK, JobRecord, CommandRecord
<1> QED
  BY <1>8, <1>12, <1>13, <1>14, <1>15 DEF Inv

-----------------------------------------------------------------------------
(* The theorems *)

LEMMA InitInv == Init => Inv
<1> SUFFICES ASSUME Init PROVE Inv
  OBVIOUS
<1> USE DEF Init
<1>1. TypeOK
  <2>1. NoCommand \in CommandRecord /\ NoDialog \in DialogRecord
    BY DEF CommandRecord, DialogRecord, NoCommand, NoDialog
  <2>2. commands \in [Commands -> CommandRecord] /\ dialogs \in [Dialogs -> DialogRecord]
    BY <2>1
  <2>3. jobs \in Seq(JobRecord) /\ waiters \in Seq(Commands)
    BY EmptySeq
  <2>4. timers \in {<<>>, <<"idle">>, <<"safety">>, <<"safety", "idle">>} /\ notified \in 0 .. 2
    OBVIOUS
  <2>5. /\ run \in {"off", "on", "abort"} /\ disposal \in {"no", "closing", "done", "failed"}
        /\ shutdown \in {"no", "idle", "dispose", "over"} /\ forced \in BOOLEAN
        /\ transport \in {"open", "closed"} /\ host \in Hosts \cup {"exited"}
    OBVIOUS
  <2> QED
    BY <2>2, <2>3, <2>4, <2>5 DEF TypeOK, CommandRecord, DialogRecord, JobRecord
<1>2. Stages
  BY DEF Stages, Proper, NoCommand
<1>3. Waiting
  BY DEF Waiting, Waits, Turns, WaitsFor, Places, NoCommand
<1>4. Sequence /\ Turn /\ Counted
  BY DEF Sequence, Turn, Counted, Places
<1> QED
  BY <1>1, <1>2, <1>3, <1>4 DEF Inv

LEMMA StepInv == Inv /\ [Next]_vars => Inv'
<1> SUFFICES ASSUME Inv, [Next]_vars PROVE Inv'
  OBVIOUS
<1>1. CASE UNCHANGED vars
  <2>1. /\ UNCHANGED <<commands, run, dialogs>> /\ UNCHANGED sequenceVars
    BY <1>1 DEF vars, sequenceVars
  <2>2. run' \in {"off", "on", "abort"} /\ dialogs' \in [Dialogs -> DialogRecord]
    BY <2>1, VariableTypes DEF Inv, TypeOK
  <2> QED
    BY <2>1, <2>2, SameCommands, QuietInv
<1>2. CASE Client
  BY <1>2, ReceiveShutdownInv, ReceiveInv, DialogInv DEF Client
<1>3. CASE Session
  BY <1>3, AwaitedInv, PromptStartsInv, SkillStartsInv, RunEndsInv, DisposeAnswersInv, DialogInv DEF Session
<1>4. CASE Signal
  BY <1>4, SignalInv
<1>5. CASE RunJob
  BY <1>5, SettledInv, DisposedInv, TickInv, FinishInv, FailedInv, RespondInv, ExitInv DEF RunJob
<1>6. CASE IdleTimer
  BY <1>6, IdleTimerInv
<1>7. CASE SafetyTimer
  BY <1>7, SafetyTimerInv
<1> QED
  BY <1>1, <1>2, <1>3, <1>4, <1>5, <1>6, <1>7 DEF Next

LEMMA InvAlways == Spec => []Inv
BY InitInv, StepInv, PTL DEF Spec

\* Every variable keeps its type: in particular onShutdown is called at most twice.
THEOREM TypeCorrect == Spec => []TypeOK
<1>1. Inv => TypeOK
  BY DEF Inv
<1> QED
  BY <1>1, InvAlways, PTL

\* A command is answered once, when it is over; only a prompt that fails is answered again.
THEOREM AnsweredOnceAlways == Spec => []AnsweredOnce
<1>1. Inv => AnsweredOnce
  <2> SUFFICES ASSUME Inv, NEW c \in Commands
               PROVE  IF commands[c].kind = "prompt"
                      THEN commands[c].replies \in {<<"success">>} \cup
                             (IF commands[c].at = "over" THEN {<<"success", "error">>} ELSE {})
                      ELSE Len(commands[c].replies) = IF commands[c].at = "over" THEN 1 ELSE 0
    BY DEF AnsweredOnce
  <2>1. Proper(commands[c])
    BY DEF Inv, Stages
  <2>2. Len(<<>>) = 0 /\ Len(<<"success">>) = 1 /\ Len(<<"error">>) = 1
    OBVIOUS
  <2>3. CASE commands[c].kind = "prompt"
    BY <2>1, <2>3 DEF Proper
  <2>4. CASE commands[c].kind # "prompt"
    <3>1. \/ commands[c].at # "over" /\ commands[c].replies = <<>>
          \/ commands[c].at = "over" /\ commands[c].replies \in {<<"success">>, <<"error">>}
      BY <2>1, <2>4 DEF Proper
    <3>2. Len(commands[c].replies) = IF commands[c].at = "over" THEN 1 ELSE 0
      BY <2>2, <3>1
    <3> QED
      BY <2>4, <3>2
  <2> QED
    BY <2>3, <2>4
<1> QED
  BY <1>1, InvAlways, PTL

\* onShutdown is called once, unless the safety net fires.
THEOREM NotifiedOnceAlways == Spec => []NotifiedOnce
<1>1. Inv => NotifiedOnce
  BY DEF Inv, Counted, NotifiedOnce
<1> QED
  BY <1>1, InvAlways, PTL

\* When the sequence closes the transport itself, every shutdown command has had its turn: nobody
\* waits for the sequence, and no turn is queued beside its last job.
LEMMA CloseStep ==
  ASSUME Inv, [Next]_vars,
         transport = "open", transport' = "closed", ~forced', disposal # "failed"
  PROVE  /\ disposal = "done" /\ timers' = <<>>
         /\ \A c \in Commands : commands[c].kind = "shutdown" => commands[c].at = "over"
<1>1. jobs # <<>> /\ Finish
  <2>1. ~UNCHANGED transport
    OBVIOUS
  <2>2. ~SafetyTimer
    <3>1. SafetyTimer => timers # <<>> /\ forced' = (forced \/ shutdown # "over")
      BY DEF SafetyTimer
    <3> QED
      BY <3>1 DEF Inv, Sequence
  <2>3. ~(jobs # <<>> /\ Failed)
    <3>1. Failed => Head(jobs).kind = "failed"
      BY DEF Failed
    <3> QED
      BY <3>1, LoneJob
  <2> QED
    BY <2>1, <2>2, <2>3 DEF Next, vars, Client, Session, Signal, RunJob, ReceiveShutdown, ReceivePrompt,
       ReceivePlain, ReceiveAbort, ReceiveAwaited, AwaitedAnswers, PromptStarts, SkillStarts, RunEnds,
       DisposeAnswers, Ask, Answer, Settled, Disposed, Tick, RespondToShutdown, Exit, IdleTimer, sequenceVars
<1>2. NoTurns /\ Resolving
  BY <1>1, LoneJob DEF Finish
<1>3. \A c \in Commands : ~Waits(c)
  BY <1>2 DEF Inv, Waiting, Turns, WaitsFor, NoTurns, Resolving
<1>4. \A c \in Commands : commands[c].kind = "shutdown" => commands[c].at = "over"
  BY <1>3 DEF Inv, Stages, Proper, Waits
<1> QED
  BY <1>1, <1>2, <1>4 DEF Finish, Resolving

\* The graceful shutdown closes the transport last: after the disposal, the responses and the timers.
THEOREM ClosesGracefully == Spec => GracefulClose
<1>1. Inv /\ [Next]_vars =>
        (transport = "open" /\ transport' = "closed" /\ ~forced' /\ disposal # "failed" =>
           /\ disposal = "done"
           /\ \A c \in Commands : commands[c].kind = "shutdown" => commands[c].at = "over"
           /\ timers' = <<>>)
  BY CloseStep
<1> QED
  BY <1>1, InvAlways, PTL DEF Spec, GracefulClose
=============================================================================
