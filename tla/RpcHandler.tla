----------------------------- MODULE RpcHandler -----------------------------
(***************************************************************************)
(* The RPC handler over one session, with the UI provider that bridges the *)
(* dialogs of extensions to the client, and the graceful shutdown.         *)
(*                                                                         *)
(* The event loop runs the promise jobs a block queues, in order, before   *)
(* it takes the next message, timer or answer: jobs is that queue, and an  *)
(* action that is not a job waits until it is empty.  The session is seen  *)
(* as the handler sees it: whether a run is on, and how far dispose() is.  *)
(* Any call into extensions, and any run, may never answer.                *)
(***************************************************************************)
EXTENDS Naturals, Sequences, FiniteSets

CONSTANTS Commands,  \* the commands a client can send
          Dialogs,   \* the interactive UI requests extensions can make
          Hosts      \* onShutdown ends the "process", as in runRpcMode, or not, in a "library"

ASSUME HostsAssumption == Hosts \subseteq {"process", "library"}

VARIABLES
  commands,   \* each command's kind, progress and the replies sent to it
  run,        \* of the session's agent: "off", "on", or told to "abort"
  disposal,   \* how far session.dispose() is
  dialogs,    \* _pending: each request's asker and progress
  shutdown,   \* where _performGracefulShutdown is; "no" until requested
  forced,     \* whether _onShutdownTimeout cut the sequence short
  waiters,    \* shutdown commands awaiting _shutdownPromise
  timers,     \* armed timers, both of the same delay, in the order armed
  jobs,       \* promise jobs, in order
  transport,  \* "open" or "closed"
  notified,   \* calls of onShutdown
  host        \* one of Hosts, or "exited"

vars == <<commands, run, disposal, dialogs, shutdown, forced, waiters, timers, jobs, transport,
          notified, host>>

sequenceVars == <<disposal, shutdown, forced, waiters, timers, jobs, transport, notified, host>>

NoCommand == [kind |-> "none", at |-> "unused", replies |-> <<>>]
NoDialog == [asker |-> "none", at |-> "unused"]
Job(kind) == [kind |-> kind, of |-> "none"]
Respond(c) == [kind |-> "respond", of |-> c]

Init ==
  /\ commands = [c \in Commands |-> NoCommand]
  /\ run = "off"
  /\ disposal = "no"
  /\ dialogs = [d \in Dialogs |-> NoDialog]
  /\ shutdown = "no"
  /\ forced = FALSE
  /\ waiters = <<>>
  /\ timers = <<>>
  /\ jobs = <<>>
  /\ transport = "open"
  /\ notified = 0
  /\ host \in Hosts

\* The event loop is free to take a message, a timer or an answer.
Idle == host # "exited" /\ jobs = <<>>

Reply(c, outcome, at) ==
  commands' = [commands EXCEPT ![c].replies = Append(@, outcome), ![c].at = at]

Awaits(asker) == \E d \in Dialogs : dialogs[d] = [asker |-> asker, at |-> "pending"]

\* stop(): pending dialogs are rejected, the transport is closed.
Stop ==
  /\ dialogs' = [d \in Dialogs |-> IF dialogs[d].at = "pending"
                                   THEN [dialogs[d] EXCEPT !.at = "rejected"] ELSE dialogs[d]]
  /\ transport' = "closed"

\* onShutdown(), and what it makes the host do once the block is over.
Notify == notified' = notified + 1
HostJobs == IF host = "process" THEN <<Job("exit")>> ELSE <<>>

\* _resolveShutdown() resumes the commands that await it.
Resolved == [i \in DOMAIN waiters |-> Respond(waiters[i])]

-----------------------------------------------------------------------------
\* Mutant: a second request is let through; _checkShutdown still starts one
\* sequence only.
RequestShutdown_Unguarded ==
  /\ shutdown' = IF shutdown = "no" THEN "idle" ELSE shutdown
  /\ timers' = IF shutdown = "no" THEN <<"safety", "idle">> ELSE Append(timers, "safety")
  /\ run' = IF run = "off" \/ shutdown # "no" THEN run ELSE "abort"
  /\ jobs' = IF run = "off" /\ shutdown = "no" THEN <<Job("settled")>> ELSE <<>>

\* requestShutdown() and the block of _performGracefulShutdown it runs into:
\* the safety timer is armed, a run is aborted, then the wait is armed too.
\* With no run on, waitForIdle() answers at once.
RequestShutdown ==
  /\ shutdown = "no"
  /\ shutdown' = "idle"
  /\ timers' = <<"safety", "idle">>
  /\ run' = IF run = "off" THEN "off" ELSE "abort"
  /\ jobs' = IF run = "off" THEN <<Job("settled")>> ELSE <<>>

\* A signal, or the end of the client's stream.
Signal ==
  /\ Idle
  /\ RequestShutdown
  /\ UNCHANGED <<commands, disposal, dialogs, forced, waiters, transport, notified, host>>

Received(c) == Idle /\ transport = "open" /\ commands[c].at = "unused"

ReceiveShutdown(c) ==
  /\ Received(c)
  /\ commands' = [commands EXCEPT ![c].kind = "shutdown", ![c].at = "waiting"]
  /\ waiters' = Append(waiters, c)
  /\ \/ RequestShutdown
     \/ shutdown # "no" /\ UNCHANGED <<shutdown, timers, run, jobs>>
  /\ UNCHANGED <<disposal, dialogs, forced, transport, notified, host>>

\* prompt is not awaited: it is answered while its handlers run.
ReceivePrompt(c) ==
  /\ Received(c)
  /\ commands' = [commands EXCEPT ![c] = [kind |-> "prompt", at |-> "handlers",
                                          replies |-> <<"success">>]]
  /\ UNCHANGED <<run, dialogs, sequenceVars>>

\* steer, follow_up, get_state, get_commands and what is malformed are
\* answered in the block that receives them; so is abort.
ReceivePlain(c) ==
  /\ Received(c)
  /\ \E outcome \in {"success", "error"} :
       commands' = [commands EXCEPT ![c] = [kind |-> "plain", at |-> "over",
                                            replies |-> <<outcome>>]]
  /\ UNCHANGED <<run, dialogs, sequenceVars>>

ReceiveAbort(c) ==
  /\ Received(c)
  /\ commands' = [commands EXCEPT ![c] = [kind |-> "plain", at |-> "over",
                                          replies |-> <<"success">>]]
  /\ run' = IF run = "off" THEN "off" ELSE "abort"
  /\ UNCHANGED <<dialogs, sequenceVars>>

\* set_model, set_thinking_level, compact and extension commands are awaited.
ReceiveAwaited(c) ==
  /\ Received(c)
  /\ commands' = [commands EXCEPT ![c].kind = "awaited", ![c].at = "waiting"]
  /\ UNCHANGED <<run, dialogs, sequenceVars>>

\* Mutant: the error branch lacks its break.
AwaitedAnswers_Fallthrough(c) ==
  /\ Idle
  /\ commands[c].kind = "awaited" /\ commands[c].at \in {"waiting", "ran"}
  /\ ~Awaits(c)
  /\ \E replies \in {<<"success">>, <<"error", "success">>} :
       commands' = [commands EXCEPT ![c].replies = replies, ![c].at = "over"]
  /\ UNCHANGED <<run, dialogs, sequenceVars>>

AwaitedAnswers(c) ==
  /\ Idle
  /\ commands[c].kind = "awaited" /\ commands[c].at \in {"waiting", "ran"}
  /\ ~Awaits(c)
  /\ \E outcome \in {"success", "error"} : Reply(c, outcome, "over")
  /\ UNCHANGED <<run, dialogs, sequenceVars>>

\* The prompt's handlers have answered: its run starts, or prompt() throws and the command gets an
\* error after its success.  A text that is a command's may start none and is done with; what that
\* command, a skill's prompt() included, fails at goes to the error listeners.
PromptStarts(c) ==
  /\ Idle
  /\ commands[c].at = "handlers"
  /\ ~Awaits(c)
  /\ \/ /\ run = "off"
        /\ run' = "on"
        /\ commands' = [commands EXCEPT ![c].at = "running"]
     \/ /\ Reply(c, "error", "over")
        /\ UNCHANGED run
     \/ /\ commands' = [commands EXCEPT ![c].at = "over"]
        /\ UNCHANGED run
  /\ UNCHANGED <<dialogs, sequenceVars>>

\* A skill's command, sent by its name, awaits a prompt() of its own.
SkillStarts(c) ==
  /\ Idle
  /\ commands[c].kind = "awaited" /\ commands[c].at = "waiting"
  /\ ~Awaits(c)
  /\ run = "off"
  /\ run' = "on"
  /\ commands' = [commands EXCEPT ![c].at = "running"]
  /\ UNCHANGED <<dialogs, sequenceVars>>

\* The run is over: prompt() returns, and so does a waitForIdle() that is
\* still waited for.
RunEnds ==
  /\ Idle
  /\ run # "off"
  /\ ~Awaits("run")
  /\ run' = "off"
  /\ commands' = [c \in Commands |->
                   IF commands[c].at # "running" THEN commands[c]
                   ELSE [commands[c] EXCEPT !.at = IF commands[c].kind = "awaited" THEN "ran" ELSE "over"]]
  /\ jobs' = IF shutdown = "idle" THEN <<Job("settled")>> ELSE <<>>
  /\ UNCHANGED <<dialogs, disposal, shutdown, forced, waiters, timers, transport, notified, host>>

-----------------------------------------------------------------------------
\* The extensions' dialogs, asked from a run, from session_shutdown handlers
\* or from the handlers a command runs.
CanAsk(asker) ==
  \/ asker = "run" /\ run # "off"
  \/ asker = "disposal" /\ disposal = "closing"
  \/ asker \in Commands /\ \/ commands[asker].at = "handlers"
                           \/ commands[asker].kind = "awaited" /\ commands[asker].at = "waiting"

Ask(d, asker) ==
  /\ Idle
  /\ dialogs[d].at = "unused"
  /\ CanAsk(asker)
  /\ dialogs' = [dialogs EXCEPT ![d] = [asker |-> asker, at |-> "pending"]]
  /\ UNCHANGED <<commands, run, sequenceVars>>

\* The client's answer; one to a request no longer pending is ignored.
Answer(d) ==
  /\ Idle
  /\ transport = "open"
  /\ dialogs[d].at = "pending"
  /\ dialogs' = [dialogs EXCEPT ![d].at = "answered"]
  /\ UNCHANGED <<commands, run, sequenceVars>>

-----------------------------------------------------------------------------
\* session.dispose(): its session_shutdown handlers have answered.  It fails
\* only if an error listener throws.
DisposeAnswers ==
  /\ Idle
  /\ disposal = "closing"
  /\ ~Awaits("disposal")
  /\ \/ disposal' = "done" /\ jobs' = <<Job("disposed")>>
     \/ disposal' = "failed" /\ jobs' = <<Job("failed")>>
  /\ UNCHANGED <<commands, run, dialogs, shutdown, forced, waiters, timers, transport, notified, host>>

\* Mutant: the safety net is disarmed before the session is disposed of.
Settled_Disarmed ==
  /\ Head(jobs).kind = "settled"
  /\ jobs' = Tail(jobs)
  /\ timers' = <<>>
  /\ shutdown' = "dispose"
  /\ disposal' = "closing"
  /\ UNCHANGED <<commands, run, dialogs, forced, waiters, transport, notified, host>>

\* The wait is over, by the run's end or the idle timer, which is cleared: dispose.
Settled ==
  /\ Head(jobs).kind = "settled"
  /\ jobs' = Tail(jobs)
  /\ timers' = IF timers # <<>> /\ Head(timers) = "safety" THEN <<"safety">> ELSE <<>>
  /\ shutdown' = "dispose"
  /\ disposal' = "closing"
  /\ UNCHANGED <<commands, run, dialogs, forced, waiters, transport, notified, host>>

\* Mutant: the commands are resumed, but not given their turn.
Disposed_NoTick ==
  /\ Head(jobs).kind = "disposed"
  /\ timers' = <<>>
  /\ jobs' = <<Job("finish")>> \o Resolved
  /\ waiters' = <<>>
  /\ UNCHANGED <<commands, run, disposal, dialogs, shutdown, forced, transport, notified, host>>

\* Mutant: the timers are left armed.
Disposed_Armed ==
  /\ Head(jobs).kind = "disposed"
  /\ jobs' = Resolved \o <<Job("tick")>>
  /\ waiters' = <<>>
  /\ UNCHANGED <<commands, run, disposal, dialogs, shutdown, forced, timers, transport, notified, host>>

\* Disposed: the timers are cleared, and the shutdown commands resumed before
\* the microtask that lets the sequence go on.
Disposed ==
  /\ Head(jobs).kind = "disposed"
  /\ timers' = <<>>
  /\ jobs' = Tail(jobs) \o Resolved \o <<Job("tick")>>
  /\ waiters' = <<>>
  /\ UNCHANGED <<commands, run, disposal, dialogs, shutdown, forced, transport, notified, host>>

Tick ==
  /\ Head(jobs).kind = "tick"
  /\ jobs' = Append(Tail(jobs), Job("finish"))
  /\ UNCHANGED <<commands, run, disposal, dialogs, shutdown, forced, waiters, timers, transport,
                 notified, host>>

Finish ==
  /\ Head(jobs).kind = "finish"
  /\ Stop
  /\ Notify
  /\ shutdown' = "over"
  /\ jobs' = Tail(jobs) \o HostJobs
  /\ UNCHANGED <<commands, run, disposal, forced, waiters, timers, host>>

\* The sequence has thrown: clean up anyway.
Failed ==
  /\ Head(jobs).kind = "failed"
  /\ timers' = <<>>
  /\ Stop
  /\ Notify
  /\ shutdown' = "over"
  /\ jobs' = Tail(jobs) \o HostJobs \o Resolved
  /\ waiters' = <<>>
  /\ UNCHANGED <<commands, run, disposal, forced, host>>

\* A shutdown command resumes and sends its response.
RespondToShutdown ==
  /\ Head(jobs).kind = "respond"
  /\ Reply(Head(jobs).of, "success", "over")
  /\ jobs' = Tail(jobs)
  /\ UNCHANGED <<run, disposal, dialogs, shutdown, forced, waiters, timers, transport, notified, host>>

\* runRpcMode: process.exit.
Exit ==
  /\ Head(jobs).kind = "exit"
  /\ host' = "exited"
  /\ UNCHANGED <<commands, run, disposal, dialogs, shutdown, forced, waiters, timers, jobs,
                 transport, notified>>

RunJob ==
  /\ host # "exited"
  /\ jobs # <<>>
  /\ Settled \/ Disposed \/ Tick \/ Finish \/ Failed \/ RespondToShutdown \/ Exit

\* The wait for the run has timed out: the sequence goes on without it.
IdleTimer ==
  /\ Idle
  /\ timers # <<>> /\ Head(timers) = "idle"
  /\ timers' = Tail(timers)
  /\ jobs' = <<Job("settled")>>
  /\ UNCHANGED <<commands, run, disposal, dialogs, shutdown, forced, waiters, transport, notified, host>>

\* Mutant: the timeout does not resume the shutdown commands.
SafetyTimer_Unresolved ==
  /\ Idle
  /\ timers # <<>> /\ Head(timers) = "safety"
  /\ timers' = Tail(timers)
  /\ forced' = (forced \/ shutdown # "over")
  /\ Stop
  /\ Notify
  /\ jobs' = HostJobs
  /\ UNCHANGED <<commands, run, disposal, shutdown, waiters, host>>

\* _onShutdownTimeout: clean up, whatever the sequence is waiting for.
SafetyTimer ==
  /\ Idle
  /\ timers # <<>> /\ Head(timers) = "safety"
  /\ timers' = Tail(timers)
  /\ forced' = (forced \/ shutdown # "over")
  /\ Stop
  /\ Notify
  /\ jobs' = HostJobs \o Resolved
  /\ waiters' = <<>>
  /\ UNCHANGED <<commands, run, disposal, shutdown, host>>

Askers == {"run", "disposal"} \cup Commands

Client ==
  \/ \E c \in Commands : \/ ReceiveShutdown(c) \/ ReceivePrompt(c) \/ ReceivePlain(c)
                         \/ ReceiveAbort(c) \/ ReceiveAwaited(c)
  \/ \E d \in Dialogs : Answer(d)

Session ==
  \/ \E c \in Commands : AwaitedAnswers(c) \/ PromptStarts(c) \/ SkillStarts(c)
  \/ RunEnds
  \/ DisposeAnswers
  \/ \E d \in Dialogs, asker \in Askers : Ask(d, asker)

Next == Client \/ Session \/ Signal \/ RunJob \/ IdleTimer \/ SafetyTimer

Spec == Init /\ [][Next]_vars

\* The event loop runs its jobs and its timers.  Nothing is assumed of the
\* client, of extensions or of the run: each may never answer.
FairSpec == Spec /\ WF_vars(RunJob) /\ WF_vars(IdleTimer) /\ WF_vars(SafetyTimer)

-----------------------------------------------------------------------------
(* Properties *)

\* The types of the variables.
TypeOK ==
  /\ commands \in [Commands -> [kind : {"none", "prompt", "plain", "awaited", "shutdown"},
                                at : {"unused", "handlers", "running", "waiting", "ran", "over"},
                                replies : {<<>>} \cup {<<o>> : o \in {"success", "error"}}
                                            \cup {<<"success", "error">>}]]
  /\ run \in {"off", "on", "abort"}
  /\ disposal \in {"no", "closing", "done", "failed"}
  /\ dialogs \in [Dialogs -> [asker : Askers \cup {"none"},
                              at : {"unused", "pending", "answered", "rejected"}]]
  /\ shutdown \in {"no", "idle", "dispose", "over"}
  /\ forced \in BOOLEAN
  /\ waiters \in Seq(Commands)
  /\ timers \in {<<>>, <<"idle">>, <<"safety">>, <<"safety", "idle">>}
  /\ jobs \in Seq([kind : {"settled", "disposed", "tick", "finish", "failed", "respond", "exit"},
                   of : Commands \cup {"none"}])
  /\ transport \in {"open", "closed"}
  /\ notified \in 0 .. 2
  /\ host \in Hosts \cup {"exited"}

\* "prompt ... returns success immediately", "All other commands are awaited
\* before responding": a command is answered once, when it is over, but a
\* prompt at once and, if it then fails, a second time with an error.
AnsweredOnce ==
  \A c \in Commands :
    CASE commands[c].kind = "prompt" ->
           commands[c].replies \in {<<"success">>} \cup
             (IF commands[c].at = "over" THEN {<<"success", "error">>} ELSE {})
      [] OTHER -> Len(commands[c].replies) = IF commands[c].at = "over" THEN 1 ELSE 0

\* When the sequence closes the transport itself, the session is disposed of,
\* every shutdown command has its response, and no timer is left to fire.
GracefulClose ==
  [][transport = "open" /\ transport' = "closed" /\ ~forced' /\ disposal # "failed" =>
       /\ disposal = "done"
       /\ \A c \in Commands : commands[c].kind = "shutdown" => commands[c].at = "over"
       /\ timers' = <<>>]_vars

\* onShutdown is called once, however many signals and shutdown commands ask
\* for it and whatever the sequence fails at, unless the safety net fires.
NotifiedOnce == ~forced => notified <= 1

\* A shutdown that was requested ends, whatever run, dialog or
\* session_shutdown handler never answers.
ShutdownCompletes == shutdown # "no" ~> notified > 0

\* While a shutdown is under way no extension is left waiting for good for a
\* dialog the client does not answer.
DialogsEnd ==
  \A d \in Dialogs :
    (shutdown \notin {"no", "over"} /\ ~forced /\ dialogs[d].at = "pending")
      ~> (dialogs[d].at # "pending" \/ host = "exited")

\* A shutdown command is answered in the end, even by a forced shutdown, as
\* long as the process lives.
ShutdownAnswered ==
  \A c \in Commands :
    (commands[c].kind = "shutdown" /\ commands[c].at = "waiting")
      ~> (commands[c].at = "over" \/ host = "exited")
=============================================================================
