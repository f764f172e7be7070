---------------------------- MODULE AgentSession ----------------------------
(***************************************************************************)
(* One conversation: createAgentSession, the AgentSession it constructs,   *)
(* the session manager's log, and the agent of pi-agent-core it drives.    *)
(*                                                                         *)
(* JavaScript runs one block at a time, so an action is the code between   *)
(* two awaits.  The log is the in-memory one: an append takes effect when  *)
(* it is called.  Everything an extension handler or the host may call is  *)
(* enabled whenever the session is up, the calls made from inside another  *)
(* call's handlers included; MaxCalls bounds how many there are.           *)
(***************************************************************************)
EXTENDS SessionLog

CONSTANTS Reasoning,    \* the models that support reasoning
          NoLevel,      \* options.thinkingLevel left undefined
          Tools,        \* tools extensions may register
          Prompts,      \* the calls of prompt() a behaviour can hold
          Compactions,  \* the calls of compact() a behaviour can hold
          MaxCalls      \* bound on the calls made by host, user and extensions

ASSUME ReasoningAssumption == Reasoning \subseteq Models
ASSUME NoLevelAssumption == NoLevel \notin Levels
ASSUME MaxCallsAssumption == MaxCalls \in Nat

VARIABLES
  entries,       \* the session manager's log
  session,       \* where createAgentSession is, or "up"; what it has resolved
  subscription,  \* of the session to its agent's events
  agent,         \* the agent's state but its messages, and its two queues
  messages,      \* the agent's messages
  run,           \* the agent's run: what isStreaming and the loop show of it
  registered,    \* _toolDefinitions
  active,        \* _activeToolNames
  prompts,       \* where each prompt() is, and the base prompt it captured
  compactions,   \* where each compact() is
  rebuilt,       \* contexts returned to compact() calls, not yet installed
  modelCalls,    \* setModel() calls awaiting hasAuth
  clock,         \* messages created so far
  calls          \* calls made so far

vars == <<entries, session, subscription, agent, messages, run, registered, active, prompts,
          compactions, rebuilt, modelCalls, clock, calls>>

convVars == <<run, prompts, compactions, rebuilt>>
toolVars == <<registered, active>>

NoMessage == [role |-> "none", n |-> 0]

\* The system prompt is told by the tools it lists and whether a
\* before_agent_start handler replaced or extended it.
SystemPrompt(tools, overridden) == [tools |-> tools, overridden |-> overridden]
BasePrompt == SystemPrompt(active, FALSE)

NewAgent(model, level) ==
  [model |-> model, level |-> level, prompt |-> SystemPrompt({}, FALSE),
   steering |-> <<>>, followUps |-> <<>>]

IdleRun == [phase |-> "idle", input |-> NoMessage, outcome |-> "none", aborted |-> FALSE]
NoSession == [phase |-> "down", model |-> NoModel, level |-> "off",
              ctx |-> [model |-> NoModel, level |-> "off"]]
NoPrompt == [at |-> "unused", base |-> {}]

Init ==
  /\ entries = <<>>
  /\ session = NoSession
  /\ subscription = "none"
  /\ agent = NewAgent(NoModel, "off")
  /\ messages = <<>>
  /\ run = IdleRun
  /\ registered = {}
  /\ active = {}
  /\ prompts = [p \in Prompts |-> NoPrompt]
  /\ compactions = [c \in Compactions |-> "unused"]
  /\ rebuilt = <<>>
  /\ modelCalls = {}
  /\ clock = 0
  /\ calls = 0

Up == session.phase = "up"
Streaming == run.phase # "idle"

\* A call by the host, the user or an extension.
Call == Up /\ calls < MaxCalls /\ calls' = calls + 1

NewMessage(role) == [role |-> role, n |-> clock + 1]

Persist(e) == entries' = Append(entries, e)

\* ------------------------------------------------------------------------
\* createAgentSession: an explicit option wins over the saved context; a
\* model the registry does not know or has no credentials for is dropped;
\* the level is clamped for a model that cannot reason.
Resolve(optModel, optLevel, usable) ==
  LET wanted == IF optModel # NoModel THEN optModel ELSE ContextModel(entries)
      model  == IF usable THEN wanted ELSE NoModel
      level  == IF optLevel # NoLevel THEN optLevel ELSE ContextLevel(entries)
  IN  [model |-> model,
       level |-> IF model \in Models \ Reasoning THEN "off" ELSE level]

CreateSession ==
  /\ session.phase = "down"
  /\ \E optModel \in Models \cup {NoModel}, optLevel \in Levels \cup {NoLevel}, usable \in BOOLEAN :
       LET resolved == Resolve(optModel, optLevel, usable)
       IN  session' = [phase |-> "resolved", model |-> resolved.model, level |-> resolved.level,
                       ctx |-> [model |-> ContextModel(entries), level |-> ContextLevel(entries)]]
  /\ UNCHANGED <<messages, entries, subscription, agent, toolVars, modelCalls, clock, calls, convVars>>

\* Mutant: only a session that had no model records the one it resolved.
ModelChanged_First == session.model # NoModel /\ session.ctx.model = NoModel
ModelChanged == session.model \notin {NoModel, session.ctx.model}

PersistModel ==
  /\ session.phase = "resolved"
  /\ session' = [session EXCEPT !.phase = "modelPersisted"]
  /\ IF ModelChanged
       THEN Persist(ModelChangeEntry(session.model, session.level))
       ELSE UNCHANGED entries
  /\ UNCHANGED <<messages, subscription, agent, toolVars, modelCalls, clock, calls, convVars>>

\* The constructor runs in the block that follows the last append.  What was
\* appended bears no message: the context's messages are those read at first.
PersistLevelAndConstruct ==
  /\ session.phase = "modelPersisted"
  /\ session' = [NoSession EXCEPT !.phase = "up"]
  /\ IF session.level # session.ctx.level
       THEN Persist(ThinkingChangeEntry(session.level))
       ELSE UNCHANGED entries
  /\ agent' = NewAgent(session.model, session.level)
  /\ messages' = ContextMessages(entries)
  /\ subscription' = "subscribed"
  /\ registered' = {}
  /\ active' = {}
  /\ UNCHANGED <<modelCalls, clock, calls, convVars>>

\* The session is lost at any point, between two appends of its creation
\* included; its log survives and a new session may be created over it.
Crash ==
  /\ session.phase # "down"
  /\ calls < MaxCalls
  /\ calls' = calls + 1
  /\ session' = NoSession
  /\ subscription' = "none"
  /\ agent' = NewAgent(NoModel, "off")
  /\ messages' = <<>>
  /\ run' = IdleRun
  /\ registered' = {}
  /\ active' = {}
  /\ prompts' = [p \in Prompts |-> IF prompts[p] = NoPrompt THEN NoPrompt
                                   ELSE [NoPrompt EXCEPT !.at = "over"]]
  /\ compactions' = [c \in Compactions |-> IF compactions[c] = "unused" THEN "unused" ELSE "over"]
  /\ rebuilt' = <<>>
  /\ modelCalls' = {}
  /\ UNCHANGED <<entries, clock>>

-----------------------------------------------------------------------------
\* before_agent_start is emitted once the base prompt is taken.
AwaitsHandlers == [at |-> "handlers", base |-> active]

\* prompt().  A text that begins with "/" goes to the command of that name first; that of a skill
\* calls prompt() in the same block.
PromptCall(p) ==
  /\ Call
  /\ prompts[p].at = "unused"
  /\ \E next \in {AwaitsHandlers, [NoPrompt EXCEPT !.at = "command"]} :
       prompts' = [prompts EXCEPT ![p] = next]
  /\ UNCHANGED <<messages, entries, session, subscription, agent, run, toolVars, compactions,
                 rebuilt, modelCalls, clock>>

\* An extension's command has been executed, and the call is over; or there is no command of the name.
CommandAnswers(p) ==
  /\ prompts[p].at = "command"
  /\ \E next \in {AwaitsHandlers, [NoPrompt EXCEPT !.at = "over"]} :
       prompts' = [prompts EXCEPT ![p] = next]
  /\ UNCHANGED <<messages, entries, session, subscription, agent, run, toolVars, compactions,
                 rebuilt, modelCalls, clock, calls>>

\* A command or a handler throws, and so does the error listener that is told of it: prompt() rejects.
PromptFails(p) ==
  /\ prompts[p].at \in {"command", "handlers"}
  /\ prompts' = [prompts EXCEPT ![p].at = "over"]
  /\ UNCHANGED <<messages, entries, session, subscription, agent, run, toolVars, compactions,
                 rebuilt, modelCalls, clock, calls>>

\* Mutant: a prompt waits for a model to be set.
HandlersAnswered_WithModel(p) == prompts[p].at = "handlers" /\ agent.model # NoModel
HandlersAnswered(p) == prompts[p].at = "handlers"

\* Its handlers have answered: the prompt is set, their message appended, and
\* the agent started in one block.  agent.prompt throws while a run is on or
\* without a model; what was set and appended stays.
PromptSend(p) ==
  /\ HandlersAnswered(p)
  /\ \E overridden, inject \in BOOLEAN :
       LET custom   == NewMessage("custom")
           accepted == ~Streaming /\ agent.model # NoModel
           used     == IF inject THEN 1 ELSE 0
       IN  /\ agent' = [agent EXCEPT !.prompt = SystemPrompt(prompts[p].base, overridden)]
           /\ messages' = IF inject THEN Append(messages, custom) ELSE messages
           /\ IF accepted
                THEN /\ run' = [IdleRun EXCEPT !.phase = "started",
                                               !.input = [role |-> "user", n |-> clock + used + 1]]
                     /\ clock' = clock + used + 1
                ELSE /\ clock' = clock + used
                     /\ UNCHANGED run
           /\ prompts' = [prompts EXCEPT ![p].at = IF accepted THEN "running" ELSE "over"]
  /\ UNCHANGED <<entries, session, subscription, toolVars, compactions, rebuilt, modelCalls, calls>>

-----------------------------------------------------------------------------
\* The agent's loop (pi-agent-core), as far as the session observes it.

\* message_end: the agent takes the message into its state, then calls its
\* listeners; _handleAgentEvent's append takes effect in the same block.
MessageEnd(m, queues) ==
  /\ agent' = queues
  /\ messages' = Append(messages, m)
  /\ IF subscription \in {"subscribed", "closing"}
       THEN Persist(MessageEntry(m))
       ELSE UNCHANGED entries

AgentStep == UNCHANGED <<session, subscription, toolVars, compactions, rebuilt, modelCalls>>

RunInput ==
  /\ run.phase = "started"
  /\ MessageEnd(run.input, agent)
  /\ run' = [run EXCEPT !.phase = "tools"]
  /\ UNCHANGED <<prompts, clock, calls>>
  /\ AgentStep

\* A reply ends with tool calls (another turn follows; each such turn counts
\* against MaxCalls), stops, or fails; an aborted run's reply says so.
RunReply ==
  /\ run.phase = "turn"
  /\ MessageEnd(NewMessage("reply"), agent)
  /\ clock' = clock + 1
  /\ \/ /\ ~run.aborted
        /\ calls < MaxCalls
        /\ calls' = calls + 1
        /\ run' = [run EXCEPT !.phase = "tools"]
     \/ /\ ~run.aborted
        /\ run' = [run EXCEPT !.phase = "stopping"]
        /\ UNCHANGED calls
     \/ /\ run' = [run EXCEPT !.phase = "ending",
                              !.outcome = IF run.aborted THEN "aborted" ELSE "error"]
        /\ UNCHANGED calls
  /\ UNCHANGED prompts
  /\ AgentStep

\* After a turn the loop takes one steering message, and with none and
\* nothing left to do one follow-up.
RunTakesSteering ==
  /\ run.phase \in {"tools", "stopping"}
  /\ agent.steering # <<>>
  /\ MessageEnd(Head(agent.steering), [agent EXCEPT !.steering = Tail(@)])
  /\ run' = [run EXCEPT !.phase = "turn"]
  /\ UNCHANGED <<prompts, clock, calls>>
  /\ AgentStep

RunContinues ==
  /\ run.phase = "tools"
  /\ agent.steering = <<>>
  /\ run' = [run EXCEPT !.phase = "turn"]
  /\ UNCHANGED <<messages, entries, agent, prompts, clock, calls>>
  /\ AgentStep

RunTakesFollowUp ==
  /\ run.phase = "stopping"
  /\ agent.steering = <<>>
  /\ agent.followUps # <<>>
  /\ MessageEnd(Head(agent.followUps), [agent EXCEPT !.followUps = Tail(@)])
  /\ run' = [run EXCEPT !.phase = "turn"]
  /\ UNCHANGED <<prompts, clock, calls>>
  /\ AgentStep

RunStops ==
  /\ run.phase = "stopping"
  /\ agent.steering = <<>>
  /\ agent.followUps = <<>>
  /\ run' = [run EXCEPT !.phase = "ending", !.outcome = "stop"]
  /\ UNCHANGED <<messages, entries, agent, prompts, clock, calls>>
  /\ AgentStep

\* agent_end is emitted, isStreaming falls, and the prompt() call returns.
RunEnds ==
  /\ run.phase = "ending"
  /\ run' = IdleRun
  /\ prompts' = [p \in Prompts |-> IF prompts[p].at = "running"
                                   THEN [NoPrompt EXCEPT !.at = "over"] ELSE prompts[p]]
  /\ UNCHANGED <<messages, entries, agent, clock, calls>>
  /\ AgentStep

AgentLoop == RunInput \/ RunReply \/ RunTakesSteering \/ RunContinues \/ RunTakesFollowUp
             \/ RunStops \/ RunEnds

Abort ==
  /\ Call
  /\ Streaming
  /\ run' = [run EXCEPT !.aborted = TRUE]
  /\ UNCHANGED <<messages, entries, session, subscription, agent, toolVars, prompts, compactions,
                 rebuilt, modelCalls, clock>>

-----------------------------------------------------------------------------
\* Messages injected by extensions and by the host's steer and followUp.
\* sendMessage persists at once, then queues the message or, with neither
\* deliverAs nor triggerTurn (or with "nextTurn"), appends it.
SendMessage(queue) ==
  /\ Call
  /\ LET m == NewMessage("custom")
     IN  /\ Persist(CustomMessageEntry(m))
         /\ IF queue \in {"steering", "followUps"}
              THEN agent' = [agent EXCEPT ![queue] = Append(@, m)] /\ UNCHANGED messages
              ELSE messages' = Append(messages, m) /\ UNCHANGED agent
  /\ clock' = clock + 1
  /\ UNCHANGED <<session, subscription, toolVars, modelCalls, convVars>>

\* Mutant: the message is persisted when queued, as sendMessage does.
QueueUserMessage_Persisted(queue) ==
  /\ Call
  /\ agent' = [agent EXCEPT ![queue] = Append(@, NewMessage("user"))]
  /\ Persist(MessageEntry(NewMessage("user")))
  /\ clock' = clock + 1
  /\ UNCHANGED <<messages, session, subscription, toolVars, modelCalls, convVars>>

\* sendUserMessage, steer and followUp only queue.
QueueUserMessage(queue) ==
  /\ Call
  /\ agent' = [agent EXCEPT ![queue] = Append(@, NewMessage("user"))]
  /\ clock' = clock + 1
  /\ UNCHANGED <<messages, entries, session, subscription, toolVars, modelCalls, convVars>>

\* appendEntry, and setLabel with a label.
AppendBareEntry(type) ==
  /\ Call
  /\ Persist(BareEntry(type))
  /\ UNCHANGED <<messages, session, subscription, agent, toolVars, modelCalls, clock, convVars>>

-----------------------------------------------------------------------------
\* setModel asks for credentials, then sets and records in one block; the
\* level recorded is the agent's at that time, and it is not clamped.
SetModelCall(m) ==
  /\ Call
  /\ m \notin modelCalls
  /\ modelCalls' = modelCalls \cup {m}
  /\ UNCHANGED <<messages, entries, session, subscription, agent, toolVars, clock, convVars>>

\* Mutant: the level is left to its default.
RecordModel_NoLevel(m) == Persist(ModelChangeEntry(m, "off"))
RecordModel(m) == Persist(ModelChangeEntry(m, agent.level))

SetModelAnswer(m) ==
  /\ m \in modelCalls
  /\ modelCalls' = modelCalls \ {m}
  /\ \/ /\ agent' = [agent EXCEPT !.model = m]
        /\ RecordModel(m)
     \/ UNCHANGED <<agent, entries>>
  /\ UNCHANGED <<messages, session, subscription, toolVars, clock, calls, convVars>>

SetThinkingLevel(l) ==
  /\ Call
  /\ agent' = [agent EXCEPT !.level = l]
  /\ Persist(ThinkingChangeEntry(l))
  /\ UNCHANGED <<messages, session, subscription, toolVars, modelCalls, clock, convVars>>

\* Either way _applyToolChanges resets the agent's prompt to the base.
ApplyTools(tools) ==
  /\ active' = tools
  /\ agent' = [agent EXCEPT !.prompt = SystemPrompt(tools, FALSE)]

RegisterTool(t) ==
  /\ Call
  /\ registered' = registered \cup {t}
  /\ ApplyTools(active \cup {t})
  /\ UNCHANGED <<messages, entries, session, subscription, modelCalls, clock, convVars>>

\* Mutant: names that are not registered are kept.
SetActiveTools_Unfiltered(names) ==
  /\ Call
  /\ ApplyTools(names)
  /\ UNCHANGED <<messages, entries, session, subscription, registered, modelCalls, clock, convVars>>

SetActiveTools(names) ==
  /\ Call
  /\ ApplyTools(names \cap registered)
  /\ UNCHANGED <<messages, entries, session, subscription, registered, modelCalls, clock, convVars>>

-----------------------------------------------------------------------------
\* compact()
CompactCall(c) ==
  /\ Call
  /\ compactions[c] = "unused"
  /\ compactions' = [compactions EXCEPT ![c] = "handlers"]
  /\ UNCHANGED <<messages, entries, session, subscription, agent, run, toolVars, prompts, rebuilt,
                 modelCalls, clock>>

\* A session_before_compact handler cancels, or gives the summary and the
\* first entry to keep; by default there is neither.  An error listener that throws ends the call too.
CompactCancel(c) ==
  /\ compactions[c] = "handlers"
  /\ compactions' = [compactions EXCEPT ![c] = "over"]
  /\ UNCHANGED <<messages, entries, session, subscription, agent, run, toolVars, prompts, rebuilt,
                 modelCalls, clock, calls>>

CompactRecord(c) ==
  /\ compactions[c] = "handlers"
  /\ \E summary \in BOOLEAN, firstKept \in 0 .. Len(entries) + 1 :
       Persist(CompactionEntry(summary, firstKept))
  /\ compactions' = [compactions EXCEPT ![c] = "recorded"]
  /\ UNCHANGED <<messages, session, subscription, agent, run, toolVars, prompts, rebuilt,
                 modelCalls, clock, calls>>

\* buildSessionContext answers at once, but its await resumes a tick later.
CompactRebuild(c) ==
  /\ compactions[c] = "recorded"
  /\ compactions' = [compactions EXCEPT ![c] = "rebuilt"]
  /\ rebuilt' = Append(rebuilt, [call |-> c, msgs |-> ContextMessages(entries)])
  /\ UNCHANGED <<messages, entries, session, subscription, agent, run, toolVars, prompts,
                 modelCalls, clock, calls>>

\* Mutant: the latest context is installed first.
CompactInstall_Reversed ==
  /\ rebuilt # <<>>
  /\ messages' = Last(rebuilt).msgs
  /\ compactions' = [compactions EXCEPT ![Last(rebuilt).call] = "over"]
  /\ rebuilt' = Front(rebuilt)
  /\ UNCHANGED <<entries, session, subscription, agent, run, toolVars, prompts, modelCalls, clock, calls>>

\* Ticks resume in the order the contexts were returned.
CompactInstall ==
  /\ rebuilt # <<>>
  /\ messages' = Head(rebuilt).msgs
  /\ compactions' = [compactions EXCEPT ![Head(rebuilt).call] = "over"]
  /\ rebuilt' = Tail(rebuilt)
  /\ UNCHANGED <<entries, session, subscription, agent, run, toolVars, prompts, modelCalls, clock, calls>>

-----------------------------------------------------------------------------
\* dispose(), which an extension's shutdown() calls: the session_shutdown
\* handlers are awaited, then the session leaves its agent, running or not.
DisposeCall ==
  /\ Call
  /\ subscription = "subscribed"
  /\ subscription' = "closing"
  /\ UNCHANGED <<messages, entries, session, agent, toolVars, modelCalls, clock, convVars>>

DisposeFinish ==
  /\ subscription = "closing"
  /\ subscription' = "none"
  /\ UNCHANGED <<messages, entries, session, agent, toolVars, modelCalls, clock, calls, convVars>>

\* An error listener throws: dispose() rejects, and the session stays with its agent.
DisposeFails ==
  /\ subscription = "closing"
  /\ subscription' = "subscribed"
  /\ UNCHANGED <<messages, entries, session, agent, toolVars, modelCalls, clock, calls, convVars>>

\* The calls in flight, each resumed when what it awaits has answered.
Resumptions ==
  \/ \E p \in Prompts : CommandAnswers(p) \/ PromptFails(p) \/ PromptSend(p)
  \/ \E c \in Compactions : CompactCancel(c) \/ CompactRecord(c) \/ CompactRebuild(c)
  \/ CompactInstall
  \/ \E m \in Models : SetModelAnswer(m)
  \/ DisposeFinish \/ DisposeFails

Calls ==
  \/ \E p \in Prompts : PromptCall(p)
  \/ Abort
  \/ \E queue \in {"none", "steering", "followUps"} : SendMessage(queue)
  \/ \E queue \in {"steering", "followUps"} : QueueUserMessage(queue)
  \/ \E type \in {"customEntry", "label"} : AppendBareEntry(type)
  \/ \E m \in Models : SetModelCall(m)
  \/ \E l \in Levels : SetThinkingLevel(l)
  \/ \E t \in Tools : RegisterTool(t)
  \/ \E names \in SUBSET Tools : SetActiveTools(names)
  \/ \E c \in Compactions : CompactCall(c)
  \/ DisposeCall

Creation == CreateSession \/ PersistModel \/ PersistLevelAndConstruct

Next == Creation \/ Crash \/ Calls \/ Resumptions \/ AgentLoop

Spec == Init /\ [][Next]_vars

-----------------------------------------------------------------------------
(* Properties *)

Roles == {"user", "reply"}
Dialogue(msgs) == SelectSeq(msgs, LAMBDA m : m.role \in Roles)

\* No compact() is between recording its entry and installing the context.
NoCompactionPending == \A c \in Compactions : compactions[c] \notin {"recorded", "rebuilt"}

\* Every variable but the two that hold whole message lists.
StateTypeOK ==
  /\ entries \in Seq(Entry)
  /\ session \in [phase : {"down", "resolved", "modelPersisted", "up"},
                  model : Models \cup {NoModel}, level : Levels,
                  ctx : [model : Models \cup {NoModel}, level : Levels]]
  /\ subscription \in {"none", "subscribed", "closing"}
  /\ agent \in [model : Models \cup {NoModel}, level : Levels,
                prompt : [tools : SUBSET Tools, overridden : BOOLEAN],
                steering : Seq(Message), followUps : Seq(Message)]
  /\ run \in [phase : {"idle", "started", "tools", "turn", "stopping", "ending"},
              input : Message \cup {NoMessage},
              outcome : {"none", "stop", "aborted", "error"}, aborted : BOOLEAN]
  /\ registered \in SUBSET Tools
  /\ active \in SUBSET registered
  /\ prompts \in [Prompts -> [at : {"unused", "command", "handlers", "running", "over"}, base : SUBSET Tools]]
  /\ compactions \in [Compactions -> {"unused", "handlers", "recorded", "rebuilt", "over"}]
  /\ modelCalls \in SUBSET Models
  /\ clock \in Nat
  /\ calls \in 0 .. MaxCalls

MessagesTypeOK ==
  /\ messages \in Seq(Message)
  /\ rebuilt \in Seq([call : Compactions, msgs : Seq(Message)])

\* The types of the variables.
TypeOK == StateTypeOK /\ MessagesTypeOK

\* A session created over this log gets the agent's model and level back: the
\* log's latest metadata and the agent agree through every order of setModel,
\* setThinkingLevel, compaction and an interrupted creation.  A log may name a
\* model the agent lacks (its credentials are gone), never the reverse.
MetadataSync ==
  Up => /\ ContextLevel(entries) = agent.level
        /\ agent.model # NoModel => ContextModel(entries) = agent.model

\* What createAgentSession relies on between its awaits: the context it read
\* is still the log's, and what is left to persist is only what differs.  No
\* setModel() call of a lost session answers into a later one.
CreationSync ==
  /\ session.phase = "resolved" =>
       session.ctx = [model |-> ContextModel(entries), level |-> ContextLevel(entries)]
  /\ session.phase = "modelPersisted" =>
       /\ session.model # NoModel => ContextModel(entries) = session.model
       /\ session.level = session.ctx.level => ContextLevel(entries) = session.level
  /\ ~Up => modelCalls = {}

\* No user message or reply is logged twice: not by a queue that delivers it
\* again, a restored session, or a compaction that keeps it.  A custom message
\* is logged once when it is sent and at most once more, when it is delivered.
DialogueLoggedOnce ==
  \A i, j \in DOMAIN entries :
    /\ BearsMessage(entries[i]) /\ BearsMessage(entries[j])
    /\ entries[i].message = entries[j].message
    /\ entries[i].type = entries[j].type \/ entries[i].message.role \in Roles
    => i = j

\* Each message of the dialogue that held has is in ctx, in the same order.
InOrderIn(held, ctx) ==
  \A i \in DOMAIN held : held[i].role \in Roles =>
    /\ \E k \in DOMAIN ctx : ctx[k] = held[i]
    /\ \A j \in DOMAIN held, k, l \in DOMAIN ctx :
         i < j /\ held[j].role \in Roles /\ ctx[k] = held[i] /\ ctx[l] = held[j] => k < l

\* What the agent holds of the dialogue, the log's context holds in the same
\* order: a restored session never misses a message the agent answered from.
\* Not while a compaction is pending, nor after the session left its agent.
DialogueFromLog ==
  Up /\ subscription # "none" /\ NoCompactionPending => InOrderIn(messages, ContextMessages(entries))

\* The scheduling the liveness properties need: the event loop resumes what an
\* await has answered, handlers and the provider answer, the loop goes on.
\* Nothing obliges the host, the user or an extension to call, or a crash.
Fairness ==
  /\ WF_vars(Creation)
  /\ WF_vars(AgentLoop)
  /\ \A p \in Prompts : WF_vars(CommandAnswers(p)) /\ WF_vars(PromptSend(p))
  /\ \A c \in Compactions : WF_vars(CompactRecord(c)) /\ WF_vars(CompactRebuild(c))
  /\ WF_vars(CompactInstall)
  /\ \A m \in Models : WF_vars(SetModelAnswer(m))
  /\ WF_vars(DisposeFinish)

FairSpec == Spec /\ Fairness

\* Every prompt() call ends, accepted or refused, a command's or not, while
\* another one's run is on or without a model: a run does not wait for the
\* queues it leaves, nor a call for another, a compaction or a dispose.
PromptSettles == \A p \in Prompts : prompts[p].at \in {"command", "handlers"} ~> prompts[p].at = "over"

\* "Rebuild agent messages from session context to sync state.": once no
\* compact() is pending, agent and context hold the same dialogue.
CompactionSyncsDialogue ==
  Up /\ subscription # "none" /\ NoCompactionPending =>
    Dialogue(messages) = Dialogue(ContextMessages(entries))
=============================================================================
