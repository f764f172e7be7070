---------------------------- MODULE EventForwarding ----------------------------
(***************************************************************************)
(* How the agent's events reach the client: the session appends an ended   *)
(* message to the log, awaits that, and only then forwards the event; the  *)
(* RPC handler sends it on, followed by the state if that has changed.     *)
(*                                                                         *)
(* The agent tells its listeners of an event and does not wait for them,   *)
(* so that the appends of a slow store overlap what the agent does next.   *)
(***************************************************************************)
EXTENDS Integers, SequencesExt

CONSTANTS
  ModelNames,   \* models and levels a session can be set to
  LevelNames,
  MaxRuns,      \* bound: runs of the agent
  MaxMessages   \* bound: messages of the agent

VARIABLES
  agent,     \* the agent's state, as far as the client is told of it
  runs,      \* how many runs have begun
  ended,     \* how many messages have ended; messages are numbered as they end
  appending, \* the messages whose append is awaited
  log,       \* the messages that were appended
  lost,      \* those that could not be
  out,       \* the events sent to the client, apart from state_change
  view,      \* the state last sent to the client, or that of the handler's start
  lastState, \* _lastState of the handler
  compacting, \* how many compactions have begun that have not replaced the messages
  compacted, \* how many have replaced them and have not told of their end
  listeners  \* who is subscribed: the "session" to the agent, the "handler" to the session

messageVars == <<ended, appending, log, lost>>
compactionVars == <<compacting, compacted>>
clientVars == <<out, view, lastState>>

forwardingVars == <<agent, runs, messageVars, compactionVars, clientVars, listeners>>

InitForwarding ==
  /\ agent \in [streaming : {FALSE}, model : ModelNames, level : LevelNames,
                count : {0}, queued : {FALSE}]
  /\ runs = 0 /\ ended = 0 /\ compacting = 0 /\ compacted = 0
  /\ appending = {} /\ log = {} /\ lost = {}
  /\ out = <<>> /\ view = agent /\ lastState = agent
  /\ listeners = {"session"}

StartHandler ==
  /\ listeners' = listeners \cup {"handler"}
  /\ lastState' = agent /\ view' = agent
  /\ UNCHANGED <<agent, runs, messageVars, compactionVars, out>>

Event(type, m) == [type |-> type, message |-> m]

\* Mutant: the number of messages is not compared.
SnapshotChangedMutant(old, new) == \E f \in {"streaming", "level", "model"} : old[f] # new[f]

\* Whether messages are queued is sent, but a change of it alone is not.
SnapshotChanged(old, new) == \E f \in {"streaming", "level", "model", "count"} : old[f] # new[f]

\* The session's listeners are told of an event when the agent's state is `state'.
Forward(event, state) ==
  \/ /\ "handler" \in listeners
     /\ out' = Append(out, event)
     /\ IF SnapshotChanged(lastState, state) THEN lastState' = state /\ view' = state
                                             ELSE UNCHANGED <<lastState, view>>
  \/ "handler" \notin listeners /\ UNCHANGED clientVars

\* Mutant: the append is not awaited.
HandleAgentEventMutant(event, state) ==
  /\ appending' = IF event.type = "message_end" /\ "session" \in listeners
                  THEN appending \cup {event.message} ELSE appending
  /\ IF "session" \in listeners THEN Forward(event, state) ELSE UNCHANGED clientVars

\* An ended message goes to the store first.
HandleAgentEvent(event, state) ==
  \/ /\ "session" \in listeners /\ event.type = "message_end"
     /\ appending' = appending \cup {event.message}
     /\ UNCHANGED clientVars
  \/ /\ "session" \in listeners /\ event.type # "message_end"
     /\ Forward(event, state)
     /\ UNCHANGED appending
  \/ /\ "session" \notin listeners
     /\ UNCHANGED <<appending, clientVars>>

\* The store has answered: the event goes on in either case.
Appended(m) ==
  /\ m \in appending
  /\ appending' = appending \ {m}
  /\ \/ log' = log \cup {m} /\ UNCHANGED lost
     \/ lost' = lost \cup {m} /\ UNCHANGED log
  /\ Forward(Event("message_end", m), agent)
  /\ UNCHANGED <<agent, runs, ended, compactionVars, listeners>>

AgentStep(event, state) ==
  /\ agent' = state
  /\ HandleAgentEvent(event, state)
  /\ UNCHANGED <<log, lost, compactionVars, listeners>>

\* The agent changes its state before it tells of it.
AgentStarts ==
  /\ ~agent.streaming /\ runs < MaxRuns
  /\ runs' = runs + 1
  /\ AgentStep(Event("agent_start", 0), [agent EXCEPT !.streaming = TRUE])
  /\ UNCHANGED ended

\* A queued message is taken when one ends.
MessageEnds ==
  /\ agent.streaming /\ ended < MaxMessages
  /\ ended' = ended + 1
  /\ AgentStep(Event("message_end", ended + 1),
               [agent EXCEPT !.count = @ + 1, !.queued = FALSE])
  /\ UNCHANGED runs

AgentEnds ==
  /\ agent.streaming
  /\ AgentStep(Event("agent_end", 0), [agent EXCEPT !.streaming = FALSE])
  /\ UNCHANGED <<runs, ended>>

\* A command changes the model, the level or the queue: no event tells of it.  Extensions could do
\* the same, and add messages or cancel a compaction, but this mode loads none.
ChangeSilently(model, level, queued) ==
  /\ agent' = [agent EXCEPT !.model = model, !.level = level, !.queued = queued]
  /\ UNCHANGED <<runs, messageVars, compactionVars, clientVars, listeners>>

\* compact() is told of by the session itself, and then awaits the store.
CompactStarts ==
  /\ Forward(Event("compaction_start", 0), agent)
  /\ compacting' = compacting + 1
  /\ UNCHANGED <<agent, runs, messageVars, compacted, listeners>>

\* The store has recorded the compaction and given back what it keeps, the messages it was given
\* since: they replace the agent's, and no event tells of it.
CompactReplaces ==
  /\ compacting > 0
  /\ compacting' = compacting - 1 /\ compacted' = compacted + 1
  /\ \E kept \in SUBSET (log \cup appending) : agent' = [agent EXCEPT !.count = Cardinality(kept)]
  /\ UNCHANGED <<runs, messageVars, clientVars, listeners>>

\* The store fails: the command is answered with an error, and no event tells of the end.
CompactFails ==
  /\ compacting > 0 /\ compacting' = compacting - 1
  /\ UNCHANGED <<agent, runs, messageVars, compacted, clientVars, listeners>>

CompactEnds ==
  /\ compacted > 0 /\ compacted' = compacted - 1
  /\ Forward(Event("compaction_end", 0), agent)
  /\ UNCHANGED <<agent, runs, messageVars, compacting, listeners>>

\* dispose() unsubscribes the session and clears its listeners.
Dispose == listeners' = {} /\ UNCHANGED <<agent, runs, messageVars, compactionVars, clientVars>>

\* stop() of the handler.
StopHandler ==
  /\ listeners' = listeners \ {"handler"}
  /\ UNCHANGED <<agent, runs, messageVars, compactionVars, clientVars>>
=============================================================================
