--------------------------- MODULE RpcProcessProofs ---------------------------
(***************************************************************************)
(* Proofs about RpcProcess, for any start, any commands and any events: a  *)
(* client is told of every message once, when its append was over, and     *)
(* knows the agent's state with every event; for any bytes on stdin and    *)
(* any chunks, the handler is given their lines; and, for any              *)
(* configuration, what is built and loaded is what it says.                *)
(***************************************************************************)
EXTENDS RpcProcess, NatLemmas, SequenceTheorems, TLAPS

State == [streaming : BOOLEAN, model : ModelNames, level : LevelNames, count : Nat, queued : BOOLEAN]

Events ==
  [type : {"agent_start", "agent_end", "message_end", "compaction_start", "compaction_end"},
   message : Nat]

ForwardingTypeOK ==
  /\ agent \in State /\ lastState \in State /\ ended \in Nat
  /\ out \in Seq(Events)

\* What the client was last sent is what the handler compares with.
ViewIsLast == view = lastState

\* A message has a number up to that of the messages that have ended, and its append is awaited or
\* over.
Numbered ==
  /\ appending \cup log \cup lost \subseteq 1 .. ended
  /\ appending \cap (log \cup lost) = {}

\* The store has not been given anything before the session is served.
NothingYet == at \notin {"serving", "exited"} => log = {} /\ lost = {} /\ out = <<>>

ForwardInv == ForwardingTypeOK /\ ViewIsLast /\ Numbered /\ ClientSeesLog

Inv == ForwardInv /\ NothingYet

\* With an event just sent the client knows the agent's state.
Knows == out' # out => \A f \in {"streaming", "model", "level", "count"} : view'[f] = agent'[f]

LEMMA InitInv == Init => Inv
<1> SUFFICES ASSUME Init PROVE Inv
  OBVIOUS
<1>1. agent \in State /\ lastState = agent /\ view = agent
  <2>1. /\ agent \in [streaming : {FALSE}, model : ModelNames, level : LevelNames,
                      count : {0}, queued : {FALSE}]
        /\ lastState = agent /\ view = agent
    BY DEF Init, InitForwarding
  <2>2. FALSE \in BOOLEAN /\ 0 \in Nat
    OBVIOUS
  <2>3. agent \in State
    BY <2>1, <2>2, Zenon DEF State
  <2> QED
    BY <2>1, <2>3
<1>2. out = <<>> /\ appending = {} /\ log = {} /\ lost = {} /\ ended = 0
  BY DEF Init, InitForwarding
<1>3. EndsSent = {}
  BY <1>2 DEF EndsSent
<1>4. "handler" \notin listeners
  BY DEF Init, InitForwarding
<1> QED
  BY <1>1, <1>2, <1>3, <1>4
     DEF Inv, ForwardInv, ForwardingTypeOK, ViewIsLast, Numbered, NothingYet, ClientSeesLog

-----------------------------------------------------------------------------
(* The agent's events *)

\* What a listener's call makes of the client's view.
LEMMA ForwardKnows ==
  ASSUME ForwardInv, NEW event \in Events, NEW state \in State, Forward(event, state)
  PROVE  /\ lastState' \in State /\ ViewIsLast'
         /\ \/ "handler" \in listeners /\ out' = Append(out, event)
            \/ "handler" \notin listeners /\ out' = out
         /\ out' \in Seq(Events)
         /\ out' # out => \A f \in {"streaming", "model", "level", "count"} : view'[f] = state[f]
<1>1. lastState \in State /\ view = lastState /\ out \in Seq(Events)
  BY DEF ForwardInv, ForwardingTypeOK, ViewIsLast
<1>2. CASE "handler" \in listeners
  <2>1. out' = Append(out, event)
    BY <1>2 DEF Forward
  <2>2. CASE SnapshotChanged(lastState, state)
    <3>1. lastState' = state /\ view' = state
      BY <1>2, <2>2 DEF Forward
    <3> QED
      BY <1>1, <1>2, <2>1, <3>1 DEF ViewIsLast
  <2>3. CASE ~SnapshotChanged(lastState, state)
    <3>1. lastState' = lastState /\ view' = view
      BY <1>2, <2>3 DEF Forward
    <3>2. \A f \in {"streaming", "model", "level", "count"} : lastState[f] = state[f]
      BY <2>3 DEF SnapshotChanged
    <3> QED
      BY <1>1, <1>2, <2>1, <3>1, <3>2 DEF ViewIsLast
  <2> QED
    BY <2>2, <2>3
<1>3. CASE "handler" \notin listeners
  BY <1>1, <1>3 DEF Forward, ViewIsLast, clientVars
<1> QED
  BY <1>2, <1>3

\* The places of the ends of messages after an event was sent.
LEMMA EndsAfter ==
  ASSUME out \in Seq(Events), NEW event \in Events, out' = Append(out, event)
  PROVE  /\ EndsSent' = IF event.type = "message_end" THEN EndsSent \cup {Len(out) + 1} ELSE EndsSent
         /\ \A n \in EndsSent : out'[n] = out[n] /\ n # Len(out) + 1
         /\ out'[Len(out) + 1] = event
<1>1. \A n \in 1 .. Len(out) : out'[n] = out[n]
  OBVIOUS
<1>2. out'[Len(out) + 1] = event /\ DOMAIN out' = 1 .. (Len(out) + 1) /\ DOMAIN out = 1 .. Len(out)
  OBVIOUS
<1>3. DOMAIN out' = DOMAIN out \cup {Len(out) + 1} /\ Len(out) + 1 \notin DOMAIN out
  BY <1>2
<1>4. \A n \in DOMAIN out : out'[n] = out[n]
  BY <1>1, <1>2
<1> QED
  BY <1>2, <1>3, <1>4 DEF EndsSent

\* An event that is not the end of a message leaves the log and what the client knows of it.
LEMMA OtherEvent ==
  ASSUME ForwardInv, NEW event \in Events, event.type # "message_end",
         NEW state \in State, AgentStep(event, state), UNCHANGED ended
  PROVE  ForwardInv' /\ Knows
<1>1. agent' = state /\ UNCHANGED <<log, lost, listeners>>
  BY DEF AgentStep
<1>2. CASE "session" \in listeners
  <2>1. Forward(event, state) /\ UNCHANGED appending
    BY <1>2 DEF AgentStep, HandleAgentEvent
  <2>2. /\ lastState' \in State /\ ViewIsLast' /\ out' \in Seq(Events)
        /\ out' = Append(out, event) \/ out' = out
        /\ out' # out => \A f \in {"streaming", "model", "level", "count"} : view'[f] = state[f]
    BY <2>1, ForwardKnows
  <2>3. EndsSent' = EndsSent /\ \A n \in EndsSent : out'[n] = out[n]
    <3>1. CASE out' = out
      BY <3>1 DEF EndsSent
    <3>2. CASE out' = Append(out, event)
      BY <3>2, EndsAfter DEF ForwardInv, ForwardingTypeOK
    <3> QED
      BY <2>2, <3>1, <3>2
  <2>4. ClientSeesLog'
    BY <1>1, <2>3 DEF ForwardInv, ClientSeesLog
  <2>5. Numbered'
    BY <1>1, <2>1 DEF ForwardInv, Numbered
  <2> QED
    BY <1>1, <2>2, <2>4, <2>5 DEF ForwardInv, ForwardingTypeOK, Knows
<1>3. CASE "session" \notin listeners
  <2>1. UNCHANGED <<appending, out, lastState, view>>
    BY <1>3 DEF AgentStep, HandleAgentEvent, clientVars
  <2> QED
    BY <1>1, <2>1 DEF ForwardInv, ForwardingTypeOK, ViewIsLast, Numbered, ClientSeesLog, EndsSent, Knows
<1> QED
  BY <1>2, <1>3

LEMMA StartsInv == ForwardInv /\ AgentStarts => ForwardInv' /\ Knows
<1> SUFFICES ASSUME ForwardInv, AgentStarts PROVE ForwardInv' /\ Knows
  OBVIOUS
<1> DEFINE event == Event("agent_start", 0)
           state == [agent EXCEPT !.streaming = TRUE]
<1>1. agent \in State
  BY DEF ForwardInv, ForwardingTypeOK
<1>2. event \in Events /\ event.type # "message_end"
  BY DEF Event, Events
<1>3. state \in State
  BY <1>1 DEF State
<1>4. AgentStep(event, state) /\ UNCHANGED ended
  BY DEF AgentStarts
<1> HIDE DEF event, state
<1> QED
  BY <1>2, <1>3, <1>4, OtherEvent

LEMMA EndsInv == ForwardInv /\ AgentEnds => ForwardInv' /\ Knows
<1> SUFFICES ASSUME ForwardInv, AgentEnds PROVE ForwardInv' /\ Knows
  OBVIOUS
<1> DEFINE event == Event("agent_end", 0)
           state == [agent EXCEPT !.streaming = FALSE]
<1>1. agent \in State
  BY DEF ForwardInv, ForwardingTypeOK
<1>2. event \in Events /\ event.type # "message_end"
  BY DEF Event, Events
<1>3. state \in State
  BY <1>1 DEF State
<1>4. AgentStep(event, state) /\ UNCHANGED ended
  BY DEF AgentEnds
<1> HIDE DEF event, state
<1> QED
  BY <1>2, <1>3, <1>4, OtherEvent

\* A message that ends is a new one, whose append is awaited before anyone is told.
LEMMA MessageEndsInv == ForwardInv /\ MessageEnds => ForwardInv' /\ Knows
<1> SUFFICES ASSUME ForwardInv, MessageEnds PROVE ForwardInv' /\ Knows
  OBVIOUS
<1> DEFINE event == Event("message_end", ended + 1)
           state == [agent EXCEPT !.count = @ + 1, !.queued = FALSE]
<1>1. agent \in State /\ ended \in Nat
  BY DEF ForwardInv, ForwardingTypeOK
<1>2. event.type = "message_end" /\ event.message = ended + 1
  BY DEF Event
<1>3. state \in State
  <2>1. agent.count \in Nat /\ agent.count + 1 \in Nat
    BY <1>1 DEF State
  <2> DEFINE next == agent.count + 1
  <2> HIDE DEF next
  <2>2. next \in Nat => [agent EXCEPT !.count = next, !.queued = FALSE] \in State
    BY <1>1 DEF State
  <2> QED
    BY <2>1, <2>2 DEF next
<1>4. AgentStep(event, state) /\ ended' = ended + 1
  BY DEF MessageEnds
<1> HIDE DEF event, state
<1>5. agent' = state /\ UNCHANGED <<log, lost, listeners, out, lastState, view>>
  BY <1>2, <1>4 DEF AgentStep, HandleAgentEvent, clientVars
<1>6. appending' \subseteq appending \cup {ended + 1}
  BY <1>2, <1>4 DEF AgentStep, HandleAgentEvent
<1>7. Numbered'
  <2>1. ended + 1 \notin 1 .. ended
    BY <1>1
  <2>2. 1 .. ended \cup {ended + 1} = 1 .. (ended + 1)
    BY <1>1
  <2> QED
    BY <1>4, <1>5, <1>6, <2>1, <2>2 DEF ForwardInv, Numbered
<1> QED
  BY <1>1, <1>3, <1>4, <1>5, <1>7 DEF ForwardInv, ForwardingTypeOK, ViewIsLast, ClientSeesLog, EndsSent, Knows

\* The append of a message is over: the client was not told of it before.
LEMMA AppendedInv ==
  ASSUME ForwardInv, NEW m \in appending, Appended(m) PROVE ForwardInv' /\ Knows
<1> DEFINE event == Event("message_end", m)
<1>1. /\ agent \in State /\ agent' = agent /\ listeners' = listeners
      /\ ended \in Nat /\ ended' = ended
      /\ appending' = appending \ {m}
      /\ log' \cup lost' = (log \cup lost) \cup {m}
  BY DEF ForwardInv, ForwardingTypeOK, Appended
<1>2. m \in 1 .. ended /\ m \notin log \cup lost
  BY DEF ForwardInv, Numbered
<1>3. event \in Events /\ event.type = "message_end" /\ event.message = m
  BY <1>1, <1>2 DEF Event, Events, State
<1>4. Forward(event, agent)
  BY DEF Appended
<1> HIDE DEF event
<1>5. /\ lastState' \in State /\ ViewIsLast' /\ out' \in Seq(Events)
      /\ \/ "handler" \in listeners /\ out' = Append(out, event)
         \/ "handler" \notin listeners /\ out' = out
      /\ out' # out => \A f \in {"streaming", "model", "level", "count"} : view'[f] = agent[f]
  BY <1>1, <1>3, <1>4, ForwardKnows
<1>6. Numbered'
  BY <1>1, <1>2 DEF ForwardInv, Numbered
<1>7. ClientSeesLog'
  <2>1. CASE out' = out /\ "handler" \notin listeners
    BY <1>1, <2>1 DEF ForwardInv, ClientSeesLog, EndsSent
  <2>2. CASE out' = Append(out, event) /\ "handler" \in listeners
    <3> DEFINE last == Len(out) + 1
    <3>1. /\ EndsSent' = EndsSent \cup {last}
          /\ \A n \in EndsSent : out'[n] = out[n] /\ n # last
          /\ out'[last] = event
      BY <1>3, <2>2, EndsAfter DEF ForwardInv, ForwardingTypeOK
    <3> HIDE DEF last
    <3>2. \A n \in EndsSent : out[n].message \in log \cup lost
      BY DEF ForwardInv, ClientSeesLog
    <3>3. \A n \in EndsSent' : out'[n].message \in log' \cup lost'
      BY <1>1, <1>3, <3>1, <3>2
    <3>4. \A n \in EndsSent : out'[n].message # m
      BY <1>2, <3>1, <3>2
    <3>5. \A n, k \in EndsSent : out[n].message = out[k].message => n = k
      BY DEF ForwardInv, ClientSeesLog
    <3>6. \A n, k \in EndsSent' : out'[n].message = out'[k].message => n = k
      BY <1>3, <3>1, <3>4, <3>5
    <3>7. log' \cup lost' \subseteq {out'[n].message : n \in EndsSent'}
      <4>1. log \cup lost \subseteq {out[n].message : n \in EndsSent}
        BY <2>2 DEF ForwardInv, ClientSeesLog
      <4> SUFFICES ASSUME NEW x \in log' \cup lost' PROVE \E n \in EndsSent' : out'[n].message = x
        OBVIOUS
      <4>2. CASE x = m
        BY <1>3, <3>1, <4>2
      <4>3. CASE x # m
        <5>1. PICK n \in EndsSent : out[n].message = x
          BY <1>1, <4>1, <4>3
        <5> QED
          BY <3>1, <5>1
      <4> QED
        BY <4>2, <4>3
    <3> QED
      BY <3>3, <3>6, <3>7 DEF ClientSeesLog
  <2> QED
    BY <1>5, <2>1, <2>2
<1> QED
  BY <1>1, <1>5, <1>6, <1>7 DEF ForwardInv, ForwardingTypeOK, Knows

LEMMA SilentInv ==
  ASSUME ForwardInv, NEW model \in ModelNames, NEW level \in LevelNames, NEW queued \in BOOLEAN,
         ChangeSilently(model, level, queued)
  PROVE  ForwardInv' /\ Knows
<1>1. agent \in State
  BY DEF ForwardInv, ForwardingTypeOK
<1>2. agent' \in State
  BY <1>1 DEF ChangeSilently, State
<1>3. UNCHANGED <<ended, appending, log, lost, out, view, lastState, listeners>>
  BY DEF ChangeSilently, messageVars, clientVars
<1> QED
  BY <1>2, <1>3 DEF ForwardInv, ForwardingTypeOK, ViewIsLast, Numbered, ClientSeesLog, EndsSent, Knows

\* An event of the session itself changes nothing but what the client is told.
LEMMA OwnEvent ==
  ASSUME ForwardInv, NEW event \in Events, event.type # "message_end",
         Forward(event, agent), UNCHANGED <<agent, messageVars, listeners>>
  PROVE  ForwardInv' /\ Knows
<1>1. agent \in State /\ ended \in Nat /\ UNCHANGED <<ended, appending, log, lost>>
  BY DEF ForwardInv, ForwardingTypeOK, messageVars
<1>2. /\ lastState' \in State /\ ViewIsLast' /\ out' \in Seq(Events)
      /\ out' = Append(out, event) \/ out' = out
      /\ out' # out => \A f \in {"streaming", "model", "level", "count"} : view'[f] = agent[f]
  BY <1>1, ForwardKnows
<1>3. EndsSent' = EndsSent /\ \A n \in EndsSent : out'[n] = out[n]
  <2>1. CASE out' = out
    BY <2>1 DEF EndsSent
  <2>2. CASE out' = Append(out, event)
    BY <2>2, EndsAfter DEF ForwardInv, ForwardingTypeOK
  <2> QED
    BY <1>2, <2>1, <2>2
<1>4. ClientSeesLog'
  BY <1>1, <1>3 DEF ForwardInv, ClientSeesLog
<1> QED
  BY <1>1, <1>2, <1>4 DEF ForwardInv, ForwardingTypeOK, Numbered, Knows

LEMMA CompactionInv ==
  ASSUME ForwardInv, CompactStarts \/ CompactReplaces \/ CompactFails \/ CompactEnds
  PROVE  ForwardInv' /\ Knows
<1>1. CASE CompactStarts
  <2>1. Event("compaction_start", 0) \in Events /\ Event("compaction_start", 0).type # "message_end"
    BY DEF Event, Events
  <2> QED
    BY <1>1, <2>1, OwnEvent DEF CompactStarts
<1>2. CASE CompactEnds
  <2>1. Event("compaction_end", 0) \in Events /\ Event("compaction_end", 0).type # "message_end"
    BY DEF Event, Events
  <2> QED
    BY <1>2, <2>1, OwnEvent DEF CompactEnds
<1>3. CASE CompactReplaces \/ CompactFails
  <2>1. UNCHANGED <<ended, appending, log, lost, out, view, lastState, listeners>>
    BY <1>3 DEF CompactReplaces, CompactFails, messageVars, clientVars
  <2>2. agent' \in State
    <3>1. agent \in State
      BY DEF ForwardInv, ForwardingTypeOK
    <3>2. CASE CompactFails
      BY <3>1, <3>2 DEF CompactFails
    <3>3. CASE CompactReplaces
      <4>1. PICK kept \in SUBSET (log \cup appending) :
              agent' = [agent EXCEPT !.count = Cardinality(kept)]
        BY <3>3 DEF CompactReplaces
      <4>2. Cardinality(kept) \in Nat
        <5>1. kept \subseteq 1 .. ended /\ ended \in Nat
          BY DEF ForwardInv, ForwardingTypeOK, Numbered
        <5> QED
          <6>1. IsFiniteSet(1 .. ended)
            BY <5>1, FS_Interval
          <6>2. IsFiniteSet(kept)
            BY <5>1, <6>1, FS_Subset
          <6> QED
            BY <6>2, FS_CardinalityType
      <4> QED
        BY <3>1, <4>1, <4>2 DEF State
    <3> QED
      BY <1>3, <3>2, <3>3
  <2> QED
    BY <2>1, <2>2 DEF ForwardInv, ForwardingTypeOK, ViewIsLast, Numbered, ClientSeesLog, EndsSent, Knows
<1> QED
  BY <1>1, <1>2, <1>3

-----------------------------------------------------------------------------
(* The process *)

\* A step that does not touch the forwarding.
LEMMA Untouched ==
  ASSUME ForwardInv, UNCHANGED forwardingVars PROVE ForwardInv' /\ Knows
BY DEF forwardingVars, messageVars, clientVars, ForwardInv, ForwardingTypeOK, ViewIsLast, Numbered,
       ClientSeesLog, EndsSent, Knows

\* Whoever stops listening is told of nothing more.
LEMMA Leaves ==
  ASSUME ForwardInv, Dispose \/ StopHandler PROVE ForwardInv' /\ Knows
<1>1. "handler" \notin listeners'
  BY DEF Dispose, StopHandler
<1>2. UNCHANGED <<agent, ended, appending, log, lost, out, view, lastState>>
  BY DEF Dispose, StopHandler, messageVars, clientVars
<1> QED
  BY <1>1, <1>2 DEF ForwardInv, ForwardingTypeOK, ViewIsLast, Numbered, ClientSeesLog, EndsSent, Knows

\* The handler is started while there is nothing to have been told of.
LEMMA StartHandlerInv ==
  ASSUME Inv, at \notin {"serving", "exited"}, StartHandler PROVE ForwardInv' /\ Knows
<1>1. log = {} /\ lost = {} /\ out = <<>>
  BY DEF Inv, NothingYet
<1>2. lastState' = agent /\ view' = agent /\ UNCHANGED <<agent, ended, appending, log, lost, out>>
  BY DEF StartHandler, messageVars
<1>3. EndsSent' = {}
  BY <1>1, <1>2 DEF EndsSent
<1> QED
  BY <1>1, <1>2, <1>3
     DEF Inv, ForwardInv, ForwardingTypeOK, ViewIsLast, Numbered, ClientSeesLog, Knows

LEMMA RunCommandInv ==
  ASSUME ForwardInv, NEW n \in DOMAIN handled, RunCommand(n) PROVE ForwardInv' /\ Knows
<1>1. CASE AgentStarts
  BY <1>1, StartsInv
<1>2. CASE UNCHANGED forwardingVars
  BY <1>2, Untouched
<1>3. CASE \E model \in ModelNames, level \in LevelNames : ChangeSilently(model, level, agent.queued)
  <2>1. agent.queued \in BOOLEAN
    BY DEF ForwardInv, ForwardingTypeOK, State
  <2> QED
    BY <1>3, <2>1, SilentInv
<1>4. CASE ChangeSilently(agent.model, agent.level, TRUE)
  <2>1. agent.model \in ModelNames /\ agent.level \in LevelNames
    BY DEF ForwardInv, ForwardingTypeOK, State
  <2> QED
    BY <1>4, <2>1, SilentInv
<1>5. CASE CompactStarts
  BY <1>5, CompactionInv
<1> QED
  BY <1>1, <1>2, <1>3, <1>4, <1>5 DEF RunCommand

LEMMA NextInv == Inv /\ [Next]_vars => Inv' /\ (Knows \/ UNCHANGED vars)
<1> SUFFICES ASSUME Inv, [Next]_vars PROVE Inv' /\ (Knows \/ UNCHANGED vars)
  OBVIOUS
<1>1. ForwardInv
  BY DEF Inv
<1>2. CASE UNCHANGED vars
  <2>1. UNCHANGED forwardingVars /\ at' = at /\ log' = log /\ lost' = lost /\ out' = out
    BY <1>2 DEF vars, startVars, forwardingVars, messageVars, clientVars
  <2> QED
    BY <1>1, <2>1, Untouched DEF Inv, NothingYet
<1>3. CASE Main
  <2>1. at \notin {"serving", "exited"} /\ UNCHANGED forwardingVars
    BY <1>3 DEF Main, Startup, ParseCliArgs, ParseOtterConfig, ResolveComponentOrExit, FindModel,
                LoadExtensions, ServeSession, Kinds
  <2> QED
    BY <1>1, <2>1, Untouched DEF Inv, NothingYet, forwardingVars, messageVars,
                                     clientVars
<1>4. CASE CreateTransport \/ EndOfStdin \/ Signal \/ \E n \in DOMAIN stdin : Read(n)
  <2>1. UNCHANGED forwardingVars /\ at' = at
    BY <1>4 DEF CreateTransport, EndOfStdin, Signal, Read, startVars
  <2> QED
    BY <1>1, <2>1, Untouched DEF Inv, NothingYet, forwardingVars, messageVars,
                                     clientVars
<1>5. CASE CreateRpcSession
  <2>1. at \notin {"serving", "exited"} /\ at' \in {"serving", "exited"}
    BY <1>5 DEF CreateRpcSession, ServeSession
  <2>2. StartHandler \/ UNCHANGED forwardingVars
    BY <1>5 DEF CreateRpcSession
  <2>3. ForwardInv' /\ Knows
    BY <1>1, <2>1, <2>2, StartHandlerInv, Untouched
  <2> QED
    BY <2>1, <2>3 DEF Inv, NothingYet
<1>6. CASE \E n \in DOMAIN handled : RunCommand(n)
  <2>1. at' = "serving"
    BY <1>6 DEF RunCommand, Serving, startVars
  <2> QED
    BY <1>1, <1>6, <2>1, RunCommandInv DEF Inv, NothingYet
<1>7. CASE AgentActs
  <2>1. at' = "serving"
    BY <1>7 DEF AgentActs, Serving, startVars
  <2> QED
    BY <1>1, <1>7, <2>1, MessageEndsInv, EndsInv, AppendedInv, CompactionInv
       DEF AgentActs, Inv, NothingYet
<1>8. CASE DisposeSession
  <2>1. at' = "serving" /\ Dispose
    BY <1>8 DEF DisposeSession, Serving, startVars
  <2> QED
    BY <1>1, <2>1, Leaves DEF Inv, NothingYet
<1>9. CASE Stop
  <2>1. at' = "exited" /\ StopHandler
    BY <1>9 DEF Stop, Exit
  <2> QED
    BY <1>1, <2>1, Leaves DEF Inv, NothingYet
<1> QED
  BY <1>2, <1>3, <1>4, <1>5, <1>6, <1>7, <1>8, <1>9 DEF Next

LEMMA SpecInv == Spec => []Inv
BY InitInv, NextInv, PTL DEF Spec

\* The client is told of a message's end once, when its append was over, and
\* until the session is disposed of every one.
THEOREM ClientSees == Spec => []ClientSeesLog
<1>1. Inv => ClientSeesLog
  BY DEF Inv, ForwardInv
<1> QED
  BY <1>1, SpecInv, PTL

\* With every event sent the client knows the state the agent is in, whatever
\* changed without an event before.
THEOREM ClientKnows == Spec => ClientKnowsState
<1>1. Inv /\ [Next]_vars =>
        [out' # out => \A f \in {"streaming", "model", "level", "count"} : view'[f] = agent'[f]]_vars
  BY NextInv DEF Knows
<1> QED
  BY <1>1, SpecInv, PTL DEF Spec, ClientKnowsState
-----------------------------------------------------------------------------
(* Bytes to characters *)

Char == DOMAIN Width
Byte == Char \X Nat

\* What UTF-8 says of the bytes up to the last of a character.
Consecutive(bytes) ==
  \A n \in DOMAIN bytes :
    /\ bytes[n][2] <= n
    /\ \A k \in 1 .. bytes[n][2] : bytes[n - bytes[n][2] + k] = <<bytes[n][1], k>>

LEMMA LastsInterval ==
  ASSUME NEW bytes \in Seq(Byte)
  PROVE  Lasts(bytes) \in SUBSET (1 .. Len(bytes)) /\ Len(bytes) \in Nat
BY DEF Lasts

\* The characters of the first i bytes, from those of the bytes before the ith.
DecodeStep(g, bytes, i) ==
  IF i = 0 THEN <<>>
  ELSE IF i \in Lasts(bytes) THEN Append(g[i - 1], bytes[i][1])
  ELSE g[i - 1]
Decodes(g, bytes, n) == g = [i \in 0 .. n |-> DecodeStep(g, bytes, i)]

LEMMA DecodesExists ==
  ASSUME NEW bytes, NEW n \in Nat
  PROVE  \E g : Decodes(g, bytes, n)
<1> DEFINE S == {k \in Nat : \E g : Decodes(g, bytes, k)}
<1>1. 0 \in S
  <2> DEFINE g == [i \in 0 .. 0 |-> <<>>]
  <2>1. Decodes(g, bytes, 0)
    BY DEF Decodes, DecodeStep
  <2> QED
    BY <2>1
<1>2. ASSUME NEW k \in 0 .. n, k # n, k \in S PROVE k + 1 \in S
  <2>1. PICK g : Decodes(g, bytes, k)
    BY <1>2
  <2> DEFINE h == [i \in 0 .. k + 1 |-> IF i = k + 1 THEN DecodeStep(g, bytes, k + 1) ELSE g[i]]
  <2>2. ASSUME NEW i \in 0 .. k + 1 PROVE h[i] = DecodeStep(h, bytes, i)
    <3>1. i # 0 => i - 1 \in 0 .. k /\ h[i - 1] = g[i - 1]
      OBVIOUS
    <3>2. DecodeStep(h, bytes, i) = DecodeStep(g, bytes, i)
      BY <3>1 DEF DecodeStep
    <3>3. i # k + 1 => i \in 0 .. k /\ g[i] = DecodeStep(g, bytes, i)
      BY <2>1 DEF Decodes
    <3> QED
      BY <3>2, <3>3
  <2>3. Decodes(h, bytes, k + 1)
    <3> DEFINE q == [i \in 0 .. k + 1 |-> DecodeStep(h, bytes, i)]
    <3>1. DOMAIN h = 0 .. k + 1 /\ DOMAIN q = 0 .. k + 1
      OBVIOUS
    <3>2. \A i \in 0 .. k + 1 : h[i] = q[i]
      BY <2>2
    <3>3. h = q
      BY <3>1, <3>2
    <3> QED
      BY <3>3 DEF Decodes
  <2> QED
    BY <2>3
<1> HIDE DEF S
<1>3. n \in S
  BY <1>1, <1>2, BoundedInduction
<1> QED
  BY <1>3 DEF S

LEMMA DecodedResult ==
  ASSUME NEW bytes, Len(bytes) \in Nat
  PROVE  \E g : Decodes(g, bytes, Len(bytes)) /\ Decoded(bytes) = g[Len(bytes)]
<1> DEFINE g == CHOOSE h : h = [i \in 0 .. Len(bytes) |->
                                  IF i = 0 THEN <<>>
                                  ELSE IF i \in Lasts(bytes) THEN Append(h[i - 1], bytes[i][1])
                                  ELSE h[i - 1]]
<1>1. Decoded(bytes) = g[Len(bytes)]
  BY DEF Decoded
<1>2. \E h : h = [i \in 0 .. Len(bytes) |->
                    IF i = 0 THEN <<>>
                    ELSE IF i \in Lasts(bytes) THEN Append(h[i - 1], bytes[i][1])
                    ELSE h[i - 1]]
  <2>1. PICK h : Decodes(h, bytes, Len(bytes))
    BY DecodesExists
  <2>2. h = [i \in 0 .. Len(bytes) |->
               IF i = 0 THEN <<>>
               ELSE IF i \in Lasts(bytes) THEN Append(h[i - 1], bytes[i][1])
               ELSE h[i - 1]]
    BY <2>1 DEF Decodes, DecodeStep
  <2> QED
    BY <2>2
<1>3. Decodes(g, bytes, Len(bytes))
  BY <1>2 DEF Decodes, DecodeStep
<1> QED
  BY <1>1, <1>3

\* Decoding goes through the bytes one by one.
LEMMA DecodedRun ==
  ASSUME NEW bytes \in Seq(Byte)
  PROVE  \E g \in [0 .. Len(bytes) -> Seq(Char)] :
           /\ g[0] = <<>>
           /\ \A i \in 1 .. Len(bytes) :
                g[i] = IF i \in Lasts(bytes) THEN Append(g[i - 1], bytes[i][1]) ELSE g[i - 1]
           /\ Decoded(bytes) = g[Len(bytes)]
<1>1. Len(bytes) \in Nat /\ \A i \in 1 .. Len(bytes) : bytes[i][1] \in Char
  BY DEF Byte
<1>2. PICK g : Decodes(g, bytes, Len(bytes)) /\ Decoded(bytes) = g[Len(bytes)]
  BY <1>1, DecodedResult
<1>3. /\ g[0] = <<>>
      /\ \A i \in 1 .. Len(bytes) :
           g[i] = IF i \in Lasts(bytes) THEN Append(g[i - 1], bytes[i][1]) ELSE g[i - 1]
  <2>1. \A i \in 0 .. Len(bytes) : g[i] = DecodeStep(g, bytes, i)
    BY <1>2 DEF Decodes
  <2>2. 0 \in 0 .. Len(bytes) /\ \A i \in 1 .. Len(bytes) : i \in 0 .. Len(bytes) /\ i # 0
    BY <1>1
  <2> QED
    BY <2>1, <2>2 DEF DecodeStep
<1>4. g = [i \in 0 .. Len(bytes) |-> g[i]]
  BY <1>2 DEF Decodes
<1> DEFINE V == Seq(Char)
           n == Len(bytes)
           S == {i \in 0 .. n : g[i] \in V}
<1>5. 0 \in S
  <2>1. 0 \in 0 .. n /\ <<>> \in V
    BY <1>1
  <2> QED
    BY <1>3, <2>1
<1>6. ASSUME NEW i \in 0 .. n, i # n, i \in S PROVE i + 1 \in S
  <2>1. i + 1 \in 1 .. n /\ (i + 1) - 1 = i /\ i + 1 \in 0 .. n
    BY <1>1, <1>6
  <2>2. bytes[i + 1][1] \in Char /\ g[i] \in V
    BY <1>1, <1>6, <2>1
  <2>3. Append(g[i], bytes[i + 1][1]) \in V
    BY <2>2
  <2>4. g[i + 1] \in V
    BY <1>3, <2>1, <2>2, <2>3
  <2> QED
    BY <2>1, <2>4
<1>7. \A i \in 0 .. n : i \in S
  <2> HIDE DEF S
  <2> QED
    BY <1>1, <1>5, <1>6, BoundedInduction
<1>8. g \in [0 .. n -> V]
  BY <1>4, <1>7
<1> QED
  BY <1>2, <1>3, <1>8

LEMMA DecodedType ==
  ASSUME NEW bytes \in Seq(Byte)
  PROVE  Decoded(bytes) \in Seq(Char)
<1>1. PICK g \in [0 .. Len(bytes) -> Seq(Char)] : Decoded(bytes) = g[Len(bytes)]
  BY DecodedRun
<1>2. Len(bytes) \in 0 .. Len(bytes)
  OBVIOUS
<1> QED
  BY <1>1, <1>2

\* No character ends in bytes that have no last one.
LEMMA NothingDecoded ==
  ASSUME NEW bytes \in Seq(Byte), Lasts(bytes) = {}
  PROVE  Decoded(bytes) = <<>>
<1>1. PICK g \in [0 .. Len(bytes) -> Seq(Char)] :
        /\ g[0] = <<>>
        /\ \A i \in 1 .. Len(bytes) : g[i] = g[i - 1]
        /\ Decoded(bytes) = g[Len(bytes)]
  BY DecodedRun
<1> DEFINE S == {i \in 0 .. Len(bytes) : g[i] = <<>>}
<1>2. Len(bytes) \in Nat
  OBVIOUS
<1>3. 0 \in S
  BY <1>1, <1>2
<1>4. ASSUME NEW i \in 0 .. Len(bytes), i # Len(bytes), i \in S PROVE i + 1 \in S
  <2>1. i + 1 \in 1 .. Len(bytes) /\ (i + 1) - 1 = i /\ i + 1 \in 0 .. Len(bytes)
    BY <1>2, <1>4
  <2>2. g[i + 1] = g[i]
    BY <1>1, <2>1
  <2> QED
    BY <1>4, <2>1, <2>2
<1> HIDE DEF S
<1>5. Len(bytes) \in S
  <2>1. \A i \in 0 .. Len(bytes) : i # Len(bytes) /\ i \in S => i + 1 \in S
    BY <1>4
  <2>2. Len(bytes) \in 0 .. Len(bytes)
    BY <1>2
  <2> QED
    BY <1>2, <1>3, <2>1, <2>2, BoundedInduction
<1> QED
  BY <1>1, <1>5 DEF S

LEMMA ConcatBytes ==
  ASSUME NEW S, NEW x \in Seq(S), NEW w \in Seq(S)
  PROVE  /\ x \o w \in Seq(S) /\ Len(x \o w) = Len(x) + Len(w)
         /\ Len(x) \in Nat /\ Len(w) \in Nat
         /\ \A i \in 1 .. Len(x) : (x \o w)[i] = x[i]
         /\ \A i \in 1 .. Len(w) : (x \o w)[Len(x) + i] = w[i]
OBVIOUS

\* Bytes that are cut where a character ends are decoded part by part.
LEMMA DecodedJoin ==
  ASSUME NEW x \in Seq(Byte), NEW w \in Seq(Byte),
         \A i \in 1 .. Len(x) : i \in Lasts(x \o w) <=> i \in Lasts(x),
         \A i \in 1 .. Len(w) : Len(x) + i \in Lasts(x \o w) <=> i \in Lasts(w)
  PROVE  Decoded(x \o w) = Decoded(x) \o Decoded(w)
<1> DEFINE z == x \o w
           N == Len(x)
           K == Len(w)
<1>1. /\ z \in Seq(Byte) /\ Len(z) = N + K /\ N \in Nat /\ K \in Nat
      /\ \A i \in 1 .. N : z[i] = x[i]
      /\ \A i \in 1 .. K : z[N + i] = w[i]
  BY ConcatBytes
<1>2. /\ \A i \in 1 .. N : i \in Lasts(z) <=> i \in Lasts(x)
      /\ \A i \in 1 .. K : N + i \in Lasts(z) <=> i \in Lasts(w)
  OBVIOUS
<1> HIDE DEF z
<1>3. PICK gx \in [0 .. N -> Seq(Char)] :
        /\ gx[0] = <<>>
        /\ \A i \in 1 .. N : gx[i] = IF i \in Lasts(x) THEN Append(gx[i - 1], x[i][1]) ELSE gx[i - 1]
        /\ Decoded(x) = gx[N]
  BY DecodedRun
<1>4. PICK gw \in [0 .. K -> Seq(Char)] :
        /\ gw[0] = <<>>
        /\ \A i \in 1 .. K : gw[i] = IF i \in Lasts(w) THEN Append(gw[i - 1], w[i][1]) ELSE gw[i - 1]
        /\ Decoded(w) = gw[K]
  BY DecodedRun
<1>5. PICK gz \in [0 .. N + K -> Seq(Char)] :
        /\ gz[0] = <<>>
        /\ \A i \in 1 .. N + K :
             gz[i] = IF i \in Lasts(z) THEN Append(gz[i - 1], z[i][1]) ELSE gz[i - 1]
        /\ Decoded(z) = gz[N + K]
  <2>1. PICK g \in [0 .. Len(z) -> Seq(Char)] :
          /\ g[0] = <<>>
          /\ \A i \in 1 .. Len(z) :
               g[i] = IF i \in Lasts(z) THEN Append(g[i - 1], z[i][1]) ELSE g[i - 1]
          /\ Decoded(z) = g[Len(z)]
    BY <1>1, DecodedRun
  <2>2. Len(z) = N + K
    BY <1>1
  <2> HIDE DEF N, K
  <2> QED
    BY <2>1, <2>2
<1> HIDE DEF N, K
<1> DEFINE S == {i \in 0 .. N : gz[i] = gx[i]}
<1>6. 0 \in S
  BY <1>1, <1>3, <1>5
<1>7. ASSUME NEW i \in 0 .. N, i # N, i \in S PROVE i + 1 \in S
  <2>1. i + 1 \in 1 .. N /\ i + 1 \in 0 .. N /\ i + 1 \in 1 .. N + K /\ (i + 1) - 1 = i
    BY <1>1, <1>7
  <2>2. gx[i + 1] = IF i + 1 \in Lasts(x) THEN Append(gx[i], x[i + 1][1]) ELSE gx[i]
    BY <1>3, <2>1
  <2>3. gz[i + 1] = IF i + 1 \in Lasts(z) THEN Append(gz[i], z[i + 1][1]) ELSE gz[i]
    BY <1>5, <2>1
  <2>4. gz[i] = gx[i] /\ z[i + 1] = x[i + 1] /\ (i + 1 \in Lasts(z) <=> i + 1 \in Lasts(x))
    BY <1>1, <1>2, <1>7, <2>1
  <2>5. gz[i + 1] = gx[i + 1]
    BY <2>2, <2>3, <2>4, Zenon
  <2> QED
    BY <2>1, <2>5
<1> HIDE DEF S
<1>8. N \in S
  <2>1. \A i \in 0 .. N : i # N /\ i \in S => i + 1 \in S
    BY <1>7
  <2>2. N \in Nat /\ N \in 0 .. N
    BY <1>1
  <2> QED
    BY <1>6, <2>1, <2>2, BoundedInduction
<1>9. gz[N] = gx[N] /\ gx[N] \in Seq(Char)
  BY <1>1, <1>3, <1>8 DEF S
<1> DEFINE T == {i \in 0 .. K : gz[N + i] = gx[N] \o gw[i]}
<1>10. 0 \in T
  <2>1. gx[N] \o <<>> = gx[N]
    BY <1>9
  <2>2. N + 0 = N /\ 0 \in 0 .. K
    BY <1>1
  <2>3. gz[N + 0] = gx[N] \o gw[0]
    BY <1>4, <1>9, <2>1, <2>2, Zenon
  <2> QED
    BY <2>2, <2>3
<1>11. ASSUME NEW i \in 0 .. K, i # K, i \in T PROVE i + 1 \in T
  <2>1. /\ i + 1 \in 1 .. K /\ i + 1 \in 0 .. K /\ (i + 1) - 1 = i
        /\ N + (i + 1) \in 1 .. N + K /\ (N + (i + 1)) - 1 = N + i
    BY <1>1, <1>11
  <2>2. gw[i + 1] = IF i + 1 \in Lasts(w) THEN Append(gw[i], w[i + 1][1]) ELSE gw[i]
    BY <1>4, <2>1
  <2>3. gz[N + (i + 1)] = IF N + (i + 1) \in Lasts(z) THEN Append(gz[N + i], z[N + (i + 1)][1])
                          ELSE gz[N + i]
    BY <1>5, <2>1
  <2>4. /\ gz[N + i] = gx[N] \o gw[i] /\ z[N + (i + 1)] = w[i + 1]
        /\ N + (i + 1) \in Lasts(z) <=> i + 1 \in Lasts(w)
    BY <1>1, <1>2, <1>11, <2>1
  <2>5. gw[i] \in Seq(Char)
    BY <1>4
  <2> DEFINE a == gx[N]
             b == gw[i]
             c == w[i + 1][1]
  <2>6. Append(a \o b, c) = a \o Append(b, c)
    <3>1. a \in Seq(Char) /\ b \in Seq(Char) /\ c \in Char
      <4>1. w[i + 1] \in Byte
        BY <2>1 DEF K
      <4> QED
        BY <1>9, <2>5, <4>1 DEF Byte
    <3> HIDE DEF a, b, c
    <3> DEFINE l == a \o b
               r == Append(b, c)
    <3>2. l \in Seq(Char) /\ r = b \o <<c>> /\ <<c>> \in Seq(Char)
      BY <3>1
    <3>3. l \o <<c>> = a \o (b \o <<c>>)
      BY <3>1, <3>2, ConcatAssociative
    <3>4. Append(l, c) = l \o <<c>>
      BY <3>1, <3>2, AppendIsConcat
    <3> HIDE DEF l, r
    <3>5. Append(l, c) = a \o r
      BY <3>2, <3>3, <3>4
    <3> QED
      BY <3>5 DEF l, r
  <2>7. gz[N + (i + 1)] = gx[N] \o gw[i + 1]
    BY <2>2, <2>3, <2>4, <2>6, Zenon
  <2> QED
    BY <2>1, <2>7
<1> HIDE DEF T
<1>12. K \in T
  <2>1. \A i \in 0 .. K : i # K /\ i \in T => i + 1 \in T
    BY <1>11
  <2>2. K \in Nat /\ K \in 0 .. K
    BY <1>1
  <2> QED
    BY <1>10, <2>1, <2>2, BoundedInduction
<1>13. Decoded(z) = Decoded(x) \o Decoded(w)
  BY <1>3, <1>4, <1>5, <1>12 DEF T
<1> QED
  BY <1>13 DEF z

LEMMA SubSeqBytes ==
  ASSUME NEW S, NEW s \in Seq(S), NEW m \in 0 .. Len(s), NEW n \in m .. Len(s)
  PROVE  /\ SubSeq(s, m + 1, n) \in Seq(S) /\ Len(SubSeq(s, m + 1, n)) = n - m
         /\ \A i \in 1 .. n - m : SubSeq(s, m + 1, n)[i] = s[m + i]
<1>1. Len(s) \in Nat /\ m + 1 \in Int /\ n \in Int /\ \A i \in m + 1 .. n : s[i] \in S
  OBVIOUS
<1>2. /\ SubSeq(s, m + 1, n) \in Seq(S)
      /\ Len(SubSeq(s, m + 1, n)) = IF m + 1 <= n THEN n - (m + 1) + 1 ELSE 0
      /\ \A i \in 1 .. n - (m + 1) + 1 : SubSeq(s, m + 1, n)[i] = s[(m + 1) + i - 1]
  BY <1>1, SubSeqProperties
<1>3. n - (m + 1) + 1 = n - m /\ \A i \in 1 .. n - m : (m + 1) + i - 1 = m + i
  BY <1>1
<1>4. (IF m + 1 <= n THEN n - m ELSE 0) = n - m
  BY <1>1
<1> QED
  BY <1>2, <1>3, <1>4

\* No character has bytes on both sides of a place where one ends.
LEMMA LastsCut ==
  ASSUME NEW z \in Seq(Byte), Consecutive(z), NEW m \in 0 .. Len(z), m = 0 \/ m \in Lasts(z)
  PROVE  /\ \A i \in 1 .. m : i \in Lasts(z) <=> i \in Lasts(SubSeq(z, 1, m))
         /\ \A i \in 1 .. Len(z) - m : m + i \in Lasts(z) <=> i \in Lasts(SubSeq(z, m + 1, Len(z)))
<1> DEFINE N == Len(z)
           x == SubSeq(z, 1, m)
           w == SubSeq(z, m + 1, N)
<1>1. N \in Nat /\ m \in 0 .. N /\ 0 \in 0 .. N /\ m \in 0 .. m /\ N \in m .. N /\ 0 + 1 = 1
  OBVIOUS
<1>2. /\ Len(x) = m /\ x \in Seq(Byte) /\ DOMAIN x = 1 .. m
      /\ \A i \in 1 .. m : x[i] = z[i]
  <2>1. /\ SubSeq(z, 0 + 1, m) \in Seq(Byte) /\ Len(SubSeq(z, 0 + 1, m)) = m - 0
        /\ \A i \in 1 .. m - 0 : SubSeq(z, 0 + 1, m)[i] = z[0 + i]
    BY <1>1, SubSeqBytes
  <2> QED
    BY <1>1, <2>1
<1>3. /\ Len(w) = N - m /\ w \in Seq(Byte) /\ DOMAIN w = 1 .. N - m
      /\ \A i \in 1 .. N - m : w[i] = z[m + i]
  BY <1>1, SubSeqBytes
<1>4. /\ DOMAIN z = 1 .. N
      /\ \A i \in 1 .. N : z[i][1] \in Char /\ z[i][2] \in Nat
  BY DEF Byte
<1> HIDE DEF N, x, w
<1>5. ASSUME NEW i \in 1 .. m PROVE i \in Lasts(z) <=> i \in Lasts(x)
  <2>1. i \in 1 .. N
    BY <1>1
  <2> QED
    BY <1>2, <1>4, <2>1 DEF Lasts
<1>6. ASSUME NEW i \in 1 .. N - m PROVE m + i \in Lasts(z) <=> i \in Lasts(w)
  <2> DEFINE c == z[m + i][1]
             b == z[m + i][2]
  <2>1. m + i \in 1 .. N /\ w[i] = z[m + i] /\ b \in Nat
    <3>1. m + i \in 1 .. N /\ w[i] = z[m + i]
      BY <1>1, <1>3
    <3> QED
      BY <1>4, <3>1
  <2>2. m + i \in Lasts(z) <=> b = Width[c] /\ m + i >= b
    <3>1. m + i \in DOMAIN z
      BY <1>4, <2>1
    <3> QED
      BY <3>1 DEF Lasts
  <2>3. i \in Lasts(w) <=> b = Width[c] /\ i >= b
    BY <1>3, <2>1 DEF Lasts
  <2>4. b <= m + i /\ \A k \in 1 .. b : z[(m + i) - b + k] = <<c, k>>
    BY <1>4, <2>1 DEF Consecutive
  <2> HIDE DEF c, b
  <2>5. ASSUME b = Width[c], ~(i >= b) PROVE FALSE
    <3>0. i \in Nat /\ i # 0 /\ m \in Nat /\ b \in Nat /\ i < b /\ b <= m + i
      BY <1>1, <2>1, <2>4, <2>5
    <3>1. b - i \in 1 .. b /\ (m + i) - b + (b - i) = m /\ m # 0 /\ b - i # b
      BY <3>0
    <3>2. z[m] = <<c, b - i>>
      BY <2>4, <3>1
    <3>3. z[m][2] = Width[z[m][1]]
      BY <3>1 DEF Lasts
    <3>4. b - i = Width[c]
      BY <3>2, <3>3
    <3> QED
      BY <2>5, <3>1, <3>4
  <2>6. i >= b => m + i >= b
    BY <1>1, <2>1
  <2> QED
    BY <2>2, <2>3, <2>5, <2>6
<1> QED
  BY <1>5, <1>6 DEF N, x, w

LEMMA SubSeqAll ==
  ASSUME NEW S, NEW s \in Seq(S), NEW m \in 0 .. Len(s)
  PROVE  SubSeq(s, 1, m) \o SubSeq(s, m + 1, Len(s)) = s
<1>1. /\ 1 \in 1 .. Len(s) + 1 /\ m \in 1 - 1 .. Len(s) /\ Len(s) \in m .. Len(s)
      /\ SubSeq(s, 1, Len(s)) = s
  BY SubSeqFull
<1> QED
  BY <1>1, ConcatAdjacentSubSeq

\* Decoding starts anew after a place where a character ends.
LEMMA DecodedCut ==
  ASSUME NEW z \in Seq(Byte), Consecutive(z), NEW m \in 0 .. Len(z), m = 0 \/ m \in Lasts(z)
  PROVE  /\ Decoded(z) = Decoded(SubSeq(z, 1, m)) \o Decoded(SubSeq(z, m + 1, Len(z)))
         /\ Undecoded(z) = Undecoded(SubSeq(z, m + 1, Len(z)))
<1> DEFINE N == Len(z)
           x == SubSeq(z, 1, m)
           w == SubSeq(z, m + 1, N)
<1>1. N \in Nat /\ m \in 0 .. N /\ 0 \in 0 .. N /\ m \in 0 .. m /\ N \in m .. N /\ 0 + 1 = 1
  OBVIOUS
<1>2. Len(x) = m /\ x \in Seq(Byte)
  <2>1. SubSeq(z, 0 + 1, m) \in Seq(Byte) /\ Len(SubSeq(z, 0 + 1, m)) = m - 0
    BY <1>1, SubSeqBytes
  <2> QED
    BY <1>1, <2>1
<1>3. /\ Len(w) = N - m /\ w \in Seq(Byte)
      /\ \A i \in 1 .. N - m : w[i] = z[m + i]
  BY <1>1, SubSeqBytes
<1>4. /\ \A i \in 1 .. m : i \in Lasts(z) <=> i \in Lasts(x)
      /\ \A i \in 1 .. N - m : m + i \in Lasts(z) <=> i \in Lasts(w)
  BY LastsCut
<1>5. x \o w = z
  BY SubSeqAll
<1>6. Lasts(z) \in SUBSET (1 .. N) /\ Lasts(w) \in SUBSET (1 .. N - m) /\ N - m \in Nat
  BY <1>1, <1>3, LastsInterval
<1> HIDE DEF N, x, w
<1>7. Decoded(z) = Decoded(x) \o Decoded(w)
  BY <1>2, <1>3, <1>4, <1>5, DecodedJoin
<1> DEFINE M == Max(Lasts(w) \cup {0})
<1>8. /\ M \in Lasts(w) \cup {0} /\ M \in 0 .. N - m
      /\ \A i \in Lasts(w) : i <= M
  BY <1>6, MaxOrZero
<1> HIDE DEF M
<1>9. Max(Lasts(z) \cup {0}) = m + M
  <2>1. m + M \in Lasts(z) \cup {0}
    <3>1. CASE M = 0
      BY <1>1, <3>1
    <3>2. CASE M # 0
      BY <1>4, <1>6, <1>8, <3>2
    <3> QED
      BY <3>1, <3>2
  <2>2. ASSUME NEW i \in Lasts(z) PROVE i <= m + M
    <3>1. CASE i <= m
      BY <1>1, <1>6, <1>8, <3>1
    <3>2. CASE ~(i <= m)
      <4>1. i - m \in 1 .. N - m /\ m + (i - m) = i
        BY <1>1, <1>6, <3>2
      <4>2. i - m <= M
        BY <1>4, <1>8, <4>1
      <4> QED
        BY <1>1, <1>8, <4>1, <4>2
    <3> QED
      BY <3>1, <3>2
  <2> QED
    BY <1>1, <1>6, <2>1, <2>2, MaxOrZero
<1>10. Undecoded(z) = Undecoded(w)
  <2>1. Undecoded(z) = SubSeq(z, (m + M) + 1, N) /\ Undecoded(w) = SubSeq(w, M + 1, N - m)
    BY <1>3, <1>9 DEF Undecoded, M, N
  <2>2. m + M \in 0 .. N /\ N \in m + M .. N /\ N - m \in M .. N - m /\ N - (m + M) = (N - m) - M
    BY <1>1, <1>8
  <2> DEFINE p == SubSeq(z, (m + M) + 1, N)
             q == SubSeq(w, M + 1, N - m)
  <2>3. /\ p \in Seq(Byte) /\ Len(p) = N - (m + M)
        /\ \A i \in 1 .. N - (m + M) : p[i] = z[(m + M) + i]
    BY <2>2, SubSeqBytes DEF N
  <2>4. /\ q \in Seq(Byte) /\ Len(q) = (N - m) - M
        /\ \A i \in 1 .. (N - m) - M : q[i] = w[M + i]
    BY <1>3, <1>8, <2>2, SubSeqBytes
  <2>5. \A i \in 1 .. (N - m) - M : w[M + i] = z[(m + M) + i]
    <3> SUFFICES ASSUME NEW i \in 1 .. (N - m) - M PROVE w[M + i] = z[(m + M) + i]
      OBVIOUS
    <3>1. M + i \in 1 .. N - m /\ m + (M + i) = (m + M) + i
      BY <1>1, <1>8
    <3> QED
      BY <1>3, <3>1
  <2> HIDE DEF p, q
  <2>6. p = q
    BY <2>2, <2>3, <2>4, <2>5, SeqEqual
  <2> QED
    BY <2>1, <2>6 DEF p, q
<1> QED
  BY <1>7, <1>10 DEF N, x, w

\* The first n elements of the first k are the first n, and those after the mth of
\* the first k are those from m to k.
LEMMA PrefixParts ==
  ASSUME NEW S, NEW s \in Seq(S), NEW k \in 0 .. Len(s), NEW m \in 0 .. k
  PROVE  /\ SubSeq(SubSeq(s, 1, k), 1, m) = SubSeq(s, 1, m)
         /\ SubSeq(SubSeq(s, 1, k), m + 1, k) = SubSeq(s, m + 1, k)
<1> DEFINE p == SubSeq(s, 1, k)
           a == SubSeq(p, 1, m)
           b == SubSeq(s, 1, m)
           c == SubSeq(p, m + 1, k)
           d == SubSeq(s, m + 1, k)
<1>1. /\ 0 \in 0 .. Len(s) /\ k \in 0 .. Len(s) /\ m \in 0 .. Len(s) /\ k \in m .. Len(s) /\ k \in m .. k
      /\ m \in 0 .. k /\ 0 \in 0 .. k /\ 0 + 1 = 1 /\ k - 0 = k /\ m - 0 = m /\ k \in Nat /\ m \in Nat
      /\ k \in 0 .. Len(s) /\ m \in 0 .. Len(s)
  OBVIOUS
<1>2. p \in Seq(S) /\ Len(p) = k /\ \A i \in 1 .. k : p[i] = s[0 + i]
  BY <1>1, SubSeqBytes
<1>3. b \in Seq(S) /\ Len(b) = m /\ \A i \in 1 .. m : b[i] = s[0 + i]
  BY <1>1, SubSeqBytes
<1>4. d \in Seq(S) /\ Len(d) = k - m /\ \A i \in 1 .. k - m : d[i] = s[m + i]
  BY <1>1, SubSeqBytes
<1> HIDE DEF p, b, d
<1>5. a \in Seq(S) /\ Len(a) = m /\ \A i \in 1 .. m : a[i] = p[0 + i]
  BY <1>1, <1>2, SubSeqBytes
<1>6. c \in Seq(S) /\ Len(c) = k - m /\ \A i \in 1 .. k - m : c[i] = p[m + i]
  BY <1>1, <1>2, SubSeqBytes
<1> HIDE DEF a, c
<1>7. \A i \in 1 .. m : a[i] = b[i]
  BY <1>1, <1>2, <1>3, <1>5
<1>8. \A i \in 1 .. k - m : c[i] = d[i]
  <2> SUFFICES ASSUME NEW i \in 1 .. k - m PROVE c[i] = d[i]
    OBVIOUS
  <2>1. m + i \in 1 .. k /\ 0 + (m + i) = m + i
    BY <1>1
  <2>2. p[m + i] = s[m + i]
    BY <1>2, <2>1
  <2> QED
    BY <1>4, <1>6, <2>2
<1>9. a = b
  BY <1>3, <1>5, <1>7, SeqEqual
<1>10. c = d
  BY <1>4, <1>6, <1>8, SeqEqual
<1> QED
  BY <1>9, <1>10 DEF a, b, c, d, p

LEMMA Adjacent ==
  ASSUME NEW S, NEW s \in Seq(S), NEW m \in 0 .. Len(s), NEW k \in m .. Len(s), NEW n \in k .. Len(s)
  PROVE  SubSeq(s, m + 1, k) \o SubSeq(s, k + 1, n) = SubSeq(s, m + 1, n)
<1>1. Len(s) \in Nat /\ m \in Int /\ k \in Int /\ n \in Int /\ (m + 1) - 1 = m
  OBVIOUS
<1>2. m + 1 \in 1 .. Len(s) + 1 /\ k \in (m + 1) - 1 .. Len(s) /\ n \in k .. Len(s)
  BY <1>1
<1> QED
  BY <1>2, ConcatAdjacentSubSeq

\* The bytes kept of the first k, followed by the next n, are decoded to what the
\* first k + n are decoded to beyond the first k.
LEMMA ChunkDecoded ==
  ASSUME NEW s \in Seq(Byte), Consecutive(s), NEW k \in 0 .. Len(s), NEW n \in k .. Len(s),
         NEW bytes, bytes = Undecoded(SubSeq(s, 1, k)) \o SubSeq(s, k + 1, n)
  PROVE  /\ Decoded(SubSeq(s, 1, n)) = Decoded(SubSeq(s, 1, k)) \o Decoded(bytes)
         /\ Undecoded(SubSeq(s, 1, n)) = Undecoded(bytes)
         /\ bytes \in Seq(Byte)
<1> DEFINE P(j) == SubSeq(s, 1, j)
<1>1. ASSUME NEW j \in 0 .. Len(s)
      PROVE  /\ P(j) \in Seq(Byte) /\ Len(P(j)) = j /\ DOMAIN P(j) = 1 .. j
             /\ \A i \in 1 .. j : P(j)[i] = s[i]
  <2>1. /\ j \in Nat /\ 0 \in 0 .. Len(s) /\ j \in 0 .. Len(s) /\ 0 + 1 = 1 /\ j - 0 = j
        /\ \A i \in 1 .. j : 0 + i = i
    OBVIOUS
  <2>2. /\ SubSeq(s, 0 + 1, j) \in Seq(Byte) /\ Len(SubSeq(s, 0 + 1, j)) = j - 0
        /\ \A i \in 1 .. j - 0 : SubSeq(s, 0 + 1, j)[i] = s[0 + i]
    BY <2>1, SubSeqBytes
  <2> QED
    BY <2>1, <2>2
<1>2. ASSUME NEW j \in 0 .. Len(s) PROVE Consecutive(P(j))
  <2>1. SUFFICES ASSUME NEW i \in 1 .. j
                 PROVE  /\ P(j)[i][2] <= i
                        /\ \A h \in 1 .. P(j)[i][2] : P(j)[i - P(j)[i][2] + h] = <<P(j)[i][1], h>>
    BY <1>1 DEF Consecutive
  <2>2. i \in 1 .. Len(s) /\ P(j)[i] = s[i]
    BY <1>1
  <2> DEFINE b == s[i][2]
             c == s[i][1]
  <2>3. b \in Nat
    <3>1. s[i] \in Byte
      BY <2>2
    <3> QED
      BY <3>1 DEF Byte
  <2>4. b <= i /\ \A h \in 1 .. b : s[i - b + h] = <<c, h>>
    <3>1. i \in DOMAIN s
      BY <2>2
    <3> QED
      BY <3>1 DEF Consecutive
  <2>5. b = P(j)[i][2] /\ c = P(j)[i][1]
    BY <2>2
  <2> HIDE DEF b, c
  <2>6. ASSUME NEW h \in 1 .. b PROVE P(j)[i - b + h] = <<c, h>>
    <3>1. i - b + h \in 1 .. j
      BY <2>3, <2>4
    <3>2. P(j)[i - b + h] = s[i - b + h]
      BY <1>1, <3>1
    <3> QED
      BY <2>4, <3>2
  <2> HIDE DEF P
  <2> QED
    BY <2>4, <2>5, <2>6
<1>3. Lasts(P(k)) \in SUBSET (1 .. k) /\ k \in Nat
  BY <1>1, LastsInterval
<1> DEFINE m == Max(Lasts(P(k)) \cup {0})
<1>4. m \in Lasts(P(k)) \cup {0} /\ m \in 0 .. k /\ \A i \in Lasts(P(k)) : i <= m
  BY <1>3, MaxOrZero
<1>5. Undecoded(P(k)) = SubSeq(P(k), m + 1, k)
  BY <1>1 DEF Undecoded
<1> HIDE DEF m
<1>6. m \in 0 .. Len(s) /\ k \in m .. Len(s) /\ n \in 0 .. Len(s) /\ m \in 0 .. n /\ n \in m .. Len(s)
      /\ n \in Nat /\ k \in 0 .. n
  BY <1>4
<1> DEFINE x == SubSeq(s, 1, m)
           y == SubSeq(s, m + 1, k)
           w == SubSeq(s, m + 1, n)
<1>7. SubSeq(P(k), 1, m) = x /\ SubSeq(P(k), m + 1, k) = y
  BY <1>4, PrefixParts
<1>8. SubSeq(P(n), 1, m) = x /\ SubSeq(P(n), m + 1, n) = w
  BY <1>6, PrefixParts
<1>9. bytes = w
  <2>1. SubSeq(s, m + 1, k) \o SubSeq(s, k + 1, n) = SubSeq(s, m + 1, n)
    BY <1>6, Adjacent
  <2> QED
    BY <1>5, <1>7, <2>1
<1>10. y \in Seq(Byte) /\ Len(y) = k - m /\ w \in Seq(Byte) /\ x \in Seq(Byte)
  <2>1. y \in Seq(Byte) /\ Len(y) = k - m
    BY <1>6, SubSeqBytes
  <2>2. w \in Seq(Byte)
    BY <1>6, SubSeqBytes
  <2>3. x \in Seq(Byte)
    BY <1>1, <1>6
  <2> QED
    BY <2>1, <2>2, <2>3
<1> HIDE DEF x, y, w
<1>11. Decoded(P(k)) = Decoded(x)
  <2>1. P(k) \in Seq(Byte) /\ Len(P(k)) = k /\ Consecutive(P(k))
    BY <1>1, <1>2
  <2> DEFINE z == P(k)
  <2>2. z \in Seq(Byte) /\ Len(z) = k /\ Consecutive(z) /\ m \in 0 .. Len(z) /\ (m = 0 \/ m \in Lasts(z))
        /\ SubSeq(z, 1, m) = x /\ SubSeq(z, m + 1, Len(z)) = y /\ \A i \in Lasts(z) : i <= m
    BY <1>4, <1>7, <2>1
  <2> HIDE DEF z
  <2>3. Decoded(z) = Decoded(x) \o Decoded(y)
    BY <2>2, DecodedCut
  <2>4. \A i \in 1 .. k - m : m + i \in Lasts(z) <=> i \in Lasts(y)
    BY <2>2, LastsCut
  <2>5. Lasts(y) = {}
    <3>1. Lasts(y) \in SUBSET (1 .. k - m)
      BY <1>10, LastsInterval
    <3>2. \A i \in 1 .. k - m : ~(m + i <= m)
      BY <1>4
    <3> QED
      BY <2>2, <2>4, <3>1, <3>2
  <2>6. Decoded(y) = <<>>
    BY <1>10, <2>5, NothingDecoded
  <2>7. Decoded(x) \in Seq(Char)
    BY <1>10, DecodedType
  <2>8. Decoded(x) \o <<>> = Decoded(x)
    BY <2>7, ConcatEmptySeq
  <2> QED
    BY <2>3, <2>6, <2>8 DEF z
<1>12. Decoded(P(n)) = Decoded(x) \o Decoded(w) /\ Undecoded(P(n)) = Undecoded(w)
  <2>1. P(n) \in Seq(Byte) /\ Len(P(n)) = n /\ Consecutive(P(n))
    BY <1>1, <1>2, <1>6
  <2>2. m = 0 \/ m \in Lasts(P(n))
    <3>1. ASSUME m \in Lasts(P(k)) PROVE m \in Lasts(P(n))
      <4>1. m \in 1 .. k /\ m \in 1 .. n
        BY <1>3, <1>6, <3>1
      <4>2. P(k)[m] = s[m] /\ P(n)[m] = s[m] /\ m \in DOMAIN P(n)
        BY <1>1, <1>6, <4>1
      <4> HIDE DEF P
      <4> QED
        BY <3>1, <4>2 DEF Lasts
    <3> QED
      BY <1>4, <3>1
  <2> DEFINE z == P(n)
  <2>3. z \in Seq(Byte) /\ Len(z) = n /\ Consecutive(z) /\ m \in 0 .. Len(z) /\ (m = 0 \/ m \in Lasts(z))
        /\ SubSeq(z, 1, m) = x /\ SubSeq(z, m + 1, Len(z)) = w
    BY <1>6, <1>8, <2>1, <2>2
  <2> HIDE DEF z
  <2>4. Decoded(z) = Decoded(x) \o Decoded(w) /\ Undecoded(z) = Undecoded(w)
    BY <2>3, DecodedCut
  <2> QED
    BY <2>4 DEF z
<1> QED
  BY <1>9, <1>10, <1>11, <1>12
-----------------------------------------------------------------------------
(* Characters to lines *)

\* What follows the last line end of a text.
Rest(text) == SubSeq(text, Max(Ends(text) \cup {0}) + 1, Len(text))

\* given holds the lines of a text that are JSON.
Handles(given, text) ==
  /\ Len(given) = Cardinality(JsonEnds(text))
  /\ \A n \in JsonEnds(text) :
       given[Cardinality({k \in JsonEnds(text) : k <= n})] = Emitted(LineTo(text, n))

LEMMA SubSeqOfAppend ==
  ASSUME NEW S, NEW s \in Seq(S), NEW e \in S, NEW m \in 0 .. Len(s), NEW n \in m .. Len(s)
  PROVE  SubSeq(Append(s, e), m + 1, n) = SubSeq(s, m + 1, n)
<1> DEFINE t == Append(s, e)
           p == SubSeq(t, m + 1, n)
           q == SubSeq(s, m + 1, n)
<1>1. t \in Seq(S) /\ Len(t) = Len(s) + 1 /\ Len(s) \in Nat /\ \A i \in 1 .. Len(s) : t[i] = s[i]
  OBVIOUS
<1>2. q \in Seq(S) /\ Len(q) = n - m /\ \A i \in 1 .. n - m : q[i] = s[m + i]
  BY SubSeqBytes
<1> HIDE DEF t
<1>3. m \in 0 .. Len(t) /\ n \in m .. Len(t)
  BY <1>1
<1>4. p \in Seq(S) /\ Len(p) = n - m /\ \A i \in 1 .. n - m : p[i] = t[m + i]
  BY <1>1, <1>3, SubSeqBytes
<1> HIDE DEF p, q
<1>5. \A i \in 1 .. n - m : p[i] = q[i]
  <2> SUFFICES ASSUME NEW i \in 1 .. n - m PROVE p[i] = q[i]
    OBVIOUS
  <2>1. m + i \in 1 .. Len(s)
    BY <1>1
  <2> QED
    BY <1>1, <1>2, <1>4, <2>1
<1>6. p = q
  BY <1>2, <1>4, <1>5, SeqEqual
<1> QED
  BY <1>6 DEF p, q, t

LEMMA LastOfAppend ==
  ASSUME NEW S, NEW s \in Seq(S), NEW e \in S, NEW m \in 0 .. Len(s)
  PROVE  SubSeq(Append(s, e), m + 1, Len(s) + 1) = Append(SubSeq(s, m + 1, Len(s)), e)
<1> DEFINE t == Append(s, e)
           q == SubSeq(s, m + 1, Len(s))
           p == SubSeq(t, m + 1, Len(s) + 1)
           r == Append(q, e)
<1>1. /\ t \in Seq(S) /\ Len(t) = Len(s) + 1 /\ Len(s) \in Nat
      /\ t[Len(s) + 1] = e /\ \A i \in 1 .. Len(s) : t[i] = s[i]
  OBVIOUS
<1>2. q \in Seq(S) /\ Len(q) = Len(s) - m /\ \A i \in 1 .. Len(s) - m : q[i] = s[m + i]
  <2>1. Len(s) \in m .. Len(s)
    BY <1>1
  <2> QED
    BY <2>1, SubSeqBytes
<1> HIDE DEF t, q
<1>3. m \in 0 .. Len(t) /\ Len(s) + 1 \in m .. Len(t) /\ (Len(s) + 1) - m = (Len(s) - m) + 1
      /\ Len(s) - m \in Nat
  BY <1>1
<1>4. p \in Seq(S) /\ Len(p) = (Len(s) - m) + 1 /\ \A i \in 1 .. (Len(s) - m) + 1 : p[i] = t[m + i]
  BY <1>1, <1>3, SubSeqBytes
<1>5. /\ r \in Seq(S) /\ Len(r) = (Len(s) - m) + 1 /\ r[(Len(s) - m) + 1] = e
      /\ \A i \in 1 .. Len(s) - m : r[i] = q[i]
  BY <1>2
<1> HIDE DEF p, r
<1>6. ASSUME NEW i \in 1 .. (Len(s) - m) + 1 PROVE p[i] = r[i]
  <2>1. CASE i = (Len(s) - m) + 1
    <3>1. m + i = Len(s) + 1
      BY <1>1, <2>1
    <3> QED
      BY <1>1, <1>4, <1>5, <2>1, <3>1
  <2>2. CASE i # (Len(s) - m) + 1
    <3>1. i \in 1 .. Len(s) - m /\ m + i \in 1 .. Len(s)
      BY <1>1, <1>3, <2>2
    <3> QED
      BY <1>1, <1>2, <1>4, <1>5, <3>1
  <2> QED
    BY <2>1, <2>2
<1>7. p = r
  BY <1>4, <1>5, <1>6, SeqEqual
<1> QED
  BY <1>7 DEF p, q, r, t

LEMMA EndsInterval ==
  ASSUME NEW text \in Seq(Char)
  PROVE  /\ Len(text) \in Nat /\ Ends(text) \in SUBSET (1 .. Len(text))
         /\ JsonEnds(text) \in SUBSET Ends(text)
         /\ Max(Ends(text) \cup {0}) \in 0 .. Len(text)
<1>1. Len(text) \in Nat /\ Ends(text) \in SUBSET (1 .. Len(text)) /\ JsonEnds(text) \in SUBSET Ends(text)
  BY DEF Ends, JsonEnds
<1> QED
  BY <1>1, MaxOrZero

LEMMA RestType ==
  ASSUME NEW text \in Seq(Char)
  PROVE  Rest(text) \in Seq(Char)
<1> DEFINE M == Max(Ends(text) \cup {0})
<1>1. Len(text) \in Nat /\ M \in 0 .. Len(text) /\ Len(text) \in M .. Len(text)
  BY EndsInterval
<1> HIDE DEF M
<1>2. SubSeq(text, M + 1, Len(text)) \in Seq(Char)
  BY <1>1, SubSeqBytes
<1> QED
  BY <1>2 DEF Rest, M

\* What one more character makes of the line ends, of the lines, and of the rest.
LEMMA LinesAppend ==
  ASSUME NEW text \in Seq(Char), NEW c \in Char
  PROVE  /\ Ends(Append(text, c)) = Ends(text) \cup (IF c = LF THEN {Len(text) + 1} ELSE {})
         /\ \A n \in Ends(text) : LineTo(Append(text, c), n) = LineTo(text, n)
         /\ c = LF => /\ LineTo(Append(text, c), Len(text) + 1) = Rest(text)
                      /\ Rest(Append(text, c)) = <<>>
         /\ c # LF => Rest(Append(text, c)) = Append(Rest(text), c)
<1> DEFINE t == Append(text, c)
           N == Len(text)
           M == Max(Ends(text) \cup {0})
<1>1. /\ t \in Seq(Char) /\ Len(t) = N + 1 /\ N \in Nat /\ DOMAIN t = 1 .. N + 1
      /\ DOMAIN text = 1 .. N
      /\ t[N + 1] = c /\ \A i \in 1 .. N : t[i] = text[i]
  OBVIOUS
<1> HIDE DEF t
<1>2. /\ Ends(text) \in SUBSET (1 .. N) /\ M \in 0 .. N /\ 0 \in 0 .. N
      /\ \A i \in Ends(text) : i <= M
  <2>1. Ends(text) \in SUBSET (1 .. N)
    BY EndsInterval
  <2>2. M \in 0 .. N /\ \A i \in Ends(text) : i <= M
    <3> HIDE DEF N
    <3> QED
      BY <1>1, <2>1, MaxOrZero
  <2>3. 0 \in 0 .. N
    BY <1>1
  <2> HIDE DEF M, N
  <2> QED
    BY <2>1, <2>2, <2>3
<1>3. Ends(t) = Ends(text) \cup (IF c = LF THEN {N + 1} ELSE {})
  <2>1. \A i \in 1 .. N + 1 : i \in 1 .. N \/ i = N + 1
    BY <1>1
  <2>2. N + 1 \notin 1 .. N /\ N + 1 \in 1 .. N + 1 /\ \A i \in 1 .. N : i \in 1 .. N + 1
    BY <1>1
  <2> HIDE DEF N
  <2> QED
    BY <1>1, <2>1, <2>2 DEF Ends
<1>4. ASSUME NEW n \in 1 .. N + 1
      PROVE  {k \in Ends(t) : k < n} = {k \in Ends(text) : k < n}
  BY <1>1, <1>2, <1>3
<1>5. ASSUME NEW n \in Ends(text) PROVE LineTo(t, n) = LineTo(text, n)
  <2> DEFINE K == {k \in Ends(text) : k < n}
             m == Max(K \cup {0})
  <2>1. n \in 1 .. N /\ n \in 1 .. N + 1
    BY <1>1, <1>2
  <2>2. n - 1 \in Nat /\ K \in SUBSET (1 .. n - 1)
    BY <1>2, <2>1
  <2>3. m \in 0 .. n - 1
    BY <2>2, MaxOrZero
  <2>4. LineTo(t, n) = SubSeq(t, m + 1, n - 1) /\ LineTo(text, n) = SubSeq(text, m + 1, n - 1)
    BY <1>4, <2>1 DEF LineTo
  <2> HIDE DEF m
  <2>5. m \in 0 .. Len(text) /\ n - 1 \in m .. Len(text)
    BY <1>1, <2>1, <2>3
  <2>6. SubSeq(Append(text, c), m + 1, n - 1) = SubSeq(text, m + 1, n - 1)
    BY <2>5, SubSeqOfAppend
  <2> QED
    BY <2>4, <2>6 DEF t
<1>6. ASSUME c = LF PROVE LineTo(t, N + 1) = Rest(text) /\ Rest(t) = <<>>
  <2>1. {k \in Ends(t) : k < N + 1} = Ends(text)
    <3>1. N + 1 \in 1 .. N + 1 /\ \A k \in Ends(text) : k < N + 1
      BY <1>1, <1>2
    <3> QED
      BY <1>4, <3>1
  <2>2. LineTo(t, N + 1) = SubSeq(t, M + 1, N) /\ Rest(text) = SubSeq(text, M + 1, N)
    <3>1. (N + 1) - 1 = N
      BY <1>1
    <3> QED
      BY <2>1, <3>1 DEF LineTo, Rest
  <2>3. M \in 0 .. Len(text) /\ N \in M .. Len(text)
    BY <1>1, <1>2
  <2>4. SubSeq(Append(text, c), M + 1, N) = SubSeq(text, M + 1, N)
    <3> HIDE DEF M
    <3> QED
      BY <2>3, SubSeqOfAppend
  <2>5. Max(Ends(t) \cup {0}) = N + 1
    <3>1. Ends(t) \in SUBSET (1 .. N + 1) /\ N + 1 \in Ends(t) \cup {0} /\ N + 1 \in Nat
          /\ \A i \in Ends(t) : i <= N + 1
      BY <1>1, <1>2, <1>3, <1>6
    <3> QED
      BY <3>1, MaxOrZero
  <2>6. Rest(t) = <<>>
    <3>1. Rest(t) = SubSeq(t, (N + 1) + 1, N + 1)
      BY <1>1, <2>5 DEF Rest
    <3>2. (N + 1) + 1 \in Int /\ N + 1 \in Int /\ N + 1 < (N + 1) + 1
      BY <1>1
    <3> QED
      BY <3>1, <3>2, SubSeqEmpty
  <2> QED
    BY <2>2, <2>4, <2>6 DEF t
<1>7. ASSUME c # LF PROVE Rest(t) = Append(Rest(text), c)
  <2>1. Ends(t) = Ends(text)
    BY <1>3, <1>7
  <2>2. Rest(t) = SubSeq(t, M + 1, N + 1) /\ Rest(text) = SubSeq(text, M + 1, N)
    BY <1>1, <2>1 DEF Rest
  <2>3. SubSeq(Append(text, c), M + 1, N + 1) = Append(SubSeq(text, M + 1, N), c)
    <3>1. M \in 0 .. Len(text)
      BY <1>2
    <3> HIDE DEF M
    <3> QED
      BY <3>1, LastOfAppend
  <2> QED
    BY <2>2, <2>3 DEF t
<1> QED
  BY <1>3, <1>5, <1>6, <1>7 DEF t, N

LEMMA EmittedJson ==
  ASSUME NEW given \in Seq(Json), NEW line
  PROVE  Handle(given, line) \in Seq(Json)
BY DEF Handle

\* A character that is no line end changes nothing for the handler.
LEMMA HandlesOther ==
  ASSUME NEW given \in Seq(Json), NEW text \in Seq(Char), Handles(given, text),
         NEW c \in Char, c # LF
  PROVE  Handles(given, Append(text, c))
<1> DEFINE t == Append(text, c)
<1>1. Ends(t) = Ends(text) /\ \A n \in Ends(text) : LineTo(t, n) = LineTo(text, n)
  BY LinesAppend, ZenonT(30)
<1> HIDE DEF t
<1>2. JsonEnds(t) = JsonEnds(text) /\ \A n \in JsonEnds(text) : LineTo(t, n) = LineTo(text, n)
  BY <1>1 DEF JsonEnds
<1> QED
  BY <1>2 DEF Handles, t

\* With a line end the handler is given the rest, if that is JSON.
LEMMA HandlesEnd ==
  ASSUME NEW given \in Seq(Json), NEW text \in Seq(Char), Handles(given, text),
         LF \in Char
  PROVE  Handles(Handle(given, Rest(text)), Append(text, LF))
<1> DEFINE t == Append(text, LF)
           N == Len(text)
           J == JsonEnds(text)
           line == Rest(text)
           e == Emitted(line)
           Upto(I, n) == {k \in I : k <= n}
<1>1. /\ Ends(t) = Ends(text) \cup {N + 1} /\ LineTo(t, N + 1) = line
      /\ \A n \in Ends(text) : LineTo(t, n) = LineTo(text, n)
  BY LinesAppend
<1>2. N \in Nat /\ J \in SUBSET (1 .. N) /\ J \in SUBSET Ends(text)
  BY EndsInterval
<1>3. /\ Len(given) = Cardinality(J)
      /\ \A n \in J : given[Cardinality(Upto(J, n))] = Emitted(LineTo(text, n))
  BY DEF Handles
<1>4. \A n \in J : LineTo(t, n) = LineTo(text, n)
  BY <1>1, <1>2
<1>5. JsonEnds(t) = J \cup (IF e \in Json THEN {N + 1} ELSE {})
  BY <1>1 DEF JsonEnds
<1>6. IsFiniteSet(J) /\ N + 1 \notin J /\ \A n \in J : n <= N /\ n < N + 1 /\ n \in Nat
  <2>1. IsFiniteSet(1 .. N)
    BY <1>2, FS_Interval
  <2>2. IsFiniteSet(J)
    BY <1>2, <2>1, FS_Subset
  <2> HIDE DEF J, N
  <2> QED
    BY <1>2, <2>2
<1> HIDE DEF J, N, e, line, t
<1>7. CASE e \notin Json
  <2>1. JsonEnds(t) = J /\ Handle(given, line) = given
    BY <1>5, <1>7 DEF Handle, e
  <2> QED
    BY <1>3, <1>4, <2>1 DEF Handles, line, t
<1>8. CASE e \in Json
  <2> DEFINE I == J \cup {N + 1}
             more == Append(given, e)
  <2>1. JsonEnds(t) = I /\ Handle(given, line) = more
    BY <1>5, <1>8 DEF Handle, e
  <2>2. Len(more) = Len(given) + 1 /\ Len(given) \in Nat
        /\ more[Len(given) + 1] = e /\ \A i \in 1 .. Len(given) : more[i] = given[i]
    BY <1>8
  <2>3. Cardinality(I) = Cardinality(J) + 1
    BY <1>6, FS_AddElement
  <2>4. Upto(I, N + 1) = I
    <3>1. \A k \in I : k <= N + 1
      BY <1>2, <1>6
    <3> QED
      BY <3>1
  <2>5. ASSUME NEW n \in J PROVE Upto(I, n) = Upto(J, n) /\ Cardinality(Upto(J, n)) \in 1 .. Len(given)
    <3>1. Upto(I, n) = Upto(J, n)
      <4>1. ~(N + 1 <= n)
        BY <1>2, <1>6
      <4> QED
        BY <4>1
    <3>2. n \in Upto(J, n) /\ Upto(J, n) \in SUBSET J
      BY <1>6
    <3> DEFINE U == Upto(J, n)
    <3> HIDE DEF U
    <3>3. IsFiniteSet(U) /\ Cardinality(U) <= Cardinality(J) /\ U # {}
      BY <1>6, <3>2, FS_Subset DEF U
    <3>4. Cardinality(U) \in Nat /\ Cardinality(U) # 0
      BY <3>3, FS_CardinalityType, FS_EmptySet
    <3>5. Cardinality(U) \in 1 .. Len(given)
      BY <1>3, <2>2, <3>3, <3>4
    <3> QED
      BY <3>1, <3>5 DEF U
  <2> HIDE DEF I, more
  <2>6. ASSUME NEW n \in I PROVE more[Cardinality(Upto(I, n))] = Emitted(LineTo(t, n))
    <3>1. CASE n \in J
      <4>1. more[Cardinality(Upto(J, n))] = given[Cardinality(Upto(J, n))]
        BY <2>2, <2>5, <3>1
      <4>2. Upto(I, n) = Upto(J, n)
        BY <2>5, <3>1
      <4>3. given[Cardinality(Upto(J, n))] = Emitted(LineTo(text, n)) /\ LineTo(t, n) = LineTo(text, n)
        BY <1>3, <1>4, <3>1
      <4> HIDE DEF Upto
      <4> QED
        BY <4>1, <4>2, <4>3
    <3>2. CASE n = N + 1
      <4>1. Upto(I, n) = I /\ Cardinality(I) = Len(given) + 1
        BY <1>3, <2>3, <2>4, <3>2
      <4> HIDE DEF Upto
      <4>2. more[Cardinality(Upto(I, n))] = e
        BY <2>2, <4>1
      <4> QED
        BY <1>1, <3>2, <4>2 DEF e
    <3> QED
      BY <3>1, <3>2 DEF I
  <2>7. Len(more) = Cardinality(I)
    BY <1>3, <2>2, <2>3
  <2>8. Handles(more, t)
    BY <2>1, <2>6, <2>7 DEF Handles
  <2> QED
    BY <2>1, <2>8 DEF line, t
<1> QED
  BY <1>7, <1>8

\* What the handler was given and what is kept after i characters of a text.
FeedStep(g, given, kept, text, i) ==
  IF i = 0 THEN [handled |-> given, rest |-> kept]
  ELSE IF text[i] = LF THEN [handled |-> Handle(g[i - 1].handled, g[i - 1].rest), rest |-> <<>>]
  ELSE [handled |-> g[i - 1].handled, rest |-> Append(g[i - 1].rest, text[i])]
Feeds(g, given, kept, text, n) == g = [i \in 0 .. n |-> FeedStep(g, given, kept, text, i)]

LEMMA FeedsExists ==
  ASSUME NEW given, NEW kept, NEW text, NEW n \in Nat
  PROVE  \E g : Feeds(g, given, kept, text, n)
<1> DEFINE Step(g, i) == FeedStep(g, given, kept, text, i)
           S == {k \in Nat : \E g : Feeds(g, given, kept, text, k)}
<1>1. 0 \in S
  <2> DEFINE g == [i \in 0 .. 0 |-> [handled |-> given, rest |-> kept]]
  <2>1. Feeds(g, given, kept, text, 0)
    BY DEF Feeds, FeedStep
  <2> QED
    BY <2>1
<1>2. ASSUME NEW k \in 0 .. n, k # n, k \in S PROVE k + 1 \in S
  <2>1. PICK g : Feeds(g, given, kept, text, k)
    BY <1>2
  <2> DEFINE h == [i \in 0 .. k + 1 |-> IF i = k + 1 THEN Step(g, k + 1) ELSE g[i]]
  <2>2. ASSUME NEW i \in 0 .. k + 1 PROVE h[i] = Step(h, i)
    <3>1. i # 0 => i - 1 \in 0 .. k /\ h[i - 1] = g[i - 1]
      OBVIOUS
    <3>2. Step(h, i) = Step(g, i)
      <4> HIDE DEF h
      <4> QED
        BY <3>1 DEF FeedStep
    <3>3. i # k + 1 => i \in 0 .. k /\ g[i] = Step(g, i)
      BY <2>1 DEF Feeds
    <3> QED
      BY <3>2, <3>3
  <2>3. Feeds(h, given, kept, text, k + 1)
    <3> DEFINE q == [i \in 0 .. k + 1 |-> Step(h, i)]
    <3>1. DOMAIN h = 0 .. k + 1 /\ DOMAIN q = 0 .. k + 1
      OBVIOUS
    <3>2. \A i \in 0 .. k + 1 : h[i] = q[i]
      BY <2>2
    <3>3. h = q
      BY <3>1, <3>2
    <3> QED
      BY <3>3 DEF Feeds
  <2> QED
    BY <2>3
<1> HIDE DEF S
<1>3. n \in S
  BY <1>1, <1>2, BoundedInduction
<1> QED
  BY <1>3 DEF S

LEMMA FeedResult ==
  ASSUME NEW given, NEW kept, NEW text, Len(text) \in Nat
  PROVE  \E g : Feeds(g, given, kept, text, Len(text)) /\ Feed(given, kept, text) = g[Len(text)]
<1> DEFINE g == CHOOSE h : h =
                  [i \in 0 .. Len(text) |->
                     IF i = 0 THEN [handled |-> given, rest |-> kept]
                     ELSE IF text[i] = LF
                     THEN [handled |-> Handle(h[i - 1].handled, h[i - 1].rest), rest |-> <<>>]
                     ELSE [handled |-> h[i - 1].handled, rest |-> Append(h[i - 1].rest, text[i])]]
<1>1. Feed(given, kept, text) = g[Len(text)]
  BY DEF Feed
<1>2. \E h : h =
        [i \in 0 .. Len(text) |->
           IF i = 0 THEN [handled |-> given, rest |-> kept]
           ELSE IF text[i] = LF
           THEN [handled |-> Handle(h[i - 1].handled, h[i - 1].rest), rest |-> <<>>]
           ELSE [handled |-> h[i - 1].handled, rest |-> Append(h[i - 1].rest, text[i])]]
  <2>1. PICK h : Feeds(h, given, kept, text, Len(text))
    BY FeedsExists
  <2>2. h = [i \in 0 .. Len(text) |->
               IF i = 0 THEN [handled |-> given, rest |-> kept]
               ELSE IF text[i] = LF
               THEN [handled |-> Handle(h[i - 1].handled, h[i - 1].rest), rest |-> <<>>]
               ELSE [handled |-> h[i - 1].handled, rest |-> Append(h[i - 1].rest, text[i])]]
    BY <2>1 DEF Feeds, FeedStep
  <2> QED
    BY <2>2
<1>3. Feeds(g, given, kept, text, Len(text))
  BY <1>2 DEF Feeds, FeedStep
<1> QED
  BY <1>1, <1>3

LEMMA PrefixStep ==
  ASSUME NEW S, NEW text \in Seq(S), NEW more \in Seq(S), NEW i \in 0 .. Len(more), i # Len(more)
  PROVE  text \o SubSeq(more, 1, i + 1) = Append(text \o SubSeq(more, 1, i), more[i + 1])
<1>1. /\ i + 1 \in 1 .. Len(more) /\ 1 \in 1 .. Len(more) /\ (i + 1) - 1 = i
      /\ more[i + 1] \in S /\ 0 \in 0 .. Len(more) /\ i \in 0 .. Len(more) /\ 0 + 1 = 1
  OBVIOUS
<1> DEFINE a == SubSeq(more, 1, i)
<1>2. SubSeq(more, 1, i + 1) = a \o <<more[i + 1]>>
  BY <1>1, SubSeqRecursiveSecond
<1>3. a \in Seq(S)
  BY <1>1, SubSeqBytes
<1> HIDE DEF a
<1> DEFINE e == more[i + 1]
<1>4. e \in S
  BY <1>1
<1> HIDE DEF e
<1> DEFINE l == text \o a
<1>5. l \in Seq(S) /\ <<e>> \in Seq(S)
  BY <1>3, <1>4
<1>6. l \o <<e>> = text \o (a \o <<e>>)
  BY <1>3, <1>5, ConcatAssociative, SMTT(30)
<1>7. Append(l, e) = l \o <<e>>
  BY <1>4, <1>5, AppendIsConcat
<1> HIDE DEF l
<1>8. text \o SubSeq(more, 1, i + 1) = Append(l, e)
  BY <1>2, <1>6, <1>7 DEF e
<1> QED
  BY <1>8 DEF l, a, e

\* Handing on one more text keeps the handler's lines those of all the text, and the
\* rest its rest.
LEMMA FeedText ==
  ASSUME NEW given \in Seq(Json), NEW text \in Seq(Char), Handles(given, text),
         NEW more \in Seq(Char), LF \in Char
  PROVE  /\ Feed(given, Rest(text), more).handled \in Seq(Json)
         /\ Handles(Feed(given, Rest(text), more).handled, text \o more)
         /\ Feed(given, Rest(text), more).rest = Rest(text \o more)
<1> DEFINE n == Len(more)
           P(i) == text \o SubSeq(more, 1, i)
<1>1. n \in Nat /\ n \in 0 .. n /\ 0 \in 0 .. n /\ \A i \in 1 .. n : more[i] \in Char
  OBVIOUS
<1>2. ASSUME NEW i \in 0 .. n PROVE P(i) \in Seq(Char)
  <2>1. 0 \in 0 .. Len(more) /\ i \in 0 .. Len(more) /\ 0 + 1 = 1
    OBVIOUS
  <2>2. SubSeq(more, 0 + 1, i) \in Seq(Char)
    BY <2>1, SubSeqBytes
  <2>3. SubSeq(more, 1, i) \in Seq(Char)
    BY <2>1, <2>2
  <2> QED
    BY <2>3, ConcatProperties
<1>3. P(0) = text /\ P(n) = text \o more
  <2>1. SubSeq(more, 1, 0) = <<>> /\ text \o <<>> = text
    BY ConcatEmptySeq, SubSeqEmpty
  <2>2. SubSeq(more, 1, n) = more
    BY SubSeqFull
  <2> QED
    BY <2>1, <2>2
<1>4. ASSUME NEW i \in 0 .. n, i # n PROVE P(i + 1) = Append(P(i), more[i + 1])
  BY <1>4, PrefixStep
<1>5. PICK g : Feeds(g, given, Rest(text), more, n) /\ Feed(given, Rest(text), more) = g[n]
  BY <1>1, FeedResult
<1>6. \A i \in 0 .. n : g[i] = FeedStep(g, given, Rest(text), more, i)
  BY <1>5 DEF Feeds
<1> HIDE DEF n, P
<1> DEFINE Good(i) == /\ g[i].handled \in Seq(Json)
                      /\ Handles(g[i].handled, P(i))
                      /\ g[i].rest = Rest(P(i))
           S == {i \in 0 .. n : Good(i)}
<1>7. 0 \in S
  <2>1. g[0] = [handled |-> given, rest |-> Rest(text)]
    BY <1>1, <1>6 DEF FeedStep
  <2>2. g[0].handled = given /\ g[0].rest = Rest(text)
    BY <2>1
  <2> QED
    BY <1>1, <1>3, <2>2
<1>8. ASSUME NEW i \in 0 .. n, i # n, i \in S PROVE i + 1 \in S
  <2>1. i + 1 \in 0 .. n /\ i + 1 \in 1 .. n /\ i + 1 # 0 /\ (i + 1) - 1 = i
    BY <1>1, <1>8
  <2> DEFINE c == more[i + 1]
             t == P(i)
             h == g[i].handled
             r == g[i].rest
  <2>2. /\ c \in Char /\ t \in Seq(Char) /\ P(i + 1) = Append(t, c)
        /\ h \in Seq(Json) /\ Handles(h, t) /\ r = Rest(t)
    BY <1>1, <1>2, <1>4, <1>8, <2>1
  <2>3. g[i + 1] = IF c = LF THEN [handled |-> Handle(h, r), rest |-> <<>>]
                   ELSE [handled |-> h, rest |-> Append(r, c)]
    BY <1>6, <2>1 DEF FeedStep
  <2> HIDE DEF c, t, h, r
  <2>4. CASE c = LF
    <3>1. g[i + 1].handled = Handle(h, r) /\ g[i + 1].rest = <<>>
      BY <2>3, <2>4
    <3>2. Handles(Handle(h, Rest(t)), Append(t, LF)) /\ Rest(Append(t, c)) = <<>>
      BY <2>2, <2>4, HandlesEnd, LinesAppend
    <3>3. Handle(h, r) \in Seq(Json)
      BY <2>2, EmittedJson
    <3> QED
      BY <2>1, <2>2, <2>4, <3>1, <3>2, <3>3
  <2>5. CASE c # LF
    <3>1. g[i + 1].handled = h /\ g[i + 1].rest = Append(r, c)
      BY <2>3, <2>5
    <3>2. Handles(h, Append(t, c)) /\ Rest(Append(t, c)) = Append(Rest(t), c)
      BY <2>2, <2>5, HandlesOther, LinesAppend
    <3> QED
      BY <2>1, <2>2, <3>1, <3>2
  <2> QED
    BY <2>4, <2>5
<1> HIDE DEF S
<1>9. n \in S
  <2>1. \A i \in 0 .. n : i # n /\ i \in S => i + 1 \in S
    BY <1>8
  <2> QED
    BY <1>1, <1>7, <2>1, BoundedInduction
<1> QED
  BY <1>3, <1>5, <1>9 DEF S
-----------------------------------------------------------------------------
(* The transport *)

\* How much of stdin has been read, and which part of it is still to come; what is
\* kept between chunks is what the bytes read so far leave over.
ReadCount == Len(start.stdin) - Len(stdin)

LinesInv ==
  /\ start \in Starts
  /\ Len(stdin) \in 0 .. Len(start.stdin)
  /\ stdin = SubSeq(start.stdin, ReadCount + 1, Len(start.stdin))
  /\ handled \in Seq(Json)
  /\ \/ /\ stdinAt = "open"
        /\ decoder = Undecoded(BytesRead) /\ buffer = Rest(Decoded(BytesRead))
     \/ stdinAt = "ended" /\ stdin = <<>>
  /\ MessagesAreLines

LEMMA StreamBytes ==
  ASSUME NEW call \in Starts
  PROVE  call.stdin \in Seq(Byte) /\ Consecutive(call.stdin)
BY StdinAssumption DEF IsUtf8, Consecutive, Byte, Char

LEMMA EndCharacters == LF \in Char /\ Replacement \in Char /\ LF # Replacement
BY CharactersAssumption DEF Char

LEMMA PairOfCharacters ==
  ASSUME NEW S, NEW c \in S, NEW d \in S
  PROVE  /\ <<c>> \in Seq(S) /\ <<d>> \in Seq(S)
         /\ <<c>> \o <<d>> = <<c, d>>
<1> DEFINE p == <<c>>
           q == <<d>>
           x == p \o q
           y == <<c, d>>
<1>1. p \in Seq(S) /\ q \in Seq(S) /\ Len(p) = 1 /\ Len(q) = 1 /\ p[1] = c /\ q[1] = d
  OBVIOUS
<1>2. y \in Seq(S) /\ Len(y) = 2 /\ y[1] = c /\ y[2] = d
  OBVIOUS
<1> HIDE DEF p, q, y
<1>3. x \in Seq(S) /\ Len(x) = 2 /\ x[1] = c /\ x[2] = d
  <2>1. /\ x \in Seq(S) /\ Len(x) = Len(p) + Len(q)
        /\ \A i \in 1 .. Len(p) : x[i] = p[i]
        /\ \A i \in 1 .. Len(q) : x[Len(p) + i] = q[i]
    BY <1>1, ConcatBytes
  <2>2. 1 \in 1 .. 1 /\ 1 + 1 = 2
    OBVIOUS
  <2> HIDE DEF x
  <2>3. x[1] = p[1] /\ x[1 + 1] = q[1]
    BY <1>1, <2>1, <2>2
  <2> QED
    BY <1>1, <2>1, <2>2, <2>3
<1> HIDE DEF x
<1>4. \A i \in 1 .. Len(x) : x[i] = y[i]
  <2>1. \A i \in 1 .. 2 : i = 1 \/ i = 2
    OBVIOUS
  <2> QED
    BY <1>2, <1>3, <2>1
<1>5. x = y
  BY <1>2, <1>3, <1>4, SeqEqual
<1> QED
  BY <1>1, <1>5 DEF p, q, x, y

LEMMA SuffixParts ==
  ASSUME NEW S, NEW s \in Seq(S), NEW k \in 0 .. Len(s), NEW n \in 0 .. Len(s) - k
  PROVE  /\ Len(SubSeq(s, k + 1, Len(s))) = Len(s) - k
         /\ SubSeq(SubSeq(s, k + 1, Len(s)), 1, n) = SubSeq(s, k + 1, k + n)
         /\ SubSeq(SubSeq(s, k + 1, Len(s)), n + 1, Len(s) - k) = SubSeq(s, (k + n) + 1, Len(s))
<1> DEFINE L == Len(s)
           p == SubSeq(s, k + 1, L)
           a == SubSeq(p, 1, n)
           b == SubSeq(s, k + 1, k + n)
           c == SubSeq(p, n + 1, L - k)
           d == SubSeq(s, (k + n) + 1, L)
<1>1. /\ L \in Nat /\ k \in 0 .. L /\ L \in k .. L /\ k + n \in k .. L /\ k + n \in 0 .. L
      /\ L \in k + n .. L /\ (k + n) - k = n /\ L - (k + n) = (L - k) - n
      /\ n \in 0 .. L - k /\ 0 \in 0 .. L - k /\ L - k \in n .. L - k /\ n - 0 = n /\ 0 + 1 = 1
      /\ n \in Nat /\ k \in Nat /\ L - k \in Nat /\ (L - k) - n \in Nat /\ n \in 0 .. n
  OBVIOUS
<1>2. p \in Seq(S) /\ Len(p) = L - k /\ \A i \in 1 .. L - k : p[i] = s[k + i]
  BY <1>1, SubSeqBytes, ZenonT(30)
<1>3. b \in Seq(S) /\ Len(b) = n /\ \A i \in 1 .. n : b[i] = s[k + i]
  <2>1. b \in Seq(S) /\ Len(b) = (k + n) - k /\ \A i \in 1 .. (k + n) - k : b[i] = s[k + i]
    BY <1>1, SubSeqBytes
  <2> HIDE DEF b
  <2> QED
    BY <1>1, <2>1
<1>4. d \in Seq(S) /\ Len(d) = (L - k) - n /\ \A i \in 1 .. (L - k) - n : d[i] = s[(k + n) + i]
  <2>1. d \in Seq(S) /\ Len(d) = L - (k + n) /\ \A i \in 1 .. L - (k + n) : d[i] = s[(k + n) + i]
    BY <1>1, SubSeqBytes, ZenonT(30)
  <2> HIDE DEF d
  <2> QED
    BY <1>1, <2>1
<1> HIDE DEF L, p, b, d
<1>5. a \in Seq(S) /\ Len(a) = n /\ \A i \in 1 .. n : a[i] = p[0 + i]
  <2>1. n \in 0 .. L - k /\ 0 \in 0 .. Len(p) /\ n \in 0 .. Len(p)
    BY <1>1, <1>2
  <2>2. SubSeq(p, 0 + 1, n) \in Seq(S) /\ Len(SubSeq(p, 0 + 1, n)) = n - 0
        /\ \A i \in 1 .. n - 0 : SubSeq(p, 0 + 1, n)[i] = p[0 + i]
    BY <1>2, <2>1, SubSeqBytes
  <2> QED
    BY <1>1, <2>2
<1>6. c \in Seq(S) /\ Len(c) = (L - k) - n /\ \A i \in 1 .. (L - k) - n : c[i] = p[n + i]
  <2>1. n \in 0 .. Len(p) /\ L - k \in n .. Len(p)
    BY <1>1, <1>2
  <2> QED
    BY <1>2, <2>1, SubSeqBytes
<1> HIDE DEF a, c
<1>7. ASSUME NEW i \in 1 .. n PROVE a[i] = b[i]
  <2>1. 0 + i = i /\ i \in 1 .. L - k
    BY <1>1
  <2> QED
    BY <1>2, <1>3, <1>5, <2>1
<1>8. ASSUME NEW i \in 1 .. (L - k) - n PROVE c[i] = d[i]
  <2>1. n + i \in 1 .. L - k /\ k + (n + i) = (k + n) + i
    BY <1>1
  <2>2. p[n + i] = s[(k + n) + i]
    BY <1>2, <2>1
  <2> QED
    BY <1>4, <1>6, <2>2
<1>9. a = b
  BY <1>3, <1>5, <1>7, SeqEqual
<1>10. c = d
  BY <1>4, <1>6, <1>8, SeqEqual
<1> QED
  BY <1>2, <1>9, <1>10 DEF a, b, c, d, p, L

LEMMA LinesUnchanged ==
  LinesInv /\ UNCHANGED <<start, stdin, stdinAt, decoder, buffer, handled>> => LinesInv'
<1> SUFFICES ASSUME LinesInv, UNCHANGED <<start, stdin, stdinAt, decoder, buffer, handled>>
             PROVE  LinesInv'
  OBVIOUS
<1>1. BytesRead' = BytesRead /\ ReadCount' = ReadCount
  BY DEF BytesRead, ReadCount
<1>2. TextRead' = TextRead
  BY <1>1 DEF TextRead
<1>3. MessagesAreLines'
  BY <1>2 DEF LinesInv, MessagesAreLines
<1> QED
  BY <1>1, <1>3 DEF LinesInv

LEMMA InitLines == Init => LinesInv
<1> SUFFICES ASSUME Init PROVE LinesInv
  OBVIOUS
<1> DEFINE s == start.stdin
<1>1. /\ start \in Starts /\ stdin = s /\ stdinAt = "open"
      /\ decoder = <<>> /\ buffer = <<>> /\ handled = <<>>
  BY DEF Init, InitStart, InitTransport
<1>2. s \in Seq(Byte)
  BY <1>1, StreamBytes
<1>3. Len(s) \in Nat /\ ReadCount = 0 /\ Len(s) - Len(s) = 0
  BY <1>1, <1>2 DEF ReadCount
<1>4. BytesRead = <<>>
  <2>1. BytesRead = SubSeq(s, 1, 0)
    BY <1>1, <1>3 DEF BytesRead
  <2> QED
    BY <2>1, SubSeqEmpty
<1>5. stdin = SubSeq(s, ReadCount + 1, Len(s))
  BY <1>1, <1>2, <1>3, SubSeqFull
<1>6. Lasts(<<>>) = {} /\ <<>> \in Seq(Byte) /\ <<>> \in Seq(Char) /\ <<>> \in Seq(Json) /\ Len(<<>>) = 0
  BY DEF Lasts
<1>7. Decoded(<<>>) = <<>>
  BY <1>6, NothingDecoded
<1>8. Undecoded(<<>>) = <<>> /\ Rest(<<>>) = <<>>
  <2>1. Ends(<<>>) = {} /\ {} \in SUBSET (1 .. 0) /\ 0 \in Nat
    BY DEF Ends
  <2>2. Max({} \cup {0}) = 0
    BY <2>1, MaxOrZero
  <2>3. SubSeq(<<>>, 0 + 1, 0) = <<>>
    BY SubSeqEmpty
  <2> QED
    BY <1>6, <2>1, <2>2, <2>3 DEF Undecoded, Rest
<1>9. TextRead = <<>>
  <2>1. <<>> \o <<>> = <<>>
    BY <1>6, ConcatEmptySeq
  <2> QED
    BY <1>1, <1>4, <1>7, <2>1 DEF TextRead
<1>10. MessagesAreLines
  <2>1. JsonEnds(<<>>) = {}
    BY DEF JsonEnds, Ends
  <2> QED
    BY <1>1, <1>6, <1>9, <2>1, FS_EmptySet DEF MessagesAreLines
<1> QED
  BY <1>1, <1>3, <1>4, <1>5, <1>6, <1>7, <1>8, <1>10 DEF LinesInv

\* A chunk: the bytes decoded with those kept are the text read beyond the text
\* before, and feeding the handler that text keeps the lines right.
LEMMA OnDataLines ==
  ASSUME LinesInv, NEW n \in DOMAIN stdin, OnData(n), start' = start
  PROVE  LinesInv'
<1> DEFINE s == start.stdin
           L == Len(s)
           k == ReadCount
           bytes == decoder \o SubSeq(stdin, 1, n)
           fed == Feed(handled, buffer, Decoded(bytes))
           B(j) == SubSeq(s, 1, j)
           text == Decoded(B(k))
<1>1. /\ start \in Starts /\ Len(stdin) \in 0 .. L /\ handled \in Seq(Json)
      /\ stdin = SubSeq(s, k + 1, L) /\ MessagesAreLines
  BY DEF LinesInv
<1>2. /\ decoder' = Undecoded(bytes) /\ buffer' = fed.rest /\ handled' = fed.handled
      /\ stdin' = SubSeq(stdin, n + 1, Len(stdin)) /\ stdinAt' = stdinAt
      /\ n \in 1 .. Len(stdin)
  BY DEF OnData
<1>3. s \in Seq(Byte) /\ Consecutive(s)
  BY <1>1, StreamBytes
<1>4. L \in Nat /\ k \in 0 .. L /\ Len(stdin) = L - k /\ n \in 1 .. L - k
      /\ n \in 0 .. L - k /\ k + n \in k .. L /\ k + n \in 0 .. L
  BY <1>1, <1>2, <1>3 DEF ReadCount
<1>5. /\ stdinAt = "open" /\ decoder = Undecoded(B(k)) /\ buffer = Rest(text)
      /\ BytesRead = B(k) /\ TextRead = text
  <2>1. stdin # <<>>
    BY <1>2, <1>4
  <2>2. BytesRead = B(k)
    BY DEF BytesRead, ReadCount
  <2>3. stdinAt = "open" /\ decoder = Undecoded(B(k)) /\ buffer = Rest(text)
    BY <2>1, <2>2 DEF LinesInv
  <2>4. B(k) \in Seq(Byte)
    <3>1. 0 \in 0 .. L /\ 0 + 1 = 1
      BY <1>4
    <3>2. SubSeq(s, 0 + 1, k) \in Seq(Byte)
      BY <1>3, <1>4, <3>1, SubSeqBytes
    <3> QED
      BY <3>1, <3>2
  <2>5. text \in Seq(Char)
    BY <2>4, DecodedType
  <2>6. TextRead = text \o <<>>
    BY <2>2, <2>3 DEF TextRead
  <2>7. text \o <<>> = text
    BY <2>5, ConcatEmptySeq
  <2> QED
    BY <2>2, <2>3, <2>6, <2>7
<1>6. /\ SubSeq(stdin, 1, n) = SubSeq(s, k + 1, k + n)
      /\ stdin' = SubSeq(s, (k + n) + 1, L) /\ Len(stdin') = L - (k + n)
  <2>1. /\ SubSeq(stdin, 1, n) = SubSeq(s, k + 1, k + n)
        /\ SubSeq(stdin, n + 1, L - k) = SubSeq(s, (k + n) + 1, L)
    BY <1>1, <1>3, <1>4, SuffixParts
  <2>2. Len(SubSeq(s, (k + n) + 1, L)) = L - (k + n)
    <3> DEFINE j == k + n
    <3>1. j \in 0 .. Len(s) /\ Len(s) \in j .. Len(s)
      BY <1>4
    <3> HIDE DEF j
    <3>2. Len(SubSeq(s, j + 1, Len(s))) = Len(s) - j
      BY <1>3, <3>1, SubSeqBytes
    <3> QED
      BY <3>2 DEF j
  <2> QED
    BY <1>2, <1>4, <2>1, <2>2
<1>7. /\ Decoded(B(k + n)) = text \o Decoded(bytes) /\ Undecoded(B(k + n)) = Undecoded(bytes)
      /\ bytes \in Seq(Byte)
  <2>1. bytes = Undecoded(SubSeq(s, 1, k)) \o SubSeq(s, k + 1, k + n)
    BY <1>5, <1>6
  <2> HIDE DEF bytes, k
  <2> QED
    BY <1>3, <1>4, <2>1, ChunkDecoded
<1>8. ReadCount' = k + n /\ BytesRead' = B(k + n)
  <2>1. Len(start'.stdin) = L /\ start'.stdin = s
    OBVIOUS
  <2>2. L - (L - (k + n)) = k + n
    BY <1>4
  <2> HIDE DEF k
  <2> QED
    BY <1>6, <2>1, <2>2 DEF ReadCount, BytesRead
<1>9. text \in Seq(Char) /\ Decoded(bytes) \in Seq(Char) /\ Handles(handled, text)
  <2>1. B(k) \in Seq(Byte)
    <3>1. 0 \in 0 .. L /\ 0 + 1 = 1
      BY <1>4
    <3>2. SubSeq(s, 0 + 1, k) \in Seq(Byte)
      BY <1>3, <1>4, <3>1, SubSeqBytes
    <3> QED
      BY <3>1, <3>2
  <2>2. Handles(handled, text)
    BY <1>1, <1>5 DEF MessagesAreLines, Handles
  <2> QED
    BY <1>7, <2>1, <2>2, DecodedType
<1>10. /\ fed.handled \in Seq(Json) /\ Handles(fed.handled, text \o Decoded(bytes))
       /\ fed.rest = Rest(text \o Decoded(bytes))
  <2> DEFINE more == Decoded(bytes)
  <2> HIDE DEF text, bytes, more
  <2>1. /\ Feed(handled, Rest(text), more).handled \in Seq(Json)
        /\ Handles(Feed(handled, Rest(text), more).handled, text \o more)
        /\ Feed(handled, Rest(text), more).rest = Rest(text \o more)
    BY <1>1, <1>9, FeedText, EndCharacters DEF more
  <2> QED
    BY <1>5, <2>1 DEF more
<1> HIDE DEF k, bytes, fed, text, B
<1>11. decoder' = Undecoded(BytesRead') /\ buffer' = Rest(Decoded(BytesRead'))
  BY <1>2, <1>7, <1>8, <1>10
<1>12. MessagesAreLines'
  <2>1. Decoded(BytesRead') \in Seq(Char)
    BY <1>7, <1>8, <1>9, ConcatProperties
  <2>2. TextRead' = Decoded(BytesRead') \o <<>>
    BY <1>2, <1>5 DEF TextRead
  <2>3. TextRead' = Decoded(BytesRead')
    BY <2>1, <2>2, ConcatEmptySeq
  <2>4. Handles(handled', TextRead')
    BY <1>2, <1>7, <1>8, <1>10, <2>3
  <2> QED
    BY <2>4 DEF MessagesAreLines, Handles
<1>13. Len(stdin') \in 0 .. Len(start'.stdin)
       /\ stdin' = SubSeq(start'.stdin, ReadCount' + 1, Len(start'.stdin))
  <2>1. L - (k + n) \in 0 .. L
    BY <1>4
  <2> QED
    BY <1>6, <1>8, <2>1
<1> QED
  BY <1>1, <1>2, <1>5, <1>10, <1>11, <1>12, <1>13 DEF LinesInv

\* The end of stdin ends a last line, with U+FFFD for a character that it cuts.
LEMMA OnEndLines ==
  ASSUME LinesInv, OnEnd, start' = start
  PROVE  LinesInv'
<1> DEFINE bytes == BytesRead
           text == Decoded(bytes)
           rest == buffer \o IF decoder = <<>> THEN <<>> ELSE <<Replacement>>
           all == IF decoder = <<>> THEN text ELSE Append(text, Replacement)
<1>1. /\ start \in Starts /\ Len(stdin) \in 0 .. Len(start.stdin) /\ handled \in Seq(Json)
      /\ stdin = SubSeq(start.stdin, ReadCount + 1, Len(start.stdin)) /\ MessagesAreLines
  BY DEF LinesInv
<1>2. /\ stdinAt = "open" /\ stdin = <<>> /\ stdin' = stdin /\ stdinAt' = "ended"
      /\ handled' = IF rest = <<>> THEN handled ELSE Handle(handled, rest)
  BY DEF OnEnd
<1>3. decoder = Undecoded(bytes) /\ buffer = Rest(text)
  BY <1>2 DEF LinesInv
<1>4. bytes \in Seq(Byte) /\ text \in Seq(Char)
  <2>1. start.stdin \in Seq(Byte)
    BY <1>1, StreamBytes
  <2>2. Len(start.stdin) \in Nat /\ Len(stdin) = 0
    BY <1>2, <2>1
  <2>3. bytes = start.stdin
    BY <2>1, <2>2, SubSeqFull DEF BytesRead
  <2> QED
    BY <2>1, <2>3, DecodedType
<1>5. Handles(handled, text)
  <2>1. TextRead = text \o <<>>
    BY <1>2 DEF TextRead
  <2>2. TextRead = text
    BY <1>4, <2>1, ConcatEmptySeq
  <2> QED
    BY <1>1, <2>2 DEF MessagesAreLines, Handles
<1>6. BytesRead' = bytes
  BY <1>2 DEF BytesRead
<1> HIDE DEF bytes, text
<1>7. all \in Seq(Char) /\ Handles(handled, all) /\ rest = Rest(all)
  <2>1. CASE decoder = <<>>
    <3>1. Rest(text) \in Seq(Char)
      BY <1>4, RestType
    <3>2. rest = Rest(text) \o <<>>
      BY <1>3, <2>1
    <3> QED
      BY <1>4, <1>5, <2>1, <3>1, <3>2, ConcatEmptySeq
  <2>2. CASE decoder # <<>>
    <3>1. Rest(text) \in Seq(Char)
      BY <1>4, RestType
    <3>2. rest = Rest(text) \o <<Replacement>> /\ all = Append(text, Replacement)
      BY <1>3, <2>2
    <3>3. Append(Rest(text), Replacement) = Rest(text) \o <<Replacement>>
      BY <3>1, EndCharacters, AppendIsConcat
    <3>4. Rest(Append(text, Replacement)) = Append(Rest(text), Replacement)
      BY <1>4, EndCharacters, LinesAppend
    <3>5. Handles(handled, Append(text, Replacement))
      BY <1>1, <1>4, <1>5, EndCharacters, HandlesOther
    <3>6. Append(text, Replacement) \in Seq(Char)
      BY <1>4, EndCharacters, AppendProperties
    <3> QED
      BY <3>2, <3>3, <3>4, <3>5, <3>6, Zenon
  <2> QED
    BY <2>1, <2>2
<1>8. TextRead' = Append(all, LF)
  <2>1. CASE decoder = <<>>
    <3>1. TextRead' = text \o <<LF>>
      BY <1>2, <1>3, <1>6, <2>1 DEF TextRead, text
    <3>2. Append(text, LF) = text \o <<LF>>
      BY <1>4, EndCharacters, AppendIsConcat
    <3> QED
      BY <2>1, <3>1, <3>2
  <2>2. CASE decoder # <<>>
    <3>1. TextRead' = text \o <<Replacement, LF>>
      BY <1>2, <1>3, <1>6, <2>2 DEF TextRead, text
    <3>2. all = text \o <<Replacement>>
      BY <1>4, <2>2, EndCharacters, AppendIsConcat
    <3>3. Append(all, LF) = all \o <<LF>>
      BY <1>7, EndCharacters, AppendIsConcat
    <3>4. <<Replacement>> \in Seq(Char) /\ <<LF>> \in Seq(Char)
          /\ <<Replacement>> \o <<LF>> = <<Replacement, LF>>
      <4>1. Replacement \in Char /\ LF \in Char
        BY EndCharacters
      <4> QED
        BY <4>1, PairOfCharacters
    <3>5. (text \o <<Replacement>>) \o <<LF>> = text \o (<<Replacement>> \o <<LF>>)
      BY <1>4, <3>4, ConcatAssociative
    <3> HIDE DEF all
    <3> QED
      BY <3>1, <3>2, <3>3, <3>4, <3>5, Zenon
  <2> QED
    BY <2>1, <2>2
<1> HIDE DEF all, rest
<1>9. handled' = Handle(handled, Rest(all))
  <2>1. Handle(handled, <<>>) = handled
    BY BlankAssumption DEF Handle, Emitted
  <2> QED
    BY <1>2, <1>7, <2>1
<1>10. Handles(handled', TextRead') /\ handled' \in Seq(Json)
  <2>1. Handles(Handle(handled, Rest(all)), Append(all, LF))
    BY <1>1, <1>7, EndCharacters, HandlesEnd
  <2>2. Handle(handled, Rest(all)) \in Seq(Json)
    BY <1>1, EmittedJson
  <2> QED
    BY <1>8, <1>9, <2>1, <2>2
<1>11. MessagesAreLines'
  BY <1>10 DEF MessagesAreLines, Handles
<1>12. Len(stdin') \in 0 .. Len(start'.stdin)
       /\ stdin' = SubSeq(start'.stdin, ReadCount' + 1, Len(start'.stdin))
  BY <1>1, <1>2 DEF ReadCount
<1> QED
  BY <1>1, <1>2, <1>10, <1>11, <1>12 DEF LinesInv

LEMMA NextLines == LinesInv /\ [Next]_vars => LinesInv'
<1> SUFFICES ASSUME LinesInv, [Next]_vars PROVE LinesInv'
  OBVIOUS
<1> DEFINE Still == UNCHANGED <<start, stdin, stdinAt, decoder, buffer, handled>>
<1>1. CASE UNCHANGED vars
  <2>1. Still
    BY <1>1 DEF vars, startVars, transportVars
  <2> QED
    BY <2>1, LinesUnchanged
<1>2. CASE Main
  <2>1. Still
    BY <1>2 DEF Main, Startup, ParseCliArgs, ParseOtterConfig, ResolveComponentOrExit, FindModel,
                LoadExtensions, ServeSession, Kinds, transportVars
  <2> QED
    BY <2>1, LinesUnchanged
<1>3. CASE CreateTransport \/ CreateRpcSession
  <2>1. Still
    BY <1>3 DEF CreateTransport, OpenTransport, CreateRpcSession, ServeSession, OnMessage,
                startVars, transportVars
  <2> QED
    BY <2>1, LinesUnchanged
<1>4. CASE \E n \in DOMAIN stdin : Read(n)
  <2>1. PICK n \in DOMAIN stdin : OnData(n) /\ start' = start
    BY <1>4 DEF Read, startVars
  <2> QED
    BY <2>1, OnDataLines
<1>5. CASE EndOfStdin
  BY <1>5, OnEndLines DEF EndOfStdin, startVars
<1>6. CASE Signal \/ AgentActs \/ DisposeSession \/ \E n \in DOMAIN handled : RunCommand(n)
  <2>1. Still
    BY <1>6 DEF Signal, AgentActs, DisposeSession, RunCommand, startVars, transportVars
  <2> QED
    BY <2>1, LinesUnchanged
<1>7. CASE Stop
  <2>1. Still
    BY <1>7 DEF Stop, Close
  <2> QED
    BY <2>1, LinesUnchanged
<1> QED
  BY <1>1, <1>2, <1>3, <1>4, <1>5, <1>6, <1>7 DEF Next

\* Whatever the chunks, the handler is given the lines read so far that are JSON.
THEOREM MessagesLines == Spec => []MessagesAreLines
<1>1. LinesInv => MessagesAreLines
  BY DEF LinesInv
<1> QED
  BY <1>1, InitLines, NextLines, PTL DEF Spec

-----------------------------------------------------------------------------
(* Configurations *)

\* What a tree has at a key.
Child(t, k) == IF IsObject(t) /\ k \in DOMAIN t.fields THEN t.fields[k] ELSE Leaf(None)

\* The keys of a path are followed one by one.
LEMMA TreeRun ==
  ASSUME NEW tree, NEW K, NEW p \in Seq(K)
  PROVE  \E g : /\ g[0] = tree
                /\ \A i \in 1 .. Len(p) : g[i] = Child(g[i - 1], p[i])
                /\ TreeAt(tree, p) = g[Len(p)]
<1> DEFINE n == Len(p)
           Step(v, i) == Child(v, p[i])
           Fold(f, k) == [s \in SUBSET (1 .. k) |-> IF s = {} THEN tree ELSE Step(f[s \ {Max(s)}], Max(s))]
           S == {k \in 0 .. n : \E f : f = Fold(f, k)}
           iter == CHOOSE f : f = Fold(f, n)
<1>1. n \in Nat /\ DOMAIN p = 1 .. n
  OBVIOUS
<1>2. TreeAt(tree, p) = iter[1 .. n]
  BY <1>1 DEF TreeAt, Child, FoldLeft, MapThenFoldSet
<1> HIDE DEF Step, n
<1>3. 0 \in S
  <2>1. 1 .. 0 = {} /\ 0 \in 0 .. n
    BY <1>1
  <2> DEFINE f == [s \in SUBSET (1 .. 0) |-> tree]
  <2>2. f = Fold(f, 0)
    BY <2>1
  <2> QED
    BY <2>1, <2>2
<1>4. ASSUME NEW k \in 0 .. n, k # n, k \in S PROVE k + 1 \in S
  <2>1. PICK f : f = Fold(f, k)
    BY <1>4
  <2> DEFINE m == k + 1
             h == [s \in SUBSET (1 .. m) |-> IF m \in s THEN Step(f[s \ {m}], m) ELSE f[s]]
  <2>2. m \in 0 .. n /\ m \in Nat /\ m \notin 1 .. k /\ 1 .. m = (1 .. k) \cup {m}
    <3>1. n \in Nat /\ k \in 0 .. n /\ k # n
      BY <1>1, <1>4
    <3> QED
      BY <3>1
  <2> HIDE DEF m
  <2>3. \A s \in SUBSET (1 .. m) : s \ {m} \in SUBSET (1 .. k) /\ (m \notin s => s \in SUBSET (1 .. k))
    BY <2>2
  <2>4. \A s \in SUBSET (1 .. m) : m \in s => Max(s) = m
    BY <2>2, MaxIsBound
  <2>5. h[{}] = tree
    BY <2>1
  <2>6. ASSUME NEW s \in SUBSET (1 .. m), s # {} PROVE h[s] = Step(h[s \ {Max(s)}], Max(s))
    <3>1. CASE m \in s
      <4>1. h[s] = Step(f[s \ {m}], m) /\ h[s \ {m}] = f[s \ {m}]
        BY <3>1
      <4> QED
        BY <2>4, <3>1, <4>1
    <3>2. CASE m \notin s
      <4>1. s \in SUBSET (1 .. k)
        BY <2>3, <3>2
      <4>2. f[s] = Step(f[s \ {Max(s)}], Max(s))
        BY <2>1, <2>6, <4>1
      <4>3. h[s] = f[s] /\ h[s \ {Max(s)}] = f[s \ {Max(s)}]
        BY <3>2
      <4> QED
        BY <4>2, <4>3
    <3> QED
      BY <3>1, <3>2
  <2>7. h = Fold(h, m)
    <3>1. \A s \in SUBSET (1 .. m) : h[s] = IF s = {} THEN tree ELSE Step(h[s \ {Max(s)}], Max(s))
      BY <2>5, <2>6
    <3>2. h = [s \in SUBSET (1 .. m) |-> h[s]]
      OBVIOUS
    <3> HIDE DEF h
    <3> QED
      BY <3>1, <3>2
  <2> HIDE DEF Fold, h
  <2> QED
    BY <2>2, <2>7 DEF m
<1>5. iter = Fold(iter, n)
  <2> HIDE DEF S, Fold
  <2>1. \A k \in 0 .. n : k \in S
    BY <1>1, <1>3, <1>4, BoundedInduction
  <2>2. n \in S
    BY <1>1, <2>1
  <2> QED
    BY <2>2 DEF S
<1> HIDE DEF iter
<1>6. ASSUME NEW i \in 1 .. n PROVE iter[1 .. i] = Step(iter[1 .. (i - 1)], i)
  <2>1. Max(1 .. i) = i /\ (1 .. i) \ {i} = 1 .. (i - 1) /\ 1 .. i # {}
    <3>1. i \in Nat /\ i # 0
      BY <1>1
    <3> QED
      BY <3>1, MaxOfInterval
  <2>2. 1 .. i \in SUBSET (1 .. n)
    BY <1>1
  <2>3. iter[1 .. i] = Fold(iter, n)[1 .. i]
    BY <1>5
  <2> QED
    BY <2>1, <2>2, <2>3
<1>7. iter[1 .. 0] = tree
  BY <1>5
<1> DEFINE g == [k \in 0 .. n |-> iter[1 .. k]]
<1>8. g[0] = tree /\ g[n] = iter[1 .. n] /\ \A i \in 1 .. n : g[i] = Step(g[i - 1], i)
  BY <1>1, <1>6, <1>7
<1> HIDE DEF g
<1> QED
  BY <1>2, <1>8 DEF n, Step

\* Key after key of a path.
LEMMA TreePrefixes ==
  ASSUME NEW tree, NEW K, NEW p \in Seq(K)
  PROVE  /\ TreeAt(tree, SubSeq(p, 1, 0)) = tree /\ SubSeq(p, 1, Len(p)) = p
         /\ \A i \in 1 .. Len(p) :
              TreeAt(tree, SubSeq(p, 1, i)) = Child(TreeAt(tree, SubSeq(p, 1, i - 1)), p[i])
<1>1. PICK g : /\ g[0] = tree
               /\ \A i \in 1 .. Len(p) : g[i] = Child(g[i - 1], p[i])
               /\ TreeAt(tree, p) = g[Len(p)]
  BY TreeRun, ZenonT(30)
<1>2. Len(p) \in Nat
  OBVIOUS
<1>3. ASSUME NEW i \in 0 .. Len(p) PROVE TreeAt(tree, SubSeq(p, 1, i)) = g[i]
  <2> DEFINE q == SubSeq(p, 1, i)
  <2>1. q \in Seq(K) /\ Len(q) = i /\ \A j \in 1 .. i : q[j] = p[j]
    BY <1>2
  <2> HIDE DEF q
  <2>7. \A s \in Seq(K) : \E g1 : /\ g1[0] = tree
                                  /\ \A j \in 1 .. Len(s) : g1[j] = Child(g1[j - 1], s[j])
                                  /\ TreeAt(tree, s) = g1[Len(s)]
    <3> TAKE s \in Seq(K)
    <3> QED
      BY TreeRun, ZenonT(30)
  <2>8. q \in Seq(K)
    BY <2>1
  <2>2. PICK h : /\ h[0] = tree
                 /\ \A j \in 1 .. Len(q) : h[j] = Child(h[j - 1], q[j])
                 /\ TreeAt(tree, q) = h[Len(q)]
    BY <2>7, <2>8, Zenon
  <2>9. i \in Nat
    BY <1>1, <1>2, <2>1
  <2>3. \A j \in 1 .. i : h[j - 1] = g[j - 1] => h[j] = g[j]
    <3> TAKE j \in 1 .. i
    <3>1. j \in 1 .. Len(p) /\ j \in 1 .. Len(q)
      BY <1>2, <2>1, <2>9
    <3>2. g[j] = Child(g[j - 1], p[j]) /\ h[j] = Child(h[j - 1], q[j]) /\ q[j] = p[j]
      BY <1>1, <2>1, <2>2, <3>1
    <3> QED
      BY <3>2
  <2>4. h[0] = g[0]
    BY <1>1, <2>2
  <2>5. \A j \in 0 .. i : h[j] = g[j]
    BY <2>3, <2>4, <2>9, RunsAgree, ZenonT(60)
  <2>6. i \in 0 .. i
    BY <2>9
  <2> QED
    BY <2>1, <2>2, <2>5, <2>6 DEF q
<1>4. \A i \in 1 .. Len(p) : i \in 0 .. Len(p) /\ i - 1 \in 0 .. Len(p)
  BY <1>2
<1>5. 0 \in 0 .. Len(p)
  BY <1>2
<1>6. SubSeq(p, 1, Len(p)) = p
  BY SubSeqFull
<1> QED
  BY <1>1, <1>3, <1>4, <1>5, <1>6

\* The nodes one level deeper.
Deeper(level) ==
  UNION {{<<Append(n[1], k), n[2].fields[k]>> : k \in DOMAIN n[2].fields} : n \in {m \in level : IsObject(m[2])}}

LEMMA NodesRun ==
  ASSUME NEW tree
  PROVE  /\ DOMAIN Nodes(tree) = 0 .. MaxDepth /\ Nodes(tree)[0] = {<< <<>>, tree >>}
         /\ \A d \in 1 .. MaxDepth : Nodes(tree)[d] = Deeper(Nodes(tree)[d - 1])
<1> DEFINE D == MaxDepth
           base == {<< <<>>, tree >>}
           Runs(f, k) == [d \in 0 .. k |-> IF d = 0 THEN base ELSE Deeper(f[d - 1])]
           S == {k \in 0 .. D : \E f : f = Runs(f, k)}
           nodes == CHOOSE f : f = Runs(f, D)
<1>1. D \in Nat
  BY DepthAssumption
<1>2. Nodes(tree) = nodes
  BY DEF Nodes, Deeper
<1> HIDE DEF D, base
<1>3. 0 \in S
  <2> DEFINE f == [d \in 0 .. 0 |-> base]
  <2>1. f = Runs(f, 0)
    BY Z3
  <2>2. 0 \in 0 .. D
    BY <1>1
  <2> QED
    BY <2>1, <2>2
<1>4. ASSUME NEW k \in 0 .. D, k # D, k \in S PROVE k + 1 \in S
  <2>1. PICK f : f = Runs(f, k)
    BY <1>4
  <2> DEFINE m == k + 1
             h == [d \in 0 .. m |-> IF d = m THEN Deeper(f[k]) ELSE f[d]]
  <2>2. m \in 0 .. D /\ m # 0 /\ m - 1 = k /\ k \in Nat
        /\ \A d \in 0 .. m : /\ d = m \/ d \in 0 .. k
                             /\ d # 0 => d - 1 \in 0 .. m /\ d - 1 # m
    BY <1>1, <1>4
  <2>3. h[0] = base
    BY <2>1, <2>2
  <2>4. \A d \in 0 .. m : d # 0 => h[d] = Deeper(h[d - 1])
    <3> SUFFICES ASSUME NEW d \in 0 .. m, d # 0 PROVE h[d] = Deeper(h[d - 1])
      OBVIOUS
    <3>1. h[d - 1] = f[d - 1]
      BY <2>2
    <3>2. CASE d = m
      BY <2>2, <3>1, <3>2
    <3>3. CASE d # m
      <4>1. d \in 0 .. k /\ h[d] = f[d]
        BY <2>2, <3>3
      <4>2. f[d] = Deeper(f[d - 1])
        BY <2>1, <4>1
      <4> QED
        BY <3>1, <4>1, <4>2
    <3> QED
      BY <3>2, <3>3
  <2>5. h = [d \in 0 .. m |-> h[d]]
    OBVIOUS
  <2> HIDE DEF h
  <2>6. h = Runs(h, m)
    BY <2>3, <2>4, <2>5
  <2> HIDE DEF Runs
  <2> QED
    BY <2>2, <2>6 DEF m
<1>5. nodes = Runs(nodes, D)
  <2> HIDE DEF S, Runs
  <2>1. \A k \in 0 .. D : k \in S
    BY <1>1, <1>3, <1>4, BoundedInduction
  <2>2. D \in S
    BY <1>1, <2>1
  <2> QED
    BY <2>2 DEF S
<1> HIDE DEF nodes
<1>6. DOMAIN nodes = 0 .. D /\ nodes[0] = base /\ \A d \in 1 .. D : nodes[d] = Deeper(nodes[d - 1])
  <2>1. 0 \in 0 .. D /\ \A d \in 1 .. D : d \in 0 .. D /\ d # 0
    BY <1>1
  <2> QED
    BY <1>5, <2>1
<1> QED
  BY <1>2, <1>6 DEF D, base

\* The trees that are so deep in a tree.
Depth(tree, d) == {n[2] : n \in Nodes(tree)[d]}

LEMMA DepthsOf ==
  ASSUME NEW tree, Nested(tree)
  PROVE  /\ tree \in Depth(tree, 0)
         /\ \A t : t \in SubTrees(tree) <=> \E d \in 0 .. MaxDepth : t \in Depth(tree, d)
         /\ \A d \in 0 .. MaxDepth : \A t \in Depth(tree, d) :
              /\ t # Leaf(None)
              /\ IsObject(t) => /\ d # MaxDepth
                                /\ \A k \in DOMAIN t.fields : t.fields[k] \in Depth(tree, d + 1)
<1> DEFINE N == Nodes(tree)
<1>1. /\ DOMAIN N = 0 .. MaxDepth /\ N[0] = {<< <<>>, tree >>}
      /\ \A d \in 1 .. MaxDepth : N[d] = Deeper(N[d - 1])
  BY NodesRun
<1>2. MaxDepth \in Nat
  BY DepthAssumption
<1>3. SubTrees(tree) = UNION {{n[2] : n \in level} : level \in {N[d] : d \in 0 .. MaxDepth}}
  BY <1>1 DEF SubTrees, Range
<1> HIDE DEF N
<1>4. tree \in Depth(tree, 0)
  BY <1>1 DEF Depth, N
<1>5. \A t : t \in SubTrees(tree) <=> \E d \in 0 .. MaxDepth : t \in Depth(tree, d)
  BY <1>3 DEF Depth, N
<1>6. ASSUME NEW d \in 0 .. MaxDepth, NEW t \in Depth(tree, d)
      PROVE  /\ t # Leaf(None)
             /\ IsObject(t) => /\ d # MaxDepth
                               /\ \A k \in DOMAIN t.fields : t.fields[k] \in Depth(tree, d + 1)
  <2>1. t # Leaf(None)
    BY <1>5 DEF Nested
  <2>2. PICK n \in N[d] : t = n[2]
    BY DEF Depth, N
  <2>3. ASSUME IsObject(t) PROVE d # MaxDepth
    BY <2>2, <2>3 DEF Nested, N
  <2>4. ASSUME IsObject(t), NEW k \in DOMAIN t.fields PROVE t.fields[k] \in Depth(tree, d + 1)
    <3>1. d + 1 \in 1 .. MaxDepth /\ (d + 1) - 1 = d
      BY <1>2, <2>3, <2>4
    <3>2. N[d + 1] = Deeper(N[d])
      BY <1>1, <3>1
    <3> DEFINE m == <<Append(n[1], k), n[2].fields[k]>>
    <3>3. m \in Deeper(N[d])
      BY <2>2, <2>4 DEF Deeper
    <3>4. m[2] = t.fields[k]
      BY <2>2
    <3> HIDE DEF m
    <3> QED
      BY <3>2, <3>3, <3>4 DEF Depth, N
  <2> QED
    BY <2>1, <2>3, <2>4
<1> QED
  BY <1>4, <1>5, <1>6

\* A path is a sequence of keys.
LEMMA PathsType ==
  ASSUME NEW tree
  PROVE  \E K : Paths(tree) \subseteq Seq(K)
<1> DEFINE N == Nodes(tree)
           D == MaxDepth
           K == UNION {DOMAIN n[2].fields : n \in UNION {N[d] : d \in 0 .. D}}
           S == {d \in 0 .. D : \A n \in N[d] : n[1] \in Seq(K)}
<1>1. /\ DOMAIN N = 0 .. D /\ N[0] = {<< <<>>, tree >>}
      /\ \A d \in 1 .. D : N[d] = Deeper(N[d - 1])
  BY NodesRun
<1>2. D \in Nat
  BY DepthAssumption
<1>3. Paths(tree) = UNION {{n[1] : n \in level} : level \in {N[d] : d \in 0 .. D}}
  BY <1>1 DEF Paths, Range
<1> HIDE DEF N, D
<1>4. 0 \in S
  <2>1. \A n \in N[0] : n[1] = <<>>
    BY <1>1
  <2> HIDE DEF K
  <2>2. <<>> \in Seq(K) /\ 0 \in 0 .. D
    BY <1>2
  <2> QED
    BY <2>1, <2>2
<1>5. ASSUME NEW d \in 0 .. D, d # D, d \in S PROVE d + 1 \in S
  <2>1. d + 1 \in 1 .. D /\ (d + 1) - 1 = d /\ d + 1 \in 0 .. D
    BY <1>2, <1>5
  <2>2. N[d + 1] = Deeper(N[d])
    BY <1>1, <2>1
  <2>3. ASSUME NEW n \in N[d + 1] PROVE n[1] \in Seq(K)
    <3>1. PICK m \in N[d] : \E k \in DOMAIN m[2].fields : n = <<Append(m[1], k), m[2].fields[k]>>
      BY <2>2, <2>3 DEF Deeper
    <3>2. PICK k \in DOMAIN m[2].fields : n = <<Append(m[1], k), m[2].fields[k]>>
      BY <3>1
    <3>3. k \in K /\ m[1] \in Seq(K)
      BY <1>5, <3>2
    <3>4. n[1] = Append(m[1], k)
      BY <3>2
    <3> HIDE DEF K
    <3> QED
      BY <3>3, <3>4
  <2> HIDE DEF K
  <2> QED
    BY <2>1, <2>3
<1> HIDE DEF S
<1>6. \A d \in 0 .. D : d \in S
  BY <1>2, <1>4, <1>5, BoundedInduction
<1>7. Paths(tree) \subseteq Seq(K)
  <2> HIDE DEF K
  <2> QED
    BY <1>3, <1>6 DEF S
<1> QED
  BY <1>7

\* What merging two trees gives, in terms of merging what they have at a key.
MergedAt(m, old, new) ==
  IF ~IsObject(old) \/ ~IsObject(new) THEN new
  ELSE Object([k \in DOMAIN old.fields \cup DOMAIN new.fields |->
                 CASE k \notin DOMAIN new.fields -> old.fields[k]
                   [] k \notin DOMAIN old.fields -> new.fields[k]
                   [] OTHER -> m[old.fields[k]][new.fields[k]]])

LEMMA MergedAtSame ==
  ASSUME NEW f, NEW g, NEW old, NEW new,
         IsObject(old) => \A k \in DOMAIN old.fields : f[old.fields[k]] = g[old.fields[k]]
  PROVE  MergedAt(f, old, new) = MergedAt(g, old, new)
<1>1. CASE ~IsObject(old) \/ ~IsObject(new)
  BY <1>1 DEF MergedAt
<1>2. CASE IsObject(old) /\ IsObject(new)
  <2> DEFINE K == DOMAIN old.fields \cup DOMAIN new.fields
             val(m, k) == CASE k \notin DOMAIN new.fields -> old.fields[k]
                           [] k \notin DOMAIN old.fields -> new.fields[k]
                           [] OTHER -> m[old.fields[k]][new.fields[k]]
  <2>1. \A k \in K : val(f, k) = val(g, k)
    BY <1>2
  <2>2. /\ MergedAt(f, old, new) = Object([k \in K |-> val(f, k)])
        /\ MergedAt(g, old, new) = Object([k \in K |-> val(g, k)])
    BY <1>2 DEF MergedAt
  <2> HIDE DEF val, K
  <2>3. [k \in K |-> val(f, k)] = [k \in K |-> val(g, k)]
    BY <2>1
  <2> QED
    BY <2>2, <2>3
<1> QED
  BY <1>1, <1>2

\* All the results of merging a tree of the target with one of the source.
Merges(m, target, source) ==
  /\ DeepMerge(target, source) = m[target][source]
  /\ \A old \in SubTrees(target), new \in SubTrees(source) : m[old][new] = MergedAt(m, old, new)

\* The recursion of deepMerge ends: it descends the target.
LEMMA MergedRun ==
  ASSUME NEW target, NEW source, Nested(target), Nested(source)
  PROVE  \E m : Merges(m, target, source)
<1> DEFINE A == SubTrees(target)
           B == SubTrees(source)
           D == MaxDepth
           Row(m, old) == [new \in B |-> MergedAt(m, old, new)]
           Low(h) == {t \in A : \E d \in D - h .. D : t \in Depth(target, d)}
           S == {h \in 0 .. D : \E f : \A t \in Low(h) : f[t] = Row(f, t)}
           m == CHOOSE f : f = [old \in A |-> Row(f, old)]
<1>1. D \in Nat
  BY DepthAssumption
<1>2. DeepMerge(target, source) = m[target][source]
  BY DEF DeepMerge, MergedAt
<1>3. /\ \A t : t \in A <=> \E d \in 0 .. D : t \in Depth(target, d)
      /\ \A d \in 0 .. D : \A t \in Depth(target, d) :
           IsObject(t) => d # D /\ \A k \in DOMAIN t.fields : t.fields[k] \in Depth(target, d + 1)
  BY DepthsOf
<1>4. ASSUME NEW f, NEW g, NEW t, IsObject(t) => \A k \in DOMAIN t.fields : f[t.fields[k]] = g[t.fields[k]]
      PROVE  Row(f, t) = Row(g, t)
  <2>1. \A new \in B : MergedAt(f, t, new) = MergedAt(g, t, new)
    BY <1>4, MergedAtSame
  <2> HIDE DEF B
  <2> QED
    BY <2>1
<1> HIDE DEF A, B, D, m, Row
\* What an object has is lower.
<1>5. ASSUME NEW h \in 0 .. D, NEW t \in Low(h), IsObject(t), NEW k \in DOMAIN t.fields
      PROVE  h # 0 /\ t.fields[k] \in Low(h - 1) /\ t.fields[k] \in Low(h)
  <2>1. PICK d \in D - h .. D : t \in Depth(target, d)
    OBVIOUS
  <2>2. d \in 0 .. D /\ d \in Nat /\ h \in Nat
    BY <1>1
  <2>3. d # D /\ t.fields[k] \in Depth(target, d + 1)
    BY <1>3, <1>5, <2>1, <2>2
  <2>4. h # 0 /\ d + 1 \in D - (h - 1) .. D /\ d + 1 \in D - h .. D /\ d + 1 \in 0 .. D
    BY <1>1, <2>1, <2>2, <2>3
  <2>5. t.fields[k] \in A
    BY <1>3, <2>3, <2>4
  <2> QED
    BY <2>3, <2>4, <2>5
<1>6. 0 \in S
  <2> DEFINE f == [t \in A |-> Row(t, t)]
  <2>1. ASSUME NEW t \in Low(0) PROVE f[t] = Row(f, t)
    <3>1. 0 \in 0 .. D
      BY <1>1
    <3>2. ~IsObject(t) \/ DOMAIN t.fields = {}
      BY <1>5, <2>1, <3>1
    <3>3. Row(t, t) = Row(f, t)
      <4> HIDE DEF f
      <4> QED
        BY <1>4, <3>2
    <3>4. t \in A
      BY <2>1
    <3> QED
      BY <3>3, <3>4
  <2> HIDE DEF f, Low
  <2>2. 0 \in 0 .. D
    BY <1>1
  <2> QED
    BY <2>1, <2>2
<1>7. ASSUME NEW h \in 0 .. D, h # D, h \in S PROVE h + 1 \in S
  <2>1. PICK f : \A t \in Low(h) : f[t] = Row(f, t)
    BY <1>7
  <2> DEFINE j == h + 1
             g == [t \in A |-> IF t \in Low(h) THEN f[t] ELSE Row(f, t)]
  <2>2. j \in 0 .. D /\ j - 1 = h
    BY <1>1, <1>7
  <2>3. \A t \in Low(h) : t \in A /\ g[t] = f[t]
    OBVIOUS
  <2> HIDE DEF j
  <2>4. ASSUME NEW t \in Low(j) PROVE g[t] = Row(g, t)
    <3>1. \A k : IsObject(t) /\ k \in DOMAIN t.fields => t.fields[k] \in Low(h)
      <4> HIDE DEF Low
      <4> QED
        BY <1>5, <2>2, <2>4
    <3>2. t \in A
      BY <2>4
    <3>3. g[t] = Row(f, t)
      BY <2>1, <3>2
    <3> HIDE DEF g, Low
    <3>4. IsObject(t) => \A k \in DOMAIN t.fields : f[t.fields[k]] = g[t.fields[k]]
      BY <2>3, <3>1
    <3> QED
      BY <1>4, <3>3, <3>4
  <2> HIDE DEF g, Low
  <2> QED
    BY <2>2, <2>4 DEF j
<1>8. \E f : f = [old \in A |-> Row(f, old)]
  <2> HIDE DEF S
  <2>1. \A h \in 0 .. D : h \in S
    BY <1>1, <1>6, <1>7, BoundedInduction
  <2>2. D \in S
    BY <1>1, <2>1
  <2>3. PICK f : \A t \in Low(D) : f[t] = Row(f, t)
    BY <2>2 DEF S
  <2>4. \A t \in A : t \in Low(D)
    <3>1. D - D = 0
      BY <1>1
    <3> QED
      BY <1>3, <3>1
  <2> DEFINE g == [t \in A |-> f[t]]
  <2>5. ASSUME NEW t \in A PROVE g[t] = Row(g, t)
    <3>1. IsObject(t) => \A k \in DOMAIN t.fields : t.fields[k] \in A
      <4>1. PICK d \in 0 .. D : t \in Depth(target, d)
        BY <1>3
      <4>2. IsObject(t) => d + 1 \in 0 .. D /\ \A k \in DOMAIN t.fields : t.fields[k] \in Depth(target, d + 1)
        BY <1>1, <1>3, <4>1
      <4> QED
        BY <1>3, <4>2
    <3>2. IsObject(t) => \A k \in DOMAIN t.fields : f[t.fields[k]] = g[t.fields[k]]
      BY <3>1
    <3>3. f[t] = Row(f, t)
      BY <2>3, <2>4
    <3>4. g[t] = f[t]
      OBVIOUS
    <3> HIDE DEF g
    <3> QED
      BY <1>4, <3>2, <3>3, <3>4
  <2>6. g = [old \in A |-> g[old]]
    OBVIOUS
  <2> HIDE DEF g
  <2>7. g = [old \in A |-> Row(g, old)]
    BY <2>5, <2>6
  <2> QED
    BY <2>7
<1>9. m = [old \in A |-> Row(m, old)]
  BY <1>8 DEF m
<1>10. \A old \in A, new \in B : m[old][new] = MergedAt(m, old, new)
  BY <1>9 DEF Row
<1> QED
  BY <1>2, <1>10 DEF Merges, A, B

\* What is in a tree.
LEMMA SubTreesClosed ==
  ASSUME NEW tree, Nested(tree)
  PROVE  /\ tree \in SubTrees(tree)
         /\ \A t \in SubTrees(tree) :
              t # Leaf(None) /\ (IsObject(t) => \A k \in DOMAIN t.fields : t.fields[k] \in SubTrees(tree))
<1>1. MaxDepth \in Nat
  BY DepthAssumption
<1>2. 0 \in 0 .. MaxDepth
  BY <1>1
<1>3. /\ tree \in Depth(tree, 0)
      /\ \A t : t \in SubTrees(tree) <=> \E d \in 0 .. MaxDepth : t \in Depth(tree, d)
      /\ \A d \in 0 .. MaxDepth : \A t \in Depth(tree, d) :
           /\ t # Leaf(None)
           /\ IsObject(t) => /\ d # MaxDepth
                             /\ \A k \in DOMAIN t.fields : t.fields[k] \in Depth(tree, d + 1)
  BY DepthsOf
<1>4. ASSUME NEW t \in SubTrees(tree)
      PROVE  t # Leaf(None) /\ (IsObject(t) => \A k \in DOMAIN t.fields : t.fields[k] \in SubTrees(tree))
  <2>1. PICK d \in 0 .. MaxDepth : t \in Depth(tree, d)
    BY <1>3
  <2>2. IsObject(t) => d + 1 \in 0 .. MaxDepth
    BY <1>1, <1>3, <2>1
  <2>3. IsObject(t) => \A k \in DOMAIN t.fields : t.fields[k] \in Depth(tree, d + 1)
    BY <1>3, <2>1
  <2> QED
    BY <1>3, <2>1, <2>2, <2>3
<1> QED
  BY <1>2, <1>3, <1>4

LEMMA ChildOfLeaf ==
  ASSUME NEW t, NEW k, ~IsObject(t)
  PROVE  Child(t, k) = Leaf(None)
BY DEF Child

LEMMA NothingIsLeaf == ~IsObject(Leaf(None))
BY DEF Leaf, IsObject

LEMMA ObjectFields ==
  ASSUME NEW f
  PROVE  IsObject(Object(f)) /\ Object(f).fields = f
BY DEF Object, IsObject

\* One key down in two trees and in what they are merged to.
LEMMA MergedChild ==
  ASSUME NEW m, NEW old, NEW new, NEW k, IsObject(old), IsObject(new)
  PROVE  LET t == Child(old, k)
             s == Child(new, k)
             r == Child(MergedAt(m, old, new), k)
         IN  /\ k \in DOMAIN old.fields /\ k \in DOMAIN new.fields =>
                  t = old.fields[k] /\ s = new.fields[k] /\ r = m[t][s]
             /\ k \in DOMAIN old.fields /\ k \notin DOMAIN new.fields => r = t /\ s = Leaf(None)
             /\ k \notin DOMAIN old.fields => r = s /\ t = Leaf(None)
<1> DEFINE K == DOMAIN old.fields \cup DOMAIN new.fields
           f == [j \in K |-> CASE j \notin DOMAIN new.fields -> old.fields[j]
                               [] j \notin DOMAIN old.fields -> new.fields[j]
                               [] OTHER -> m[old.fields[j]][new.fields[j]]]
           r == MergedAt(m, old, new)
<1>1. r = Object(f)
  BY DEF MergedAt
<1>2. /\ DOMAIN f = K
      /\ k \in DOMAIN old.fields /\ k \in DOMAIN new.fields => f[k] = m[old.fields[k]][new.fields[k]]
      /\ k \in DOMAIN old.fields /\ k \notin DOMAIN new.fields => f[k] = old.fields[k]
      /\ k \notin DOMAIN old.fields /\ k \in DOMAIN new.fields => f[k] = new.fields[k]
  OBVIOUS
<1> HIDE DEF f, r
<1>3. IsObject(r) /\ r.fields = f
  BY <1>1, ObjectFields
<1>4. Child(r, k) = IF k \in K THEN f[k] ELSE Leaf(None)
  BY <1>2, <1>3 DEF Child
<1>5. /\ Child(old, k) = IF k \in DOMAIN old.fields THEN old.fields[k] ELSE Leaf(None)
      /\ Child(new, k) = IF k \in DOMAIN new.fields THEN new.fields[k] ELSE Leaf(None)
  BY DEF Child
<1> QED
  BY <1>2, <1>4, <1>5 DEF r

\* What deepMerge gives, path by path: while both trees have objects they are merged, and from
\* there on the result is the source's tree, or the target's where the source says nothing.
LEMMA MergedHolds ==
  ASSUME NEW target, NEW source, Nested(target), Nested(source)
  PROVE  Merged(DeepMerge(target, source), target, source)
<1> DEFINE A == SubTrees(target)
           B == SubTrees(source)
           result == DeepMerge(target, source)
           Same(t, u) == t = u \/ (IsObject(t) /\ IsObject(u))
           Replaced(p) == \E n \in 0 .. Len(p) : ~IsObject(TreeAt(source, SubSeq(p, 1, n)))
                                                 /\ TreeAt(source, SubSeq(p, 1, n)) # Leaf(None)
<1>1. PICK m : Merges(m, target, source)
  BY MergedRun
<1>2. /\ target \in A
      /\ \A t \in A : t # Leaf(None) /\ (IsObject(t) => \A k \in DOMAIN t.fields : t.fields[k] \in A)
  BY SubTreesClosed
<1>3. /\ source \in B
      /\ \A t \in B : t # Leaf(None) /\ (IsObject(t) => \A k \in DOMAIN t.fields : t.fields[k] \in B)
  BY SubTreesClosed
<1>4. result = m[target][source] /\ \A old \in A, new \in B : m[old][new] = MergedAt(m, old, new)
  BY <1>1 DEF Merges
<1> HIDE DEF A, B, result
<1>5. ASSUME NEW K, NEW p \in Seq(K)
      PROVE  IF TreeAt(source, p) # Leaf(None) THEN Same(TreeAt(result, p), TreeAt(source, p))
             ELSE IF Replaced(p) THEN TreeAt(result, p) = Leaf(None)
             ELSE Same(TreeAt(result, p), TreeAt(target, p))
  <2> DEFINE n == Len(p)
             T(i) == TreeAt(target, SubSeq(p, 1, i))
             S(i) == TreeAt(source, SubSeq(p, 1, i))
             R(i) == TreeAt(result, SubSeq(p, 1, i))
             Covered(i) == \E j \in 0 .. i : ~IsObject(S(j)) /\ S(j) # Leaf(None)
             Both(i) == /\ T(i) \in A /\ S(i) \in B /\ R(i) = m[T(i)][S(i)]
                        /\ \A j \in 0 .. i : j # i => IsObject(S(j))
             Source(i) == R(i) = S(i) /\ (Covered(i) \/ T(i) = Leaf(None))
             Target(i) == R(i) = T(i) /\ S(i) = Leaf(None) /\ ~Covered(i)
             Walk == {i \in 0 .. n : Both(i) \/ Source(i) \/ Target(i)}
  <2>1. n \in Nat
    OBVIOUS
  <2>2. /\ T(0) = target /\ T(n) = TreeAt(target, p)
        /\ \A i \in 1 .. n : T(i) = Child(T(i - 1), p[i])
    BY TreePrefixes
  <2>3. /\ S(0) = source /\ S(n) = TreeAt(source, p)
        /\ \A i \in 1 .. n : S(i) = Child(S(i - 1), p[i])
    BY TreePrefixes
  <2>4. /\ R(0) = result /\ R(n) = TreeAt(result, p)
        /\ \A i \in 1 .. n : R(i) = Child(R(i - 1), p[i])
    BY TreePrefixes
  <2>5. Replaced(p) <=> Covered(n)
    OBVIOUS
  <2> HIDE DEF n, T, S, R, Replaced
  <2>6. 0 \in Walk
    <3>1. \A j \in 0 .. 0 : j = 0
      OBVIOUS
    <3>2. 0 \in 0 .. n
      BY <2>1
    <3> QED
      BY <1>2, <1>3, <1>4, <2>2, <2>3, <2>4, <3>1, <3>2
  <2>7. ASSUME NEW i \in 0 .. n, i # n, i \in Walk PROVE i + 1 \in Walk
    <3> DEFINE l == i + 1
               k == p[l]
    <3>1. l \in 1 .. n /\ l \in 0 .. n /\ l - 1 = i
      BY <2>1, <2>7
    <3>2. T(l) = Child(T(i), k) /\ S(l) = Child(S(i), k) /\ R(l) = Child(R(i), k)
      BY <2>2, <2>3, <2>4, <3>1
    <3>3. i \in 0 .. i /\ l \in 0 .. l /\ i \in 0 .. l /\ \A j \in 0 .. l : j = l \/ j \in 0 .. i
      BY <2>1
    <3>4. \A j \in 0 .. i : j \in 0 .. l
      BY <2>1
    <3> HIDE DEF l, k
    <3>5. CASE Both(i) /\ IsObject(T(i)) /\ IsObject(S(i))
      <4>1. R(i) = MergedAt(m, T(i), S(i))
        BY <1>4, <3>5
      <4>2. /\ k \in DOMAIN T(i).fields /\ k \in DOMAIN S(i).fields =>
                 T(l) = T(i).fields[k] /\ S(l) = S(i).fields[k] /\ R(l) = m[T(l)][S(l)]
            /\ k \in DOMAIN T(i).fields /\ k \notin DOMAIN S(i).fields => R(l) = T(l) /\ S(l) = Leaf(None)
            /\ k \notin DOMAIN T(i).fields => R(l) = S(l) /\ T(l) = Leaf(None)
        BY <3>2, <3>5, <4>1, MergedChild
      <4>3. \A j \in 0 .. l : j # l => IsObject(S(j))
        BY <3>3, <3>5
      <4>4. CASE k \in DOMAIN T(i).fields /\ k \in DOMAIN S(i).fields
        <5>1. T(l) \in A /\ S(l) \in B
          BY <1>2, <1>3, <3>5, <4>2, <4>4
        <5> QED
          BY <3>1, <4>2, <4>3, <4>4, <5>1
      <4>5. CASE k \in DOMAIN T(i).fields /\ k \notin DOMAIN S(i).fields
        <5>1. ~Covered(l)
          BY <4>2, <4>3, <4>5
        <5> QED
          BY <3>1, <4>2, <4>5, <5>1
      <4>6. CASE k \notin DOMAIN T(i).fields
        BY <3>1, <4>2, <4>6
      <4> QED
        BY <4>4, <4>5, <4>6
    <3>6. CASE Both(i) /\ ~(IsObject(T(i)) /\ IsObject(S(i)))
      <4>1. R(i) = S(i)
        BY <1>4, <3>6 DEF MergedAt
      <4>2. R(l) = S(l)
        BY <3>2, <4>1
      <4>3. CASE IsObject(S(i))
        <5>1. T(l) = Leaf(None)
          BY <3>2, <3>6, <4>3, ChildOfLeaf
        <5> QED
          BY <3>1, <4>2, <5>1
      <4>4. CASE ~IsObject(S(i))
        <5>1. S(i) # Leaf(None)
          BY <1>3, <3>6
        <5>2. Covered(l)
          BY <3>3, <4>4, <5>1
        <5> QED
          BY <3>1, <4>2, <5>2
      <4> QED
        BY <4>3, <4>4
    <3>7. CASE Source(i)
      <4>1. R(l) = S(l)
        BY <3>2, <3>7
      <4>2. Covered(i) => Covered(l)
        BY <3>4
      <4>3. T(i) = Leaf(None) => T(l) = Leaf(None)
        BY <3>2, ChildOfLeaf, NothingIsLeaf
      <4> QED
        BY <3>1, <3>7, <4>1, <4>2, <4>3
    <3>8. CASE Target(i)
      <4>1. R(l) = T(l)
        BY <3>2, <3>8
      <4>2. S(l) = Leaf(None)
        BY <3>2, <3>8, ChildOfLeaf, NothingIsLeaf
      <4>3. ~Covered(l)
        BY <3>3, <3>8, <4>2
      <4> QED
        BY <3>1, <4>1, <4>2, <4>3
    <3>10. Both(i) \/ Source(i) \/ Target(i)
      BY <2>7
    <3> HIDE DEF Both, Source, Target, Walk
    <3> QED
      BY <3>5, <3>6, <3>7, <3>8, <3>10
  <2>8. n \in Walk
    <3> HIDE DEF Walk
    <3>1. \A i \in 0 .. n : i \in Walk
      BY <2>1, <2>6, <2>7, BoundedInduction
    <3>2. n \in 0 .. n
      BY <2>1
    <3> QED
      BY <3>1, <3>2
  <2>9. CASE Both(n)
    <3>1. S(n) # Leaf(None)
      BY <1>3, <2>9
    <3>2. R(n) = MergedAt(m, T(n), S(n))
      BY <1>4, <2>9
    <3>3. Same(R(n), S(n))
      BY <3>2, ObjectFields DEF MergedAt
    <3> QED
      BY <2>3, <2>4, <3>1, <3>3
  <2>10. CASE Source(n)
    BY <2>2, <2>3, <2>4, <2>5, <2>10
  <2>11. CASE Target(n)
    BY <2>2, <2>3, <2>4, <2>5, <2>11
  <2> QED
    BY <2>8, <2>9, <2>10, <2>11
<1>6. ASSUME NEW p \in Paths(result) \cup Paths(target) \cup Paths(source)
      PROVE  \E K : p \in Seq(K)
  <2>1. /\ \E K : Paths(result) \subseteq Seq(K)
        /\ \E K : Paths(target) \subseteq Seq(K)
        /\ \E K : Paths(source) \subseteq Seq(K)
    BY PathsType
  <2> QED
    BY <1>6, <2>1
<1>7. ASSUME NEW p \in Paths(result) \cup Paths(target) \cup Paths(source)
      PROVE  IF TreeAt(source, p) # Leaf(None) THEN Same(TreeAt(result, p), TreeAt(source, p))
             ELSE IF Replaced(p) THEN TreeAt(result, p) = Leaf(None)
             ELSE Same(TreeAt(result, p), TreeAt(target, p))
  <2> HIDE DEF Same, Replaced
  <2> QED
    BY <1>5, <1>6
<1> QED
  BY <1>7 DEF Merged, result

LEMMA EmptyNested == Nested(Object(<<>>))
<1> DEFINE tree == Object(<<>>)
           N == Nodes(tree)
           D == MaxDepth
           S == {d \in 0 .. D : d # 0 => N[d] = {}}
<1>1. /\ DOMAIN N = 0 .. D /\ N[0] = {<< <<>>, tree >>}
      /\ \A d \in 1 .. D : N[d] = Deeper(N[d - 1])
  BY NodesRun
<1>2. D \in Nat /\ D # 0
  BY DepthAssumption
<1>3. IsObject(tree) /\ DOMAIN tree.fields = {}
  BY ObjectFields
<1>4. SubTrees(tree) = UNION {{n[2] : n \in level} : level \in {N[d] : d \in 0 .. D}}
  BY <1>1 DEF SubTrees, Range
<1>5. \A n \in N[0] : n[2] = tree
  BY <1>1
<1> HIDE DEF N, D, tree
<1>6. Deeper(N[0]) = {} /\ Deeper({}) = {}
  BY <1>3, <1>5 DEF Deeper
<1>7. 0 \in S
  BY <1>2
<1>8. ASSUME NEW d \in 0 .. D, d # D, d \in S PROVE d + 1 \in S
  <2>1. d + 1 \in 1 .. D /\ (d + 1) - 1 = d /\ d + 1 \in 0 .. D
    BY <1>2, <1>8
  <2> QED
    BY <1>1, <1>6, <1>8, <2>1
<1>9. \A d \in 0 .. D : d \in S
  <2> HIDE DEF S
  <2> QED
    BY <1>2, <1>7, <1>8, BoundedInduction
<1>10. tree # Leaf(None)
  BY <1>3, NothingIsLeaf
<1>11. \A t \in SubTrees(tree) : t # Leaf(None)
  BY <1>4, <1>5, <1>9, <1>10
<1>12. N[D] = {}
  BY <1>2, <1>9
<1> QED
  BY <1>11, <1>12 DEF Nested, N, D, tree

Settings(ref) == IF ref.config = None THEN Object(<<>>) ELSE ref.config

\* A component that could be resolved is its template's, from the template's defaults under the
\* settings of the reference.
LEMMA ResolvedComponent ==
  ASSUME NEW kind \in Kinds, NEW ref, ref.config # None => Nested(ref.config),
         NEW component, component = ResolveComponentFromReference(kind, ref), component.ok
  PROVE  /\ component.template = Template(kind, ref).name
         /\ Merged(component.config, Template(kind, ref).defaults, Settings(ref))
<1> DEFINE template == Template(kind, ref)
           given == Settings(ref)
<1>1. ~Failed.ok
  BY DEF Failed
<1>0. ref.type = "object"
  BY <1>1 DEF ResolveComponentFromReference
<1>2. component = ValidateComponentConfig(template, given) /\ Nested(template.defaults)
  <2>1. CASE ref.name # None
    <3>1. ref.name \in DOMAIN Registry[kind] /\ template = Registry[kind][ref.name]
      BY <1>0, <1>1, <2>1 DEF ResolveComponentFromReference, Template
    <3>2. component = ValidateComponentConfig(Registry[kind][ref.name], given)
      BY <1>0, <2>1, <3>1 DEF ResolveComponentFromReference, Settings
    <3>3. Nested(Registry[kind][ref.name].defaults)
      BY <3>1, ConfigurationAssumption
    <3> HIDE DEF template, given
    <3> QED
      BY <3>1, <3>2, <3>3
  <2>2. CASE ref.name = None
    <3> DEFINE module == LoadComponentTemplate(ref.filepath)
               path == ResolveTemplatePath(ref.filepath)
    <3>1. module.export = "template" /\ component = ValidateComponentConfig(module.template, given)
      BY <1>0, <1>1, <2>2 DEF ResolveComponentFromReference, Settings
    <3>2. path \in DOMAIN Modules /\ module = Modules[path]
      BY <3>1 DEF LoadComponentTemplate
    <3>3. template = module.template
      BY <2>2, <3>2 DEF Template
    <3>4. Nested(module.template.defaults)
      BY <3>1, <3>2, ConfigurationAssumption
    <3> HIDE DEF template, given, module
    <3> QED
      BY <3>1, <3>3, <3>4
  <2> QED
    BY <2>1, <2>2
<1>3. Nested(given)
  BY EmptyNested DEF Settings
<1> HIDE DEF template, given
<1> DEFINE config == DeepMerge(template.defaults, given)
<1>4. component = [ok |-> TRUE, template |-> template.name, config |-> config]
  BY <1>1, <1>2 DEF ValidateComponentConfig
<1>5. Merged(config, template.defaults, given)
  BY <1>2, <1>3, MergedHolds
<1> HIDE DEF config
<1>6. component.template = template.name /\ component.config = config
  BY <1>4
<1> QED
  BY <1>5, <1>6 DEF template, given
-----------------------------------------------------------------------------
(* Starting *)

Refs == Value("extensions")

\* What a reference to an extension adds to what is loaded.
Part(n) == IF ResolveComponentFromReference("extension", Refs[n]).ok THEN <<Refs[n]>> ELSE <<>>

BuiltAs(kind) ==
  /\ built[kind].template = Template(kind, Value(kind)).name
  /\ Merged(built[kind].config, Template(kind, Value(kind)).defaults, Settings(Value(kind)))

\* The extensions loaded are those of the references tried.
StartInv ==
  /\ start \in Starts
  /\ built = [kind \in Kinds |-> built[kind]]
  /\ at \notin {"arguments", "config", "exited"} => ValidConfig(start.file)
  /\ \A kind \in Kinds : built[kind] # None => BuiltAs(kind)
  /\ at \notin {"extensions", "session", "serving", "exited"} => loaded = <<>> /\ tried = 0
  /\ at \in {"extensions", "session", "serving"} =>
       /\ tried \in 0 .. Len(Refs)
       /\ loaded = FlattenSeq(SubSeq([n \in DOMAIN Refs |-> Part(n)], 1, tried))
  /\ at \in {"session", "serving"} => tried = Len(Refs)

LEMMA ExtensionsList ==
  ASSUME start \in Starts, ValidConfig(start.file)
  PROVE  Refs \in Seq(Range(Refs)) /\ \A kind \in Kinds :
           Value(kind).type = "object" /\ Value(kind).config # None => Nested(Value(kind).config)
BY ConfigurationAssumption DEF Value, Refs

LEMMA PartsType ==
  ASSUME Refs \in Seq(Range(Refs))
  PROVE  /\ [n \in DOMAIN Refs |-> Part(n)] \in Seq(Seq(Range(Refs)))
         /\ Len([n \in DOMAIN Refs |-> Part(n)]) = Len(Refs) /\ Len(Refs) \in Nat
<1> DEFINE E == Range(Refs)
           parts == [n \in DOMAIN Refs |-> Part(n)]
<1>1. Len(Refs) \in Nat /\ DOMAIN Refs = 1 .. Len(Refs) /\ \A n \in 1 .. Len(Refs) : Refs[n] \in E
  OBVIOUS
<1> HIDE DEF E
<1>2. \A n \in 1 .. Len(Refs) : Part(n) \in Seq(E)
  BY <1>1 DEF Part
<1>3. parts = [n \in 1 .. Len(Refs) |-> Part(n)]
  BY <1>1
<1>4. parts \in [1 .. Len(Refs) -> Seq(E)]
  BY <1>2, <1>3
<1> HIDE DEF parts
<1>5. parts \in Seq(Seq(E)) /\ Len(parts) = Len(Refs)
  BY <1>1, <1>4
<1> QED
  BY <1>1, <1>5 DEF parts, E

LEMMA NextIndex ==
  ASSUME NEW E, NEW s \in Seq(E), NEW i \in 0 .. Len(s), i # Len(s)
  PROVE  i + 1 \in DOMAIN s
OBVIOUS

\* One more reference is tried.
LEMMA OneMore ==
  ASSUME Refs \in Seq(Range(Refs)), NEW t \in 0 .. Len(Refs), t # Len(Refs)
  PROVE  FlattenSeq(SubSeq([n \in DOMAIN Refs |-> Part(n)], 1, t + 1))
           = FlattenSeq(SubSeq([n \in DOMAIN Refs |-> Part(n)], 1, t)) \o Part(t + 1)
<1> DEFINE E == Range(Refs)
           S == Seq(E)
           parts == [n \in DOMAIN Refs |-> Part(n)]
           p == SubSeq(parts, 1, t)
<1>1. parts \in Seq(S) /\ Len(parts) = Len(Refs) /\ Len(Refs) \in Nat
  BY PartsType
<1>2. parts[t + 1] = Part(t + 1)
  <2>1. t + 1 \in DOMAIN Refs
    BY NextIndex
  <2> QED
    BY <2>1
<1> HIDE DEF S, parts
<1>3. p \in Seq(S) /\ parts[t + 1] \in S /\ SubSeq(parts, 1, t + 1) = Append(p, parts[t + 1])
  BY <1>1, PrefixAppend
<1> DEFINE e == parts[t + 1]
<1> HIDE DEF p, e, E
<1>4. FlattenSeq(Append(p, e)) = FlattenSeq(p) \o e
  BY <1>3, FlattenAppend DEF S, e
<1>5. FlattenSeq(SubSeq(parts, 1, t + 1)) = FlattenSeq(p) \o e
  BY <1>3, <1>4 DEF e
<1> QED
  BY <1>2, <1>5 DEF p, parts, e

LEMMA NothingTried ==
  ASSUME Refs \in Seq(Range(Refs))
  PROVE  FlattenSeq(SubSeq([n \in DOMAIN Refs |-> Part(n)], 1, 0)) = <<>>
<1> DEFINE parts == [n \in DOMAIN Refs |-> Part(n)]
<1>1. parts \in Seq(Seq(Range(Refs)))
  BY PartsType
<1> HIDE DEF parts
<1>2. SubSeq(parts, 1, 0) = <<>>
  BY <1>1
<1>3. FlattenSeq(SubSeq(parts, 1, 0)) = <<>>
  BY <1>2, FlattenNil
<1> QED
  BY <1>3 DEF parts

LEMMA InitStarts == Init => StartInv
BY DEF Init, InitStart, StartInv

LEMMA StartUnchanged == ASSUME StartInv, UNCHANGED startVars PROVE StartInv'
BY DEF StartInv, startVars, BuiltAs, Value, Refs, Part

\* The process may end at any point.
LEMMA StartEnds ==
  ASSUME StartInv, at' = "exited", UNCHANGED <<start, built>> PROVE StartInv'
BY DEF StartInv, BuiltAs, Value

LEMMA ResolveStarts == ASSUME StartInv, NEW kind \in Kinds, ResolveComponentOrExit(kind) PROVE StartInv'
<1> DEFINE component == ResolveComponentFromReference(kind, Value(kind))
<1>1. CASE at' = "exited" /\ UNCHANGED <<start, built>>
  BY <1>1, StartEnds
<1>2. CASE /\ component.ok /\ at' = After[kind]
           /\ built' = [built EXCEPT ![kind] = component]
  <2>1. at = kind /\ UNCHANGED <<start, loaded, tried>> /\ kind \in {"environment", "session-manager", "auth-storage"}
    BY DEF ResolveComponentOrExit, Kinds
  <2>2. at' \in {"session-manager", "auth-storage", "model"}
    BY <1>2, <2>1 DEF After, Kinds
  <2>3. ValidConfig(start.file) /\ start \in Starts /\ loaded = <<>> /\ tried = 0
    BY <2>1 DEF StartInv
  <2>4. Value(kind).config # None => Nested(Value(kind).config)
    <3>1. Value(kind).type = "object"
      BY <1>2 DEF ResolveComponentFromReference, Failed
    <3> QED
      BY <2>3, <3>1, ExtensionsList
  <2>5. /\ component.template = Template(kind, Value(kind)).name
        /\ Merged(component.config, Template(kind, Value(kind)).defaults, Settings(Value(kind)))
    <3> DEFINE v == Value(kind)
               c == component
    <3>1. c = ResolveComponentFromReference(kind, v) /\ c.ok /\ (v.config # None => Nested(v.config))
      BY <1>2, <2>4
    <3> HIDE DEF v, c
    <3>2. c.template = Template(kind, v).name /\ Merged(c.config, Template(kind, v).defaults, Settings(v))
      BY <3>1, ResolvedComponent
    <3> QED
      BY <3>2 DEF v, c
  <2> HIDE DEF component
  <2>6. built'[kind] = component /\ \A k \in Kinds : k # kind => built'[k] = built[k]
    BY <1>2 DEF StartInv
  <2>7. built' = [k \in Kinds |-> built'[k]]
    BY <1>2 DEF StartInv
  <2>8. \A k : Value(k)' = Value(k)
    BY <2>1 DEF Value
  <2>9. ASSUME NEW k \in Kinds, built'[k] # None PROVE BuiltAs(k)'
    <3>1. CASE k = kind
      BY <2>5, <2>6, <2>8, <3>1 DEF BuiltAs
    <3>2. CASE k # kind
      <4>1. built'[k] = built[k] /\ BuiltAs(k)
        BY <2>6, <2>9, <3>2 DEF StartInv
      <4> QED
        BY <2>8, <4>1 DEF BuiltAs
    <3> QED
      BY <3>1, <3>2
  <2> QED
    BY <2>1, <2>2, <2>3, <2>7, <2>9 DEF StartInv
<1> QED
  BY <1>1, <1>2 DEF ResolveComponentOrExit, Exit, Proceed

LEMMA LoadStarts == ASSUME StartInv, LoadExtensions PROVE StartInv'
<1> DEFINE ref == Refs[tried + 1]
           ok == ResolveComponentFromReference("extension", ref).ok
           L(t) == FlattenSeq(SubSeq([n \in DOMAIN Refs |-> Part(n)], 1, t))
<1>1. /\ at = "extensions" /\ start \in Starts /\ ValidConfig(start.file) /\ UNCHANGED <<start, built>>
      /\ tried \in 0 .. Len(Refs) /\ loaded = L(tried)
  BY DEF LoadExtensions, StartInv
<1>2. Refs \in Seq(Range(Refs))
  BY <1>1, ExtensionsList
<1>3. Refs' = Refs /\ \A n : Part(n)' = Part(n)
  BY <1>1 DEF Refs, Value, Part
<1>4. \A t : FlattenSeq(SubSeq([n \in DOMAIN Refs' |-> Part(n)'], 1, t)) = L(t)
  BY <1>3
<1>5. /\ start' \in Starts /\ ValidConfig(start'.file) /\ built' = [kind \in Kinds |-> built'[kind]]
      /\ \A kind \in Kinds : built'[kind] # None => BuiltAs(kind)'
  BY <1>1 DEF StartInv, BuiltAs, Value
<1> HIDE DEF L
<1>6. CASE /\ tried < Len(Refs) /\ tried' = tried + 1 /\ UNCHANGED at
           /\ loaded' = IF ok THEN Append(loaded, ref) ELSE loaded
  <2>1. L(tried + 1) = L(tried) \o Part(tried + 1) /\ tried + 1 \in 0 .. Len(Refs)
    <3>1. tried # Len(Refs) /\ tried + 1 \in 0 .. Len(Refs)
      BY <1>1, <1>2, <1>6
    <3> QED
      BY <1>1, <1>2, <3>1, OneMore DEF L
  <2>2. loaded' = L(tried + 1)
    <3> DEFINE E == Range(Refs)
               l == L(tried)
    <3>1. ref \in E /\ l \in Seq(E)
      <4>1. ref \in E
        BY <1>1, <1>2, <1>6
      <4>2. \A t \in 0 .. Len(Refs) : L(t) \in Seq(Range(Refs))
        <5> DEFINE S == Seq(E)
                   parts == [n \in DOMAIN Refs |-> Part(n)]
        <5>1. parts \in Seq(S) /\ Len(parts) = Len(Refs) /\ Len(Refs) \in Nat
          BY <1>2, PartsType
        <5> HIDE DEF E, parts
        <5>2. ASSUME NEW t \in 0 .. Len(Refs) PROVE SubSeq(parts, 1, t) \in Seq(S)
          <6> HIDE DEF S
          <6> QED
            BY <5>1
        <5>3. ASSUME NEW t \in 0 .. Len(Refs) PROVE FlattenSeq(SubSeq(parts, 1, t)) \in Seq(E)
          BY <5>2, FlattenType
        <5> QED
          BY <5>3 DEF L, parts, E
      <4> QED
        BY <1>1, <4>1, <4>2
    <3>2. Part(tried + 1) = IF ok THEN <<ref>> ELSE <<>>
      BY DEF Part
    <3> HIDE DEF E, l, ref, ok
    <3>3. l \o <<>> = l /\ l \o <<ref>> = Append(l, ref)
      BY <3>1
    <3> QED
      BY <1>1, <1>6, <2>1, <3>2, <3>3 DEF l
  <2>3. /\ tried' \in 0 .. Len(Refs') /\ at' = "extensions"
        /\ loaded' = FlattenSeq(SubSeq([n \in DOMAIN Refs' |-> Part(n)'], 1, tried'))
    BY <1>1, <1>3, <1>4, <1>6, <2>1, <2>2
  <2> QED
    BY <1>5, <2>3 DEF StartInv
<1>7. CASE at' = "exited"
  BY <1>1, <1>7, StartEnds
<1>8. CASE tried = Len(Refs) /\ at' = "session" /\ UNCHANGED <<tried, loaded>>
  <2>1. /\ tried' \in 0 .. Len(Refs') /\ tried' = Len(Refs')
        /\ loaded' = FlattenSeq(SubSeq([n \in DOMAIN Refs' |-> Part(n)'], 1, tried'))
    BY <1>1, <1>3, <1>4, <1>8
  <2> QED
    BY <1>5, <1>8, <2>1 DEF StartInv
<1> QED
  BY <1>6, <1>7, <1>8 DEF LoadExtensions, Exit, Proceed, Refs

LEMMA MainStarts == ASSUME StartInv, Main PROVE StartInv'
<1>1. CASE ParseCliArgs
  <2>1. at = "arguments" /\ at' \in {"exited", "config"} /\ UNCHANGED <<start, built, loaded, tried>>
    BY <1>1 DEF ParseCliArgs, Exit, Proceed
  <2> QED
    BY <2>1 DEF StartInv, BuiltAs, Value
<1>2. CASE ParseOtterConfig
  <2>1. /\ at = "config" /\ UNCHANGED <<start, built, loaded, tried>>
        /\ at' = "exited" \/ (at' = "environment" /\ ValidConfig(start.file))
    BY <1>2 DEF ParseOtterConfig, Exit, Proceed
  <2> QED
    BY <2>1 DEF StartInv, BuiltAs, Value
<1>3. CASE \E kind \in Kinds : ResolveComponentOrExit(kind)
  BY <1>3, ResolveStarts
<1>4. CASE FindModel
  <2>1. at = "model" /\ at' \in {"exited", "extensions"} /\ UNCHANGED <<start, built, loaded, tried>>
    BY <1>4 DEF FindModel, Exit, Proceed
  <2>2. CASE at' = "exited"
    BY <2>1, <2>2, StartEnds
  <2>3. CASE at' = "extensions"
    <3>1. loaded = <<>> /\ tried = 0 /\ start \in Starts /\ ValidConfig(start.file)
      BY <2>1 DEF StartInv
    <3>2. Refs \in Seq(Range(Refs))
      BY <3>1, ExtensionsList
    <3>3. loaded = FlattenSeq(SubSeq([n \in DOMAIN Refs |-> Part(n)], 1, 0)) /\ 0 \in 0 .. Len(Refs)
      BY <3>1, <3>2, NothingTried
    <3>4. Refs' = Refs /\ \A n : Part(n)' = Part(n)
      BY <2>1 DEF Refs, Value, Part
    <3>5. tried' \in 0 .. Len(Refs')
          /\ loaded' = FlattenSeq(SubSeq([n \in DOMAIN Refs' |-> Part(n)'], 1, tried'))
      BY <2>1, <3>1, <3>3, <3>4
    <3> QED
      BY <2>1, <2>3, <3>5 DEF StartInv, BuiltAs, Value
  <2> QED
    BY <2>1, <2>2, <2>3
<1>5. CASE LoadExtensions
  BY <1>5, LoadStarts
<1> QED
  BY <1>1, <1>2, <1>3, <1>4, <1>5 DEF Main, Startup, ServeSession

LEMMA NextStarts == StartInv /\ [Next]_vars => StartInv'
<1> SUFFICES ASSUME StartInv, [Next]_vars PROVE StartInv'
  OBVIOUS
<1>1. CASE Main
  BY <1>1, MainStarts
<1>2. CASE CreateRpcSession
  <2>1. /\ at = "session" /\ at' \in {"serving", "exited"}
        /\ UNCHANGED <<start, built, loaded, tried>>
    BY <1>2 DEF CreateRpcSession, ServeSession, Exit, Proceed
  <2> QED
    BY <2>1 DEF StartInv, BuiltAs, Value, Refs, Part
<1>3. CASE Stop
  <2>1. at' = "exited" /\ UNCHANGED <<start, built>>
    BY <1>3 DEF Stop, Exit
  <2> QED
    BY <2>1, StartEnds
<1>4. CASE UNCHANGED startVars
  BY <1>4, StartUnchanged
<1> QED
  BY <1>1, <1>2, <1>3, <1>4
     DEF Next, vars, CreateTransport, Read, EndOfStdin, Signal, RunCommand, AgentActs, DisposeSession

\* Every component is built of the template that its reference names, from the template's defaults
\* under the reference's settings, and a session is given every extension that can be built, in
\* their order: for any configuration, however deep, and any registry and modules.
THEOREM StartsAsConfigured == Spec => []StartedAsConfigured
<1>1. StartInv => StartedAsConfigured
  <2> SUFFICES ASSUME StartInv PROVE StartedAsConfigured
    OBVIOUS
  <2>1. ASSUME at = "serving" PROVE loaded = FlattenSeq([n \in DOMAIN Refs |-> Part(n)])
    <3> DEFINE parts == [n \in DOMAIN Refs |-> Part(n)]
    <3>1. Refs \in Seq(Range(Refs))
      BY <2>1, ExtensionsList DEF StartInv
    <3>2. parts \in Seq(Seq(Range(Refs))) /\ Len(parts) = Len(Refs)
      BY <3>1, PartsType
    <3>3. loaded = FlattenSeq(SubSeq(parts, 1, Len(Refs)))
      BY <2>1 DEF StartInv
    <3> HIDE DEF parts
    <3>4. SubSeq(parts, 1, Len(parts)) = parts
      BY <3>2, SubSeqFull
    <3> QED
      BY <3>2, <3>3, <3>4 DEF parts
  <2>2. \A kind \in Kinds : built[kind] # None => BuiltAs(kind)
    BY DEF StartInv
  <2> QED
    BY <2>1, <2>2 DEF StartedAsConfigured, BuiltAs, Settings, Refs, Part
<1> QED
  BY <1>1, InitStarts, NextStarts, PTL DEF Spec
===============================================================================
