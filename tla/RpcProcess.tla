------------------------------ MODULE RpcProcess ------------------------------
(***************************************************************************)
(* The process that `otter run' is: it starts (CliStartup), reads commands *)
(* (JsonlTransport), tells the client of the agent's events                *)
(* (EventForwarding), and ends.  What a command does in the handler, and   *)
(* the graceful shutdown's timers, are RpcHandler's; here a command is its *)
(* effect on the agent.                                                    *)
(***************************************************************************)
EXTENDS CliStartup, JsonlTransport, EventForwarding

CONSTANT Command   \* the JSON lines to the commands they are

ASSUME StdinAssumption == \A call \in Starts : IsUtf8(call.stdin)

VARIABLES
  ran,       \* the messages, by number, whose commands had their effect
  shutdown   \* "no", "requested", "disposed"

vars == <<startVars, transportVars, forwardingVars, ran, shutdown>>

Init ==
  /\ InitStart
  /\ InitTransport(start.stdin)
  /\ InitForwarding
  /\ ran = {} /\ shutdown = "no"
-----------------------------------------------------------------------------
Main ==
  /\ at # "session" /\ Startup
  /\ UNCHANGED <<transportVars, forwardingVars, ran, shutdown>>

\* runRpcMode: the transport is there before the session.
CreateTransport ==
  /\ at = "session" /\ OpenTransport
  /\ UNCHANGED <<startVars, forwardingVars, ran, shutdown>>

\* createRpcSession, then start() of the handler.
CreateRpcSession ==
  /\ transport = "open" /\ ServeSession
  /\ \/ at' = "serving" /\ OnMessage /\ StartHandler
     \/ at' = "exited" /\ UNCHANGED <<transportVars, forwardingVars>>
  /\ UNCHANGED <<ran, shutdown>>

Serving == at = "serving"

Read(n) ==
  /\ Serving /\ OnData(n)
  /\ UNCHANGED <<startVars, forwardingVars, ran, shutdown>>

\* requestShutdown()
Request == shutdown' = IF shutdown = "no" THEN "requested" ELSE shutdown

EndOfStdin ==
  /\ Serving /\ OnEnd /\ Request
  /\ UNCHANGED <<startVars, forwardingVars, ran>>

Signal ==
  /\ Serving /\ Request /\ shutdown' # shutdown
  /\ UNCHANGED <<startVars, transportVars, forwardingVars, ran>>

\* A command has its effect when its handler comes to it, past those before it or not.
RunCommand(n) ==
  LET command == Command[handled[n]]
  IN  /\ Serving /\ n \in DOMAIN handled \ ran
      /\ ran' = ran \cup {n}
      /\ \/ command = "prompt" /\ AgentStarts /\ UNCHANGED shutdown
         \/ /\ command = "prompt" /\ (agent.streaming \/ runs = MaxRuns)
            /\ UNCHANGED <<forwardingVars, shutdown>>
         \/ /\ command = "set_model" /\ UNCHANGED shutdown
            /\ \E model \in ModelNames, level \in LevelNames :
                 ChangeSilently(model, level, agent.queued)
         \/ command = "steer" /\ ChangeSilently(agent.model, agent.level, TRUE) /\ UNCHANGED shutdown
         \/ command = "compact" /\ CompactStarts /\ UNCHANGED shutdown
         \/ command = "shutdown" /\ Request /\ UNCHANGED forwardingVars
      /\ UNCHANGED <<startVars, transportVars>>

\* What the agent, the store, or a compaction that has begun does next.
AgentActs ==
  /\ Serving
  /\ \/ MessageEnds \/ AgentEnds \/ \E m \in appending : Appended(m)
     \/ CompactReplaces \/ CompactFails \/ CompactEnds
  /\ UNCHANGED <<startVars, transportVars, ran, shutdown>>

\* The shutdown's wait for the agent is over, or has timed out.
DisposeSession ==
  /\ Serving /\ shutdown = "requested" /\ shutdown' = "disposed"
  /\ Dispose
  /\ UNCHANGED <<startVars, transportVars, ran>>

\* stop(), at the sequence's end or when the safety timer fires, and the exit.
Stop ==
  /\ Serving /\ shutdown # "no"
  /\ Close /\ StopHandler /\ Exit(0)
  /\ UNCHANGED <<start, built, loaded, tried, runner, ran, shutdown>>

Next ==
  \/ Main \/ CreateTransport \/ CreateRpcSession
  \/ \E n \in DOMAIN stdin : Read(n)
  \/ EndOfStdin \/ Signal
  \/ \E n \in DOMAIN handled : RunCommand(n)
  \/ AgentActs \/ DisposeSession \/ Stop

Spec == Init /\ [][Next]_vars

\* main goes on, and so does whatever it awaits.
FairSpec == Spec /\ WF_vars(Main) /\ WF_vars(CreateTransport) /\ WF_vars(CreateRpcSession)
-----------------------------------------------------------------------------
(***************************************************************************)
(* Properties                                                              *)
(***************************************************************************)

\* The bytes of stdin that have been read.
BytesRead == SubSeq(start.stdin, 1, Len(start.stdin) - Len(stdin))

\* The text that has been read.  The end of stdin ends a line; a character that it cuts is replaced.
TextRead ==
  Decoded(BytesRead) \o
    CASE stdinAt = "open" -> <<>>
      [] stdinAt = "ended" /\ Undecoded(BytesRead) = <<>> -> <<LF>>
      [] OTHER -> <<Replacement, LF>>

Ends(text) == {n \in DOMAIN text : text[n] = LF}

\* The line of a text that ends at n, from the line end before.
LineTo(text, n) == SubSeq(text, Max({k \in Ends(text) : k < n} \cup {0}) + 1, n - 1)

JsonEnds(text) == {n \in Ends(text) : Emitted(LineTo(text, n)) \in Json}

\* Whatever the chunks, a line end or a character cut in two included, the handler is given the lines
\* read so far that are JSON, in their order, once each: the nth message is the nth such line.
MessagesAreLines ==
  /\ Len(handled) = Cardinality(JsonEnds(TextRead))
  /\ \A n \in JsonEnds(TextRead) :
       handled[Cardinality({k \in JsonEnds(TextRead) : k <= n})] = Emitted(LineTo(TextRead, n))

\* The places in out where the end of a message is told.
EndsSent == {n \in DOMAIN out : out[n].type = "message_end"}

\* The client is told of a message's end once, and only when the log has the message or could not
\* take it; until the session is disposed it is told of every one.
ClientSeesLog ==
  /\ \A n \in EndsSent : out[n].message \in log \cup lost
  /\ \A n, k \in EndsSent : out[n].message = out[k].message => n = k
  /\ "handler" \in listeners => log \cup lost \subseteq {out[n].message : n \in EndsSent}

\* With every event sent the client knows the model, the level, the number of messages and whether a
\* run is on as they are, whatever changed without an event since the one before.
ClientKnowsState ==
  [][out' # out => \A f \in {"streaming", "model", "level", "count"} : view'[f] = agent'[f]]_vars

\* "Extensions to load after session creation": a session that is served loads the extensions it was
\* given.
ExtensionsLoaded == Serving /\ loaded # <<>> ~> ~Serving \/ runner = loaded
=============================================================================
