--------------------------- MODULE ExtensionRunner ---------------------------
(***************************************************************************)
(* The extension runner of a session: loadExtensions() and reload(), the   *)
(* commands of extensions and skills, and the emission of events to the    *)
(* extensions' handlers.                                                   *)
(*                                                                         *)
(* An extension's factory, and every handler, is awaited: loads, reloads   *)
(* and emissions overlap.  clear() starts a new map of handlers; a list of *)
(* the old one is no longer added to, and an emission under way goes on    *)
(* over it.  lists[g] is the list of generation g.  An extension registers *)
(* its handler for every event at once, so one list stands for all.        *)
(*                                                                         *)
(* The environment's extension, which comes first and registers without    *)
(* awaiting, is not told apart; only commands whose name a skill bears     *)
(* are.  The names extensions register hold no colon.  What a factory or   *)
(* a handler throws is told to the error listeners: one of them that       *)
(* throws in turn ends the load or the emission.                           *)
(***************************************************************************)
EXTENDS Naturals, Sequences

CONSTANTS NumExtensions,  \* of the session, loaded in this order
          Skills,         \* of the environment
          MaxLoads,       \* bound on the calls of loadExtensions and reload
          MaxLate,        \* bound on registrations after an extension's load
          Emissions,      \* the emissions a behaviour can hold
          Kinds           \* of emissions, by what they make of the answers

ASSUME BoundsAssumption == NumExtensions \in Nat /\ MaxLoads \in Nat \ {0} /\ MaxLate \in Nat
ASSUME KindsAssumption == Kinds \subseteq {"plain", "first", "last", "chain"}

Extensions == 1 .. NumExtensions
LoadIds == 1 .. MaxLoads
Generations == 0 .. MaxLoads

\* Who registered a handler, and in which load; 0 is after its load.
Handler == [ext : Extensions, load : 0 .. MaxLoads]

VARIABLES
  generation,  \* calls of clear() so far
  lists,       \* the handlers of each generation, in the order registered
  commands,    \* each skill's bare name: "free", an "extension"'s or the "skill"'s
  namespaced,  \* the skills whose skill:<name> is registered
  loads,       \* how far each load is
  started,     \* loads begun so far
  lateCalls,   \* registrations after an extension's load so far
  emissions,   \* how far each emission is, the event its next handler is given and
               \* its answer so far, as the handlers that made them; outcomes is a history
  claimed,     \* history: names extensions registered since the last clear()
  heard,       \* history: handlers that were called for a session_start
  overlapped   \* history: whether a reload began during a load

vars == <<generation, lists, commands, namespaced, loads, started, lateCalls, emissions, claimed,
          heard, overlapped>>

NoLoad == [at |-> "unused", next |-> 1, threw |-> {}, list |-> 0, position |-> 0]
NoEmission == [at |-> "unused", kind |-> "plain", list |-> 0, position |-> 0,
               current |-> <<>>, answer |-> <<>>, outcomes |-> <<>>]

Init ==
  /\ generation = 0
  /\ lists = [g \in Generations |-> <<>>]
  /\ commands = [s \in Skills |-> "free"]
  /\ namespaced = {}
  /\ loads = [l \in LoadIds |-> NoLoad]
  /\ started = 0
  /\ lateCalls = 0
  /\ emissions = [e \in Emissions |-> NoEmission]
  /\ claimed = {}
  /\ heard = {}
  /\ overlapped = FALSE

InProgress == \E l \in LoadIds : loads[l].at \notin {"unused", "over", "failed"}

-----------------------------------------------------------------------------
\* loadExtensions(), called once after construction.
LoadExtensions ==
  /\ started = 0
  /\ started' = 1
  /\ loads' = [loads EXCEPT ![1].at = "factories"]
  /\ UNCHANGED <<generation, lists, commands, namespaced, lateCalls, emissions, claimed, heard,
                 overlapped>>

\* Mutant: the handlers are kept.
Clear_KeepsHandlers ==
  /\ commands' = [s \in Skills |-> "free"]
  /\ namespaced' = {}
  /\ claimed' = {}
  /\ UNCHANGED generation

\* clear(): handlers and commands are dropped.
Clear ==
  /\ generation' = generation + 1
  /\ commands' = [s \in Skills |-> "free"]
  /\ namespaced' = {}
  /\ claimed' = {}

\* reload(), which a command's handler may call at any time.
Reload ==
  /\ started \in 1 .. MaxLoads - 1
  /\ started' = started + 1
  /\ Clear
  /\ loads' = [loads EXCEPT ![started + 1].at = "factories"]
  /\ overlapped' = (overlapped \/ InProgress)
  /\ UNCHANGED <<lists, lateCalls, emissions, heard>>

\* api.on() adds to the current list, api.registerCommand() overwrites.
RegisterHandler(ext, load) ==
  lists' = [lists EXCEPT ![generation] = Append(@, [ext |-> ext, load |-> load])]

RegisterCommands(names) ==
  /\ commands' = [s \in Skills |-> IF s \in names THEN "extension" ELSE commands[s]]
  /\ claimed' = claimed \cup names

\* Mutant: a factory that throws ends the load.
FactoryRuns_ThrowEnds(l) ==
  /\ loads[l].at = "factories"
  /\ loads[l].next \in Extensions
  /\ LET ext == loads[l].next
     IN  \/ /\ RegisterHandler(ext, l)
            /\ \E names \in SUBSET Skills : RegisterCommands(names)
            /\ loads' = [loads EXCEPT ![l].next = ext + 1]
         \/ /\ loads' = [loads EXCEPT ![l].next = NumExtensions + 1, ![l].threw = @ \cup {ext}]
            /\ UNCHANGED <<lists, commands, claimed>>
  /\ UNCHANGED <<generation, namespaced, started, lateCalls, emissions, heard, overlapped>>

\* The load's next factory has returned: it registered, or threw before.
FactoryRuns(l) ==
  /\ loads[l].at = "factories"
  /\ loads[l].next \in Extensions
  /\ LET ext == loads[l].next
     IN  \/ /\ RegisterHandler(ext, l)
            /\ \E names \in SUBSET Skills : RegisterCommands(names)
            /\ loads' = [loads EXCEPT ![l].next = ext + 1]
         \/ /\ loads' = [loads EXCEPT ![l].next = ext + 1, ![l].threw = @ \cup {ext}]
            /\ UNCHANGED <<lists, commands, claimed>>
  /\ UNCHANGED <<generation, namespaced, started, lateCalls, emissions, heard, overlapped>>

\* The next factory, or handler of session_start, throws, and an error listener
\* throws what it is told in turn: loadExtensions() or reload() ends there.
LoadFails(l) ==
  /\ \/ /\ loads[l].at = "factories"
        /\ loads[l].next \in Extensions
        /\ loads' = [loads EXCEPT ![l].at = "failed", ![l].next = @ + 1,
                                  ![l].threw = @ \cup {loads[l].next}]
        /\ UNCHANGED heard
     \/ /\ loads[l].at = "starting"
        /\ loads[l].position < Len(lists[loads[l].list])
        /\ heard' = heard \cup {lists[loads[l].list][loads[l].position + 1]}
        /\ loads' = [loads EXCEPT ![l].at = "failed", ![l].list = 0, ![l].position = 0]
  /\ UNCHANGED <<generation, lists, commands, namespaced, started, lateCalls, emissions, claimed,
                 overlapped>>

\* An extension keeps its api: a handler of any generation may register.
RegisterLate(ext) ==
  /\ lateCalls < MaxLate
  /\ lateCalls' = lateCalls + 1
  /\ \E l \in LoadIds : loads[l].next > ext
  /\ \/ RegisterHandler(ext, 0) /\ UNCHANGED <<commands, claimed>>
     \/ \E s \in Skills : RegisterCommands({s}) /\ UNCHANGED lists
  /\ UNCHANGED <<generation, namespaced, loads, started, emissions, heard, overlapped>>

-----------------------------------------------------------------------------
\* Mutant: a reload does not emit session_start.
BeginStart_FirstLoadOnly(l) ==
  /\ loads[l].at = "factories"
  /\ loads[l].next \notin Extensions
  /\ loads' = [loads EXCEPT ![l].list = generation,
       ![l].at = IF l > 1 \/ lists[generation] = <<>> THEN "finishing" ELSE "starting"]
  /\ UNCHANGED <<generation, lists, commands, namespaced, started, lateCalls, emissions, claimed,
                 heard, overlapped>>

\* The factories are through: session_start is emitted to the list of now.
BeginStart(l) ==
  /\ loads[l].at = "factories"
  /\ loads[l].next \notin Extensions
  /\ loads' = [loads EXCEPT ![l].list = generation,
                            ![l].at = IF lists[generation] = <<>> THEN "finishing" ELSE "starting"]
  /\ UNCHANGED <<generation, lists, commands, namespaced, started, lateCalls, emissions, claimed,
                 heard, overlapped>>

\* The next handler is called; what it answers, or throws, changes nothing.
StartHandler(l) ==
  /\ loads[l].at = "starting"
  /\ LET list == lists[loads[l].list]
         next == loads[l].position + 1
     IN  /\ next <= Len(list)
         /\ heard' = heard \cup {list[next]}
         /\ loads' = [loads EXCEPT ![l].position = next]
  /\ UNCHANGED <<generation, lists, commands, namespaced, started, lateCalls, emissions, claimed,
                 overlapped>>

\* Mutant: a skill takes its bare name from an extension.
RegisterSkills_Overwriting ==
  /\ commands' = [s \in Skills |-> "skill"]
  /\ namespaced' = Skills

\* _registerSkillCommands(): runner.registerCommand() skips a name in use.
RegisterSkills ==
  /\ commands' = [s \in Skills |-> IF commands[s] = "free" THEN "skill" ELSE commands[s]]
  /\ namespaced' = Skills

\* The last handler has answered.
FinishLoad(l) ==
  /\ \/ loads[l].at = "finishing"
     \/ loads[l].at = "starting" /\ loads[l].position = Len(lists[loads[l].list])
  /\ RegisterSkills
  /\ loads' = [loads EXCEPT ![l].at = "over", ![l].list = 0, ![l].position = 0]
  /\ UNCHANGED <<generation, lists, started, lateCalls, emissions, claimed, heard, overlapped>>

-----------------------------------------------------------------------------
\* An event is emitted; without a list the emission is over at once.
Emit(e, kind) ==
  /\ emissions[e].at = "unused"
  /\ emissions' = [emissions EXCEPT ![e].kind = kind, ![e].list = generation,
                     ![e].at = IF lists[generation] = <<>> THEN "over" ELSE "calling"]
  /\ UNCHANGED <<generation, lists, commands, namespaced, loads, started, lateCalls, claimed, heard,
                 overlapped>>

NextHandler(e) == lists[emissions[e].list][emissions[e].position + 1]

Turn(e) ==
  /\ emissions[e].at = "calling"
  /\ emissions[e].position < Len(lists[emissions[e].list])
  /\ UNCHANGED <<generation, lists, commands, namespaced, loads, started, lateCalls, claimed, heard,
                 overlapped>>

\* The handler at the emission's turn has answered.
Outcome(e, outcome, at, current, answer) ==
  emissions' = [emissions EXCEPT ![e] =
    [at |-> at, kind |-> @.kind, list |-> @.list, position |-> @.position + 1,
     current |-> current, answer |-> answer, outcomes |-> Append(@.outcomes, outcome)]]

\* Mutant: what a handler throws ends the emission.
Silent_ThrowEnds(e) ==
  /\ Turn(e)
  /\ \E at \in {"calling", "over"} :
       Outcome(e, "silent", at, emissions[e].current, emissions[e].answer)

\* The handler answers nothing, or throws, which the error listeners take.  An
\* answer to before_agent_start has two parts: its system prompt chains, and of
\* the messages the last stands, as with LastAnswer.  An answer with a message
\* alone leaves the chain, and the event the next is given, as they were.
Silent(e) ==
  /\ Turn(e)
  /\ Outcome(e, "silent", "calling", emissions[e].current, emissions[e].answer)

\* It throws, and so does an error listener: the emission's caller is thrown that.
EmitFails(e) ==
  /\ Turn(e)
  /\ emissions' = [emissions EXCEPT ![e] = [NoEmission EXCEPT !.at = "failed"]]

\* tool_call, input and session_before_compact: the first answer is taken.
FirstAnswer(e) ==
  /\ Turn(e)
  /\ emissions[e].kind = "first"
  /\ Outcome(e, "answers", "over", emissions[e].current, <<NextHandler(e)>>)

\* tool_result: the last answer stands.
LastAnswer(e) ==
  /\ Turn(e)
  /\ emissions[e].kind = "last"
  /\ Outcome(e, "answers", "calling", emissions[e].current, <<NextHandler(e)>>)

\* Mutant: every handler is given the event as it was emitted.
ChainAnswer_Unchained(e) ==
  /\ Turn(e)
  /\ emissions[e].kind = "chain"
  /\ Outcome(e, "answers", "calling", emissions[e].current, Append(emissions[e].current, NextHandler(e)))

\* before_agent_start (its system prompt), context and before_provider_request:
\* the handler makes its answer of the event it is given, and the next is given
\* that.
ChainAnswer(e) ==
  /\ Turn(e)
  /\ emissions[e].kind = "chain"
  /\ LET answer == Append(emissions[e].current, NextHandler(e))
     IN  Outcome(e, "answers", "calling", answer, answer)

\* Every handler has been called: the answer is returned.
EmitEnds(e) ==
  /\ emissions[e].at = "calling"
  /\ emissions[e].position = Len(lists[emissions[e].list])
  /\ emissions' = [emissions EXCEPT ![e] = [NoEmission EXCEPT !.at = "over"]]
  /\ UNCHANGED <<generation, lists, commands, namespaced, loads, started, lateCalls, claimed, heard,
                 overlapped>>

Load(l) ==
  FactoryRuns(l) \/ BeginStart(l) \/ StartHandler(l) \/ FinishLoad(l) \/ LoadFails(l)

Emission(e) ==
  \/ \E kind \in Kinds : Emit(e, kind)
  \/ Silent(e) \/ FirstAnswer(e) \/ LastAnswer(e) \/ ChainAnswer(e) \/ EmitEnds(e) \/ EmitFails(e)

Next ==
  \/ LoadExtensions
  \/ Reload
  \/ \E l \in LoadIds : Load(l)
  \/ \E ext \in Extensions : RegisterLate(ext)
  \/ \E e \in Emissions : Emission(e)

Spec == Init /\ [][Next]_vars

-----------------------------------------------------------------------------
(* Properties *)

LoadRecord ==
  [at : {"unused", "factories", "starting", "finishing", "over", "failed"},
   next : 1 .. NumExtensions + 1, threw : SUBSET Extensions, list : Generations, position : Nat]

EmissionRecord ==
  [at : {"unused", "calling", "over", "failed"}, kind : Kinds \cup {"plain"}, list : Generations,
   position : Nat, current : Seq(Handler), answer : Seq(Handler),
   outcomes : Seq({"silent", "answers"})]

\* The types of the variables; generation counts the reloads.
TypeOK ==
  /\ generation \in Generations
  /\ generation = (IF started = 0 THEN 0 ELSE started - 1)
  /\ lists \in [Generations -> Seq(Handler)]
  /\ commands \in [Skills -> {"free", "extension", "skill"}]
  /\ namespaced \in SUBSET Skills
  /\ loads \in [LoadIds -> LoadRecord]
  /\ started \in 0 .. MaxLoads
  /\ lateCalls \in 0 .. MaxLate
  /\ emissions \in [Emissions -> EmissionRecord]
  /\ claimed \in SUBSET Skills
  /\ heard \in SUBSET Handler
  /\ overlapped \in BOOLEAN

\* The extensions were loaded, and no load or reload is under way.
Settled == started > 0 /\ ~InProgress

Registered(g) == {lists[g][i] : i \in DOMAIN lists[g]}

\* "extension-registered commands always take precedence over skill commands
\* for bare names", whichever came first and whatever loads overlap.
ExtensionsWin == \A s \in claimed : commands[s] = "extension"

\* However loads and reloads overlapped, in the end every extension whose
\* factory did not throw has the handler its latest reload registered, and
\* every skill has both its commands, unless an error listener ended that one.
ReloadRestores ==
  Settled /\ loads[started].at = "over" =>
    /\ \A ext \in Extensions \ loads[started].threw :
         [ext |-> ext, load |-> started] \in Registered(generation)
    /\ namespaced = Skills
    /\ \A s \in Skills : commands[s] # "free"

\* No handler that a load registered has missed session_start when that load is
\* over, whatever loads came between.
StartHeard ==
  \A h \in Registered(generation) :
    h.load # 0 => (loads[h.load].at = "over" => h \in heard)

LoadedOnce ==
  \A i, j \in DOMAIN lists[generation] :
    LET h == lists[generation][i]
        k == lists[generation][j]
    IN  h.load # 0 /\ k.load # 0 /\ h.ext = k.ext => i = j

\* No extension is called twice for one event, as long as no reload began
\* before the load before it was over.
OnceUnlessOverlapped == ~overlapped => LoadedOnce

\* The positions whose answers count, with the outcomes an emission got.
Counted(e) ==
  LET answered == {i \in DOMAIN emissions[e].outcomes : emissions[e].outcomes[i] = "answers"}
  IN  CASE emissions[e].kind = "first" -> {i \in answered : \A j \in answered : i <= j}
        [] emissions[e].kind = "last"  -> {i \in answered : \A j \in answered : j <= i}
        [] OTHER                       -> answered

Composes(e) ==
  LET list == lists[emissions[e].list]
      answer == emissions[e].answer
  IN  \E order \in [DOMAIN answer -> Counted(e)] :
        /\ \A i \in Counted(e) : \E k \in DOMAIN answer : order[k] = i
        /\ \A j, k \in DOMAIN answer : j < k => order[j] < order[k]
        /\ \A k \in DOMAIN answer : answer[k] = list[order[k]]

\* An emission's answer is made of the first answer, of the last or, where
\* handlers build on each other, of all, each on those before it in the order
\* registered: a late registration or a reload meanwhile changes nothing.
AnswersCompose == \A e \in Emissions : Composes(e)

\* An emission ends only when every handler of its list has been called, those
\* registered meanwhile included, unless a first answer ended it: not because
\* one threw, nor because a reload dropped the list.
NoHandlerSkipped ==
  [][\A e \in Emissions :
       emissions[e].at = "calling" /\ emissions'[e].at = "over" =>
         \/ emissions[e].position = Len(lists[emissions[e].list])
         \/ emissions[e].kind = "first" /\ emissions'[e].answer # <<>>]_vars
=============================================================================
