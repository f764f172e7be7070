------------------------ MODULE ExtensionRunnerProofs ------------------------
(***************************************************************************)
(* Proofs about ExtensionRunner: its types; that extensions keep the names *)
(* they registered, and that an extension is registered once as long as no *)
(* reload began before the load before it was over; that a reload restores *)
(* the tools it took away, that an extension hears its start, and that an  *)
(* emission skips no handler and composes what the handlers answer.        *)
(***************************************************************************)
EXTENDS ExtensionRunner, TLAPS

-----------------------------------------------------------------------------
(* Types *)

LEMMA InitTypes == Init => TypeOK
<1> SUFFICES ASSUME Init PROVE TypeOK
  OBVIOUS
<1> USE DEF Init
<1>1. NoLoad \in LoadRecord
  BY BoundsAssumption DEF NoLoad, LoadRecord, Generations
<1>2. NoEmission \in EmissionRecord
  BY BoundsAssumption DEF NoEmission, EmissionRecord, Generations
<1>3. <<>> \in Seq(Handler)
  OBVIOUS
<1>4. lists \in [Generations -> Seq(Handler)]
  BY <1>3
<1>5. loads \in [LoadIds -> LoadRecord] /\ emissions \in [Emissions -> EmissionRecord]
  BY <1>1, <1>2
<1>6. 0 \in Generations /\ 0 \in 0 .. MaxLoads /\ 0 \in 0 .. MaxLate
  BY BoundsAssumption DEF Generations
<1>7. commands \in [Skills -> {"free", "extension", "skill"}]
  OBVIOUS
<1> QED
  BY <1>4, <1>5, <1>6, <1>7 DEF TypeOK

\* A registered handler is added to the current list.
LEMMA HandlerTypes ==
  ASSUME TypeOK, NEW ext \in Extensions, NEW load \in 0 .. MaxLoads, RegisterHandler(ext, load)
  PROVE  /\ [ext |-> ext, load |-> load] \in Handler
         /\ lists' \in [Generations -> Seq(Handler)]
         /\ lists'[generation] = Append(lists[generation], [ext |-> ext, load |-> load])
         /\ \A g \in Generations : g # generation => lists'[g] = lists[g]
<1>1. [ext |-> ext, load |-> load] \in Handler
  BY DEF Handler
<1>2. lists[generation] \in Seq(Handler) /\ generation \in Generations
  BY DEF TypeOK
<1>3. Append(lists[generation], [ext |-> ext, load |-> load]) \in Seq(Handler)
  BY <1>1, <1>2
<1> QED
  BY <1>1, <1>2, <1>3 DEF RegisterHandler, TypeOK

LEMMA CommandTypes ==
  ASSUME TypeOK, NEW names \in SUBSET Skills, RegisterCommands(names)
  PROVE  commands' \in [Skills -> {"free", "extension", "skill"}] /\ claimed' \in SUBSET Skills
BY DEF RegisterCommands, TypeOK

LEMMA OutcomeTypes ==
  ASSUME NEW old \in EmissionRecord, NEW outcome \in {"silent", "answers"},
         NEW at \in {"calling", "over"}, NEW current \in Seq(Handler), NEW answer \in Seq(Handler)
  PROVE  [at |-> at, kind |-> old.kind, list |-> old.list, position |-> old.position + 1,
          current |-> current, answer |-> answer, outcomes |-> Append(old.outcomes, outcome)]
           \in EmissionRecord
<1>1. Append(old.outcomes, outcome) \in Seq({"silent", "answers"})
  BY DEF EmissionRecord
<1> QED
  BY <1>1 DEF EmissionRecord

\* At an emission's turn there is a handler to call.
LEMMA TurnTypes ==
  ASSUME TypeOK, NEW e \in Emissions, Turn(e)
  PROVE  /\ <<NextHandler(e)>> \in Seq(Handler)
         /\ Append(emissions[e].current, NextHandler(e)) \in Seq(Handler)
<1>1. emissions[e] \in EmissionRecord
  BY DEF TypeOK
<1>2. lists[emissions[e].list] \in Seq(Handler)
  BY <1>1 DEF TypeOK, EmissionRecord
<1>3. emissions[e].position + 1 \in 1 .. Len(lists[emissions[e].list])
  BY <1>1, <1>2 DEF Turn, EmissionRecord
<1>4. NextHandler(e) \in Handler
  BY <1>2, <1>3 DEF NextHandler
<1>5. emissions[e].current \in Seq(Handler)
  BY <1>1 DEF EmissionRecord
<1> QED
  BY <1>4, <1>5

LEMMA EmissionTypes ==
  ASSUME TypeOK, NEW e \in Emissions, Emission(e)
  PROVE  emissions' \in [Emissions -> EmissionRecord] /\
         UNCHANGED <<generation, lists, commands, namespaced, loads, started, lateCalls, claimed,
                     heard, overlapped>>
<1>0. emissions[e] \in EmissionRecord /\ generation \in Generations
  BY DEF TypeOK
<1>1. ASSUME NEW kind \in Kinds, Emit(e, kind) PROVE emissions' \in [Emissions -> EmissionRecord]
  <2> DEFINE at == IF lists[generation] = <<>> THEN "over" ELSE "calling"
             new == [emissions[e] EXCEPT !.kind = kind, !.list = generation, !.at = at]
  <2>1. at \in {"unused", "calling", "over"}
    OBVIOUS
  <2>2. emissions' = [emissions EXCEPT ![e] = new]
    BY <1>1 DEF Emit
  <2> HIDE DEF at
  <2>3. new \in EmissionRecord
    BY <1>0, <2>1 DEF EmissionRecord
  <2> HIDE DEF new
  <2> QED
    BY <2>2, <2>3 DEF TypeOK
<1>2. emissions[e].current \in Seq(Handler) /\ emissions[e].answer \in Seq(Handler)
  BY <1>0 DEF EmissionRecord
<1>3. ASSUME NEW outcome \in {"silent", "answers"}, NEW at \in {"calling", "over"},
             NEW current \in Seq(Handler), NEW answer \in Seq(Handler),
             Outcome(e, outcome, at, current, answer)
      PROVE  emissions' \in [Emissions -> EmissionRecord]
  <2> DEFINE new == [at |-> at, kind |-> emissions[e].kind, list |-> emissions[e].list,
                     position |-> emissions[e].position + 1, current |-> current,
                     answer |-> answer, outcomes |-> Append(emissions[e].outcomes, outcome)]
  <2>1. new \in EmissionRecord
    BY <1>0, OutcomeTypes
  <2>2. emissions' = [emissions EXCEPT ![e] = new]
    BY <1>3 DEF Outcome
  <2> HIDE DEF new
  <2> QED
    BY <2>1, <2>2 DEF TypeOK
<1>4. ASSUME Silent(e) PROVE emissions' \in [Emissions -> EmissionRecord]
  <2>1. \E at \in {"calling", "over"} :
          Outcome(e, "silent", at, emissions[e].current, emissions[e].answer)
    BY <1>4 DEF Silent
  <2> QED
    BY <1>2, <1>3, <2>1
<1>5. ASSUME FirstAnswer(e) \/ LastAnswer(e)
      PROVE emissions' \in [Emissions -> EmissionRecord]
  <2>1. \E at \in {"calling", "over"} :
          Outcome(e, "answers", at, emissions[e].current, <<NextHandler(e)>>)
    BY <1>5 DEF FirstAnswer, LastAnswer
  <2>2. <<NextHandler(e)>> \in Seq(Handler)
    BY <1>5, TurnTypes DEF FirstAnswer, LastAnswer
  <2> QED
    BY <1>2, <1>3, <2>1, <2>2
<1>6. ASSUME ChainAnswer(e) PROVE emissions' \in [Emissions -> EmissionRecord]
  <2> DEFINE answer == Append(emissions[e].current, NextHandler(e))
  <2>1. Outcome(e, "answers", "calling", answer, answer)
    BY <1>6 DEF ChainAnswer
  <2>2. answer \in Seq(Handler)
    BY <1>6, TurnTypes DEF ChainAnswer
  <2> HIDE DEF answer
  <2> QED
    BY <1>3, <2>1, <2>2
<1>7. ASSUME NEW at \in {"over", "failed"},
             emissions' = [emissions EXCEPT ![e] = [NoEmission EXCEPT !.at = at]]
      PROVE  emissions' \in [Emissions -> EmissionRecord]
  <2> DEFINE ended == [at |-> at, kind |-> "plain", list |-> 0, position |-> 0,
                       current |-> <<>>, answer |-> <<>>, outcomes |-> <<>>]
  <2>1. [NoEmission EXCEPT !.at = at] = ended
    BY DEF NoEmission
  <2>2. <<>> \in Seq(Handler) /\ <<>> \in Seq({"silent", "answers"}) /\ 0 \in Generations
    BY BoundsAssumption DEF Generations
  <2>3. ended \in EmissionRecord
    BY <2>2 DEF EmissionRecord
  <2>4. emissions' = [emissions EXCEPT ![e] = ended]
    BY <1>7, <2>1
  <2> HIDE DEF ended
  <2> QED
    BY <2>3, <2>4 DEF TypeOK
<1>8. UNCHANGED <<generation, lists, commands, namespaced, loads, started, lateCalls, claimed, heard,
                  overlapped>>
  BY DEF Emission, Emit, Silent, FirstAnswer, LastAnswer, ChainAnswer, EmitEnds, EmitFails, Turn
<1>9. EmitEnds(e) \/ EmitFails(e) => emissions' \in [Emissions -> EmissionRecord]
  BY <1>7 DEF EmitEnds, EmitFails
<1> QED
  BY <1>1, <1>4, <1>5, <1>6, <1>8, <1>9 DEF Emission

LEMMA LoadTypes ==
  ASSUME TypeOK, NEW l \in LoadIds, Load(l)
  PROVE  TypeOK'
<1>0. loads[l] \in LoadRecord /\ generation \in Generations
  BY DEF TypeOK
<1>1. ASSUME FactoryRuns(l) PROVE TypeOK'
  <2>1. loads' \in [LoadIds -> LoadRecord]
    <3>1. loads[l].next + 1 \in 1 .. NumExtensions + 1 /\ loads[l].threw \cup {loads[l].next} \in SUBSET Extensions
      BY <1>0, <1>1, BoundsAssumption DEF FactoryRuns, LoadRecord, Extensions
    <3>2. CASE loads' = [loads EXCEPT ![l].next = loads[l].next + 1]
      BY <1>0, <3>1, <3>2 DEF TypeOK, LoadRecord
    <3>3. CASE loads' = [loads EXCEPT ![l].next = loads[l].next + 1,
                                      ![l].threw = @ \cup {loads[l].next}]
      BY <1>0, <3>1, <3>3 DEF TypeOK, LoadRecord
    <3> QED
      BY <1>1, <3>2, <3>3 DEF FactoryRuns
  <2>2. loads[l].next \in Extensions /\ l \in 0 .. MaxLoads
    BY <1>1, BoundsAssumption DEF FactoryRuns, LoadIds
  <2>3. lists' \in [Generations -> Seq(Handler)] /\ claimed' \in SUBSET Skills
        /\ commands' \in [Skills -> {"free", "extension", "skill"}]
    <3>1. CASE /\ RegisterHandler(loads[l].next, l)
               /\ \E names \in SUBSET Skills : RegisterCommands(names)
      BY <2>2, <3>1, HandlerTypes, CommandTypes
    <3>2. CASE UNCHANGED <<lists, commands, claimed>>
      BY <3>2 DEF TypeOK
    <3> QED
      BY <1>1, <3>1, <3>2 DEF FactoryRuns
  <2> QED
    BY <1>1, <2>1, <2>3 DEF FactoryRuns, TypeOK
<1>2. ASSUME BeginStart(l) PROVE TypeOK'
  <2>1. loads' \in [LoadIds -> LoadRecord]
    BY <1>0, <1>2 DEF BeginStart, TypeOK, LoadRecord
  <2> QED
    BY <1>2, <2>1 DEF BeginStart, TypeOK
<1>3. ASSUME StartHandler(l) PROVE TypeOK'
  <2> DEFINE list == lists[loads[l].list]
             next == loads[l].position + 1
  <2>1. list \in Seq(Handler) /\ next \in Nat \ {0} /\ next <= Len(list)
    BY <1>0, <1>3 DEF StartHandler, TypeOK, LoadRecord
  <2>2. list[next] \in Handler
    BY <2>1
  <2>3. heard' \in SUBSET Handler
    BY <1>3, <2>2 DEF StartHandler, TypeOK
  <2>4. loads' = [loads EXCEPT ![l].position = next]
    BY <1>3 DEF StartHandler
  <2>5. loads' \in [LoadIds -> LoadRecord]
    BY <1>0, <2>1, <2>4 DEF TypeOK, LoadRecord
  <2> QED
    BY <1>3, <2>3, <2>5 DEF StartHandler, TypeOK
<1>4. ASSUME FinishLoad(l) PROVE TypeOK'
  <2>1. loads' \in [LoadIds -> LoadRecord]
    <3>1. 0 \in Generations /\ 0 \in Nat
      BY BoundsAssumption DEF Generations
    <3>2. [loads[l] EXCEPT !.at = "over", !.list = 0, !.position = 0] \in LoadRecord
      BY <1>0, <3>1 DEF LoadRecord
    <3>3. loads' = [loads EXCEPT ![l] = [loads[l] EXCEPT !.at = "over", !.list = 0, !.position = 0]]
      BY <1>4 DEF FinishLoad
    <3> QED
      BY <3>2, <3>3 DEF TypeOK
  <2>2. commands' \in [Skills -> {"free", "extension", "skill"}] /\ namespaced' \in SUBSET Skills
    BY <1>4 DEF FinishLoad, RegisterSkills, TypeOK
  <2> QED
    BY <1>4, <2>1, <2>2 DEF FinishLoad, TypeOK
<1>5. ASSUME LoadFails(l) PROVE TypeOK'
  <2>1. CASE loads[l].at = "factories" /\ loads[l].next \in Extensions /\ UNCHANGED heard
             /\ loads' = [loads EXCEPT ![l].at = "failed", ![l].next = @ + 1,
                                      ![l].threw = @ \cup {loads[l].next}]
    <3>1. loads[l].next + 1 \in 1 .. NumExtensions + 1 /\ loads[l].threw \cup {loads[l].next} \in SUBSET Extensions
      BY <1>0, <2>1, BoundsAssumption DEF LoadRecord, Extensions
    <3>2. loads' \in [LoadIds -> LoadRecord]
      BY <1>0, <2>1, <3>1 DEF TypeOK, LoadRecord
    <3> QED
      BY <1>5, <2>1, <3>2 DEF LoadFails, TypeOK
  <2>2. CASE /\ loads[l].at = "starting" /\ loads[l].position < Len(lists[loads[l].list])
             /\ heard' = heard \cup {lists[loads[l].list][loads[l].position + 1]}
             /\ loads' = [loads EXCEPT ![l].at = "failed", ![l].list = 0, ![l].position = 0]
    <3>1. lists[loads[l].list] \in Seq(Handler) /\ loads[l].position \in Nat
      BY <1>0 DEF TypeOK, LoadRecord
    <3>2. lists[loads[l].list][loads[l].position + 1] \in Handler
      <4>1. loads[l].position + 1 \in 1 .. Len(lists[loads[l].list])
        BY <2>2, <3>1
      <4> QED
        BY <3>1, <4>1
    <3>3. heard' \in SUBSET Handler
      BY <2>2, <3>2 DEF TypeOK
    <3>4. loads' \in [LoadIds -> LoadRecord]
      <4>1. 0 \in Generations
        BY BoundsAssumption DEF Generations
      <4> QED
        BY <1>0, <2>2, <4>1 DEF TypeOK, LoadRecord
    <3> QED
      BY <1>5, <3>3, <3>4 DEF LoadFails, TypeOK
  <2> QED
    BY <1>5, <2>1, <2>2 DEF LoadFails
<1> QED
  BY <1>1, <1>2, <1>3, <1>4, <1>5 DEF Load

LEMMA NextTypes == TypeOK /\ [Next]_vars => TypeOK'
<1> SUFFICES ASSUME TypeOK, [Next]_vars PROVE TypeOK'
  OBVIOUS
<1>1. ASSUME LoadExtensions PROVE TypeOK'
  <2>1. loads' \in [LoadIds -> LoadRecord]
    <3>1. 1 \in LoadIds /\ loads \in [LoadIds -> LoadRecord]
      BY BoundsAssumption DEF TypeOK, LoadIds
    <3>2. [loads[1] EXCEPT !.at = "factories"] \in LoadRecord
      BY <3>1 DEF LoadRecord
    <3>3. loads' = [loads EXCEPT ![1] = [loads[1] EXCEPT !.at = "factories"]]
      BY <1>1 DEF LoadExtensions
    <3> QED
      BY <3>1, <3>2, <3>3
  <2> QED
    BY <1>1, <2>1, BoundsAssumption DEF LoadExtensions, TypeOK
<1>2. ASSUME Reload PROVE TypeOK'
  <2>1. started \in Nat /\ started >= 1 /\ started + 1 <= MaxLoads
    BY <1>2, BoundsAssumption DEF Reload, TypeOK
  <2>2. loads' \in [LoadIds -> LoadRecord]
    <3>1. started + 1 \in LoadIds /\ loads \in [LoadIds -> LoadRecord]
      BY <2>1, BoundsAssumption DEF TypeOK, LoadIds
    <3>2. [loads[started + 1] EXCEPT !.at = "factories"] \in LoadRecord
      BY <3>1 DEF LoadRecord
    <3>3. loads' = [loads EXCEPT ![started + 1] = [loads[started + 1] EXCEPT !.at = "factories"]]
      BY <1>2 DEF Reload
    <3> QED
      BY <3>1, <3>2, <3>3
  <2>3. generation' \in Generations /\ started' \in 0 .. MaxLoads
        /\ generation' = (IF started' = 0 THEN 0 ELSE started' - 1)
    BY <1>2, <2>1, BoundsAssumption DEF Reload, Clear, TypeOK, Generations
  <2>4. overlapped' \in BOOLEAN
    BY <1>2 DEF Reload, TypeOK, InProgress
  <2>5. commands' \in [Skills -> {"free", "extension", "skill"}] /\ namespaced' \in SUBSET Skills
        /\ claimed' \in SUBSET Skills
    BY <1>2 DEF Reload, Clear
  <2> QED
    BY <1>2, <2>2, <2>3, <2>4, <2>5 DEF Reload, TypeOK
<1>3. ASSUME NEW l \in LoadIds, Load(l) PROVE TypeOK'
  BY <1>3, LoadTypes
<1>4. ASSUME NEW ext \in Extensions, RegisterLate(ext) PROVE TypeOK'
  <2>1. 0 \in 0 .. MaxLoads
    BY BoundsAssumption
  <2>2. lateCalls' \in 0 .. MaxLate
    BY <1>4, BoundsAssumption DEF RegisterLate, TypeOK
  <2>3. CASE RegisterHandler(ext, 0) /\ UNCHANGED <<commands, claimed>>
    <3>1. lists' \in [Generations -> Seq(Handler)]
      BY <2>1, <2>3, HandlerTypes
    <3> QED
      BY <1>4, <2>3, <2>2, <3>1 DEF RegisterLate, TypeOK
  <2>4. CASE \E s \in Skills : RegisterCommands({s}) /\ UNCHANGED lists
    <3>1. \A s \in Skills : {s} \in SUBSET Skills
      OBVIOUS
    <3>2. commands' \in [Skills -> {"free", "extension", "skill"}] /\ claimed' \in SUBSET Skills
      BY <2>4, <3>1, CommandTypes
    <3> QED
      BY <1>4, <2>4, <2>2, <3>2 DEF RegisterLate, TypeOK
  <2> QED
    BY <1>4, <2>3, <2>4 DEF RegisterLate
<1>5. ASSUME NEW e \in Emissions, Emission(e) PROVE TypeOK'
  BY <1>5, EmissionTypes DEF TypeOK
<1>6. CASE UNCHANGED vars
  BY <1>6 DEF vars, TypeOK
<1> QED
  BY <1>1, <1>2, <1>3, <1>4, <1>5, <1>6 DEF Next

\* The types of the runner's state, for any number of extensions, loads and
\* emissions.
THEOREM RunnerTypeCorrect == Spec => []TypeOK
BY InitTypes, NextTypes, PTL DEF Spec

-----------------------------------------------------------------------------
(* Names *)

LEMMA NextNames == TypeOK /\ ExtensionsWin /\ [Next]_vars => ExtensionsWin'
<1> SUFFICES ASSUME TypeOK, ExtensionsWin, [Next]_vars PROVE ExtensionsWin'
  OBVIOUS
<1>0. claimed \in SUBSET Skills
  BY DEF TypeOK
<1>1. ASSUME NEW names \in SUBSET Skills, RegisterCommands(names) PROVE ExtensionsWin'
  BY <1>0, <1>1 DEF RegisterCommands, ExtensionsWin
<1>2. CASE UNCHANGED <<commands, claimed>>
  BY <1>2 DEF ExtensionsWin
<1>3. ASSUME Reload PROVE ExtensionsWin'
  BY <1>3 DEF Reload, Clear, ExtensionsWin
<1>4. ASSUME NEW l \in LoadIds, Load(l) PROVE ExtensionsWin'
  <2>1. CASE FactoryRuns(l)
    BY <1>1, <1>2, <2>1 DEF FactoryRuns
  <2>2. CASE FinishLoad(l)
    BY <1>0, <2>2 DEF FinishLoad, RegisterSkills, ExtensionsWin
  <2>3. CASE BeginStart(l) \/ StartHandler(l) \/ LoadFails(l)
    BY <1>2, <2>3 DEF BeginStart, StartHandler, LoadFails
  <2> QED
    BY <1>4, <2>1, <2>2, <2>3 DEF Load
<1>5. ASSUME NEW ext \in Extensions, RegisterLate(ext) PROVE ExtensionsWin'
  <2>1. CASE \E s \in Skills : RegisterCommands({s})
    <3>1. \A s \in Skills : {s} \in SUBSET Skills
      OBVIOUS
    <3> QED
      BY <1>1, <2>1, <3>1
  <2> QED
    BY <1>2, <1>5, <2>1 DEF RegisterLate
<1>6. ASSUME NEW e \in Emissions, Emission(e) PROVE ExtensionsWin'
  BY <1>2, <1>6, EmissionTypes
<1> QED
  BY <1>2, <1>3, <1>4, <1>5, <1>6 DEF Next, LoadExtensions, vars

\* However loads, reloads and late registrations overlap, no skill takes a
\* bare name an extension registered since the last clear().
THEOREM ExtensionsKeepNames == Spec => []ExtensionsWin
<1>1. Init => ExtensionsWin
  BY DEF Init, ExtensionsWin
<1> QED
  BY <1>1, NextNames, RunnerTypeCorrect, PTL DEF Spec

-----------------------------------------------------------------------------
(* Registered once *)

\* The generations and loads to come are untouched.
ToCome ==
  /\ \A g \in Generations : g > generation => lists[g] = <<>>
  /\ \A l \in LoadIds : l > started <=> loads[l].at = "unused"

\* Without overlap only the last load begun can be under way, and what loads
\* registered in the current list is its, from factories it is through with.
Sequential ==
  ~overlapped =>
    /\ \A l \in LoadIds : l < started => loads[l].at \in {"over", "failed"}
    /\ \A i \in DOMAIN lists[generation] :
         LET h == lists[generation][i]
         IN  h.load # 0 => started \in LoadIds /\ h.load = started /\ h.ext < loads[started].next

OnceInv == TypeOK /\ ToCome /\ Sequential /\ OnceUnlessOverlapped

LEMMA InitOnce == Init => OnceInv
<1> SUFFICES ASSUME Init PROVE OnceInv
  OBVIOUS
<1>1. TypeOK
  BY InitTypes
<1>2. lists[generation] = <<>> /\ started = 0 /\ \A g \in Generations : lists[g] = <<>>
  BY <1>1 DEF Init, TypeOK
<1>3. \A l \in LoadIds : loads[l].at = "unused" /\ ~(l < 0) /\ l > 0
  BY DEF Init, NoLoad, LoadIds
<1> QED
  BY <1>1, <1>2, <1>3 DEF Init, OnceInv, ToCome, Sequential, OnceUnlessOverlapped, LoadedOnce

\* A load under way is the last begun, unless loads overlapped.
LEMMA LastLoad ==
  ASSUME OnceInv, ~overlapped, NEW l \in LoadIds, loads[l].at \notin {"unused", "over", "failed"}
  PROVE  l = started
BY DEF OnceInv, ToCome, Sequential, TypeOK, LoadIds

LEMMA RegisterOnce ==
  ASSUME OnceInv, NEW ext \in Extensions, NEW load \in 0 .. MaxLoads,
         RegisterHandler(ext, load), UNCHANGED <<generation, started, overlapped>>,
         \A l \in LoadIds : loads'[l].at = loads[l].at /\ loads'[l].next \in Nat
                                /\ loads'[l].next >= loads[l].next,
         ~overlapped /\ load # 0 =>
           load = started /\ loads[load].next = ext /\ loads'[load].next = ext + 1
  PROVE  (ToCome /\ Sequential /\ OnceUnlessOverlapped)'
<1> DEFINE list == lists[generation]
           h == [ext |-> ext, load |-> load]
<1>1. /\ h \in Handler
      /\ lists'[generation] = Append(list, h)
      /\ \A g \in Generations : g # generation => lists'[g] = lists[g]
  BY HandlerTypes DEF OnceInv
<1>2. list \in Seq(Handler) /\ generation \in Generations /\ started \in 0 .. MaxLoads
  BY DEF OnceInv, TypeOK
<1>3. ToCome'
  <2>1. ASSUME NEW g \in Generations, g > generation PROVE lists'[g] = <<>>
    <3>1. g # generation
      BY <1>2, <2>1 DEF Generations
    <3> QED
      BY <1>1, <2>1, <3>1 DEF OnceInv, ToCome
  <2>2. ASSUME NEW l \in LoadIds PROVE l > started <=> loads'[l].at = "unused"
    <3>1. l > started <=> loads[l].at = "unused"
      BY DEF OnceInv, ToCome
    <3>2. loads'[l].at = loads[l].at
      OBVIOUS
    <3> QED
      BY <3>1, <3>2
  <2> QED
    BY <2>1, <2>2 DEF ToCome
<1>4. /\ DOMAIN lists'[generation] = 1 .. Len(list) + 1
      /\ \A i \in 1 .. Len(list) : lists'[generation][i] = list[i]
      /\ lists'[generation][Len(list) + 1] = h
      /\ DOMAIN list = 1 .. Len(list)
      /\ Len(list) \in Nat
  BY <1>1, <1>2
<1>5. \A i \in 1 .. Len(list) : list[i] \in Handler
  BY <1>2
<1>6. \A l \in LoadIds : loads[l].next \in Nat
  BY BoundsAssumption DEF OnceInv, TypeOK, LoadRecord
<1>7. ASSUME ~overlapped, NEW i \in 1 .. Len(list), list[i].load # 0
      PROVE  /\ started \in LoadIds
             /\ list[i].load = started
             /\ list[i].ext < loads[started].next
  BY <1>4, <1>7 DEF OnceInv, Sequential
<1>8. Sequential'
  <2> SUFFICES ASSUME ~overlapped
               PROVE  /\ \A l \in LoadIds : l < started => loads'[l].at \in {"over", "failed"}
                      /\ \A i \in 1 .. Len(list) + 1 :
                           LET k == lists'[generation][i]
                           IN  k.load # 0 => /\ started \in LoadIds
                                             /\ k.load = started
                                             /\ k.ext < loads'[started].next
    BY <1>4 DEF Sequential
  <2>1. \A l \in LoadIds : l < started => loads'[l].at \in {"over", "failed"}
    BY DEF OnceInv, Sequential
  <2>2. ASSUME NEW i \in 1 .. Len(list), lists'[generation][i].load # 0
        PROVE  /\ started \in LoadIds
               /\ lists'[generation][i].load = started
               /\ lists'[generation][i].ext < loads'[started].next
    <3>1. list[i].ext \in Nat /\ loads[started].next \in Nat
      BY <1>4, <1>5, <1>6, <1>7, <2>2 DEF Handler, Extensions
    <3>2. loads'[started].next \in Nat /\ loads'[started].next >= loads[started].next
      BY <1>4, <1>7, <2>2
    <3>3. /\ started \in LoadIds
          /\ lists'[generation][i].load = started
          /\ lists'[generation][i].ext < loads[started].next
      BY <1>4, <1>7, <2>2
    <3> QED
      BY <1>4, <3>1, <3>2, <3>3
  <2>3. ASSUME h.load # 0
        PROVE  started \in LoadIds /\ h.load = started /\ h.ext < loads'[started].next
    BY <2>3, BoundsAssumption DEF LoadIds, Extensions
  <2> QED
    BY <1>4, <2>1, <2>2, <2>3
<1>9. OnceUnlessOverlapped'
  <2> SUFFICES ASSUME ~overlapped,
                      NEW i \in 1 .. Len(list) + 1, NEW j \in 1 .. Len(list) + 1,
                      lists'[generation][i].load # 0, lists'[generation][j].load # 0,
                      lists'[generation][i].ext = lists'[generation][j].ext
               PROVE  i = j
    BY <1>4 DEF OnceUnlessOverlapped, LoadedOnce
  <2>1. CASE i \in 1 .. Len(list) /\ j \in 1 .. Len(list)
    BY <1>4, <2>1 DEF OnceInv, OnceUnlessOverlapped, LoadedOnce
  <2>2. ASSUME load # 0, NEW k \in 1 .. Len(list), list[k].load # 0 PROVE list[k].ext # ext
    BY <1>7, <2>2, <1>5 DEF Extensions, Handler
  <2>3. CASE i = Len(list) + 1 /\ j \in 1 .. Len(list)
    BY <1>4, <2>2, <2>3
  <2>4. CASE j = Len(list) + 1 /\ i \in 1 .. Len(list)
    BY <1>4, <2>2, <2>4
  <2>5. CASE i = Len(list) + 1 /\ j = Len(list) + 1
    BY <2>5
  <2>6. \A n \in 1 .. Len(list) + 1 : n = Len(list) + 1 \/ n \in 1 .. Len(list)
    BY <1>4
  <2> QED
    BY <2>1, <2>3, <2>4, <2>5, <2>6
<1> QED
  BY <1>3, <1>8, <1>9

LEMMA NextOnce == OnceInv /\ [Next]_vars => OnceInv'
<1> SUFFICES ASSUME OnceInv, [Next]_vars PROVE OnceInv'
  OBVIOUS
<1> USE BoundsAssumption
<1>0. TypeOK /\ TypeOK'
  BY NextTypes DEF OnceInv
<1>1. generation \in Nat /\ started \in 0 .. MaxLoads /\ loads \in [LoadIds -> LoadRecord]
  BY <1>0 DEF TypeOK, Generations
<1>2. ASSUME UNCHANGED <<generation, lists, started, overlapped>>,
             \A l \in LoadIds : /\ loads'[l].next \in Nat /\ loads'[l].next >= loads[l].next
                                /\ loads[l].at \in {"unused", "over", "failed"} => loads'[l].at = loads[l].at
                                /\ loads[l].at # "unused" => loads'[l].at # "unused"
      PROVE  (ToCome /\ Sequential /\ OnceUnlessOverlapped)'
  <2>1. ToCome' /\ OnceUnlessOverlapped'
    BY <1>1, <1>2 DEF OnceInv, ToCome, OnceUnlessOverlapped, LoadedOnce
  <2>2. ASSUME ~overlapped, NEW i \in DOMAIN lists[generation], lists[generation][i].load # 0
        PROVE  /\ started \in LoadIds /\ lists[generation][i].load = started
               /\ lists[generation][i].ext < loads'[started].next
    <3>1. /\ started \in LoadIds /\ lists[generation][i].load = started
          /\ lists[generation][i].ext < loads[started].next
      BY <2>2 DEF OnceInv, Sequential
    <3>2. lists[generation][i].ext \in Nat /\ loads[started].next \in Nat
      <4>1. lists[generation][i] \in Handler
        BY <1>0 DEF TypeOK
      <4> QED
        BY <1>1, <3>1, <4>1 DEF Handler, Extensions, LoadRecord
    <3> QED
      BY <1>2, <3>1, <3>2
  <2>3. \A l \in LoadIds : l < started /\ ~overlapped => loads'[l].at \in {"over", "failed"}
    BY <1>2 DEF OnceInv, Sequential
  <2>4. Sequential'
    BY <1>2, <2>2, <2>3 DEF Sequential
  <2> QED
    BY <2>1, <2>4
<1>2a. \A l \in LoadIds : loads[l].next \in Nat /\ loads[l].next >= loads[l].next
  BY <1>1 DEF LoadRecord
<1>3. ASSUME LoadExtensions PROVE (ToCome /\ Sequential /\ OnceUnlessOverlapped)'
  <2>1. /\ started = 0 /\ started' = 1 /\ UNCHANGED <<generation, lists, overlapped>>
        /\ 1 \in LoadIds /\ loads'[1].at = "factories"
        /\ \A l \in LoadIds : l # 1 => loads'[l] = loads[l]
    BY <1>1, <1>3 DEF LoadExtensions, LoadIds, LoadRecord
  <2>2. ToCome'
    BY <2>1 DEF OnceInv, ToCome, LoadIds
  <2>4. OnceUnlessOverlapped'
    BY <2>1 DEF OnceInv, OnceUnlessOverlapped, LoadedOnce
  <2>3. Sequential'
    BY <2>1 DEF OnceInv, Sequential, LoadIds
  <2> QED
    BY <2>2, <2>3, <2>4
<1>4. ASSUME Reload PROVE (ToCome /\ Sequential /\ OnceUnlessOverlapped)'
  <2>1. /\ started \in LoadIds /\ started' = started + 1 /\ generation' = generation + 1
        /\ UNCHANGED lists
        /\ loads'[started + 1].at = "factories"
        /\ \A l \in LoadIds : l # started + 1 => loads'[l] = loads[l]
    <3>1. started \in LoadIds /\ started + 1 \in LoadIds
      BY <1>1, <1>4 DEF Reload, LoadIds
    <3> QED
      BY <1>1, <1>4, <3>1 DEF Reload, Clear, LoadRecord
  <2>5. ~overlapped' => ~overlapped /\ ~InProgress
    BY <1>0, <1>4 DEF Reload, InProgress, TypeOK
  <2>2. lists'[generation'] = <<>>
    BY <1>0, <1>1, <2>1 DEF OnceInv, ToCome, TypeOK
  <2>3. ToCome'
    <3>1. \A g \in Generations : g > generation' => lists'[g] = <<>>
      BY <1>1, <2>1 DEF OnceInv, ToCome, Generations
    <3>2. \A l \in LoadIds : l > started' <=> loads'[l].at = "unused"
      BY <1>1, <2>1 DEF OnceInv, ToCome, LoadIds
    <3> QED
      BY <3>1, <3>2 DEF ToCome
  <2>4. ASSUME ~overlapped', NEW l \in LoadIds, l < started'
        PROVE  loads'[l].at \in {"over", "failed"}
    <3>1. l = started \/ l < started
      BY <1>1, <2>1, <2>4 DEF LoadIds
    <3>2. loads[l].at # "unused"
      BY <1>1, <3>1 DEF OnceInv, ToCome, LoadIds
    <3> QED
      BY <1>1, <2>1, <2>4, <2>5, <3>1, <3>2 DEF InProgress, LoadIds
  <2> QED
    BY <2>2, <2>3, <2>4 DEF Sequential, OnceUnlessOverlapped, LoadedOnce
<1>5. ASSUME NEW l \in LoadIds, FactoryRuns(l)
      PROVE  (ToCome /\ Sequential /\ OnceUnlessOverlapped)'
  <2> DEFINE ext == loads[l].next
  <2>1. /\ ext \in Extensions /\ ext \in Nat /\ l \in 0 .. MaxLoads
        /\ loads[l].at = "factories"
        /\ UNCHANGED <<generation, started, overlapped>>
        /\ loads'[l].next = ext + 1
        /\ \A k \in LoadIds : loads'[k].at = loads[k].at
        /\ \A k \in LoadIds : k # l => loads'[k] = loads[k]
    <3>1. ext \in Extensions /\ ext \in Nat /\ l \in 0 .. MaxLoads
      BY <1>5 DEF FactoryRuns, Extensions, LoadIds
    <3>2. CASE loads' = [loads EXCEPT ![l].next = ext + 1]
      BY <1>1, <1>5, <3>1, <3>2 DEF FactoryRuns, LoadRecord
    <3>3. CASE loads' = [loads EXCEPT ![l].next = ext + 1, ![l].threw = @ \cup {ext}]
      BY <1>1, <1>5, <3>1, <3>3 DEF FactoryRuns, LoadRecord
    <3> QED
      BY <1>5, <3>2, <3>3 DEF FactoryRuns
  <2>2. \A k \in LoadIds : loads[k].next \in Nat
    BY <1>1 DEF LoadRecord
  <2>3. ASSUME NEW k \in LoadIds
        PROVE  loads'[k].next \in Nat /\ loads'[k].next >= loads[k].next
    <3>1. CASE k = l
      BY <2>1, <2>2, <3>1
    <3>2. CASE k # l
      <4>1. loads'[k].next = loads[k].next
        BY <2>1, <3>2
      <4> QED
        BY <2>2, <4>1
    <3> QED
      BY <3>1, <3>2
  <2>4. ~overlapped => l = started
    BY <2>1, LastLoad
  <2>5. CASE RegisterHandler(ext, l)
    BY <2>1, <2>3, <2>4, <2>5, RegisterOnce
  <2>6. CASE UNCHANGED lists
    <3>1. ToCome' /\ OnceUnlessOverlapped'
      BY <2>1, <2>6 DEF OnceInv, ToCome, OnceUnlessOverlapped, LoadedOnce
    <3>2. ASSUME ~overlapped, NEW i \in DOMAIN lists[generation], lists[generation][i].load # 0
          PROVE  /\ started \in LoadIds /\ lists[generation][i].load = started
                 /\ lists[generation][i].ext < loads'[started].next
      <4>1. lists[generation][i] \in Handler
        BY <1>0 DEF TypeOK
      <4>2. lists[generation][i].ext \in Nat
        BY <4>1 DEF Handler, Extensions
      <4>3. started \in LoadIds /\ lists[generation][i].load = started
            /\ lists[generation][i].ext < loads[started].next
        BY <3>2 DEF OnceInv, Sequential
      <4> QED
        BY <2>2, <2>3, <4>2, <4>3
    <3>3. Sequential'
      BY <2>1, <2>6, <3>2 DEF OnceInv, Sequential
    <3> QED
      BY <3>1, <3>3
  <2> QED
    BY <1>5, <2>5, <2>6 DEF FactoryRuns
<1>6. ASSUME NEW l \in LoadIds, BeginStart(l) \/ StartHandler(l) \/ FinishLoad(l) \/ LoadFails(l)
      PROVE  (ToCome /\ Sequential /\ OnceUnlessOverlapped)'
  <2>1. UNCHANGED <<generation, lists, started, overlapped>>
    BY <1>6 DEF BeginStart, StartHandler, FinishLoad, LoadFails
  <2>2. \A k \in LoadIds : /\ loads'[k].next \in Nat /\ loads'[k].next >= loads[k].next
                           /\ loads[k].at \in {"unused", "over", "failed"} => loads'[k].at = loads[k].at
                           /\ loads[k].at # "unused" => loads'[k].at # "unused"
    <3>1. CASE BeginStart(l)
      BY <1>1, <3>1 DEF BeginStart, LoadRecord
    <3>2. CASE StartHandler(l)
      BY <1>1, <3>2 DEF StartHandler, LoadRecord
    <3>3. CASE FinishLoad(l)
      BY <1>1, <3>3 DEF FinishLoad, LoadRecord
    <3>4. CASE LoadFails(l)
      BY <1>1, <3>4 DEF LoadFails, LoadRecord, Extensions
    <3> QED
      BY <1>6, <3>1, <3>2, <3>3, <3>4
  <2> QED
    BY <1>2, <2>1, <2>2
<1>7. ASSUME NEW ext \in Extensions, RegisterLate(ext)
      PROVE  (ToCome /\ Sequential /\ OnceUnlessOverlapped)'
  <2>1. UNCHANGED <<generation, loads, started, overlapped>>
    BY <1>7 DEF RegisterLate
  <2>2. \A l \in LoadIds : loads[l].next \in Nat
    BY <1>1 DEF LoadRecord
  <2>3. 0 \in 0 .. MaxLoads
    OBVIOUS
  <2>4. CASE RegisterHandler(ext, 0)
    BY <2>1, <2>2, <2>3, <2>4, RegisterOnce
  <2>5. CASE UNCHANGED lists
    BY <1>2, <1>2a, <2>1, <2>5
  <2> QED
    BY <1>7, <2>4, <2>5 DEF RegisterLate
<1>8. ASSUME NEW e \in Emissions, Emission(e)
      PROVE  (ToCome /\ Sequential /\ OnceUnlessOverlapped)'
  BY <1>0, <1>2, <1>8, <1>2a, EmissionTypes
<1>9. CASE UNCHANGED vars
  BY <1>0, <1>2, <1>9, <1>2a DEF vars, OnceInv
<1> QED
  BY <1>0, <1>3, <1>4, <1>5, <1>6, <1>7, <1>8, <1>9 DEF Next, Load, OnceInv

\* As long as no reload begins during a load, no extension is registered, and
\* so called, twice by loads, for any number of extensions and reloads.
THEOREM RegisteredOnce == Spec => []OnceUnlessOverlapped
<1>1. OnceInv => OnceUnlessOverlapped
  BY DEF OnceInv
<1> QED
  BY <1>1, InitOnce, NextOnce, PTL DEF Spec

-----------------------------------------------------------------------------
(* Restored and heard *)

Latest == loads[started]

\* The load begun last registers in the current list, for each factory that returned; it is through
\* with the factories when it emits, and with the skills when it is over.
Restoring ==
  /\ started = 0 => lists[generation] = <<>>
  /\ \A l \in LoadIds : loads[l].at = "unused" => loads[l].next = 1
  /\ \A l \in LoadIds : loads[l].at \in {"starting", "finishing", "over"} =>
                          loads[l].next = NumExtensions + 1
  /\ started \in LoadIds =>
       /\ \A ext \in Extensions : ext < Latest.next /\ ext \notin Latest.threw =>
            [ext |-> ext, load |-> started] \in Registered(generation)
       /\ Latest.at = "over" => namespaced = Skills /\ \A s \in Skills : commands[s] # "free"

\* A handler a load registered in the current list has been called for session_start, or its load
\* has failed, has yet to emit it, or to come to it in the list.
Hearing ==
  /\ \A l \in LoadIds : loads[l].at \in {"unused", "factories"} => loads[l].position = 0
  /\ \A i \in DOMAIN lists[generation] :
       LET h == lists[generation][i]
       IN  h.load # 0 =>
             \/ h \in heard
             \/ loads[h.load].at \in {"factories", "failed"}
             \/ /\ loads[h.load].at = "starting" /\ loads[h.load].list = generation
                /\ loads[h.load].position < i

ReloadInv == OnceInv /\ Restoring /\ Hearing

LEMMA InitReload == Init => ReloadInv
<1> SUFFICES ASSUME Init PROVE ReloadInv
  OBVIOUS
<1>1. OnceInv
  BY InitOnce
<1>2. lists[generation] = <<>>
  BY <1>1 DEF Init, OnceInv, TypeOK
<1> QED
  BY <1>1, <1>2 DEF Init, NoLoad, LoadIds, ReloadInv, Restoring, Hearing

\* What the current list holds is a handler, of a load or late.
LEMMA ListTypes ==
  ASSUME TypeOK
  PROVE  /\ generation \in Generations /\ lists[generation] \in Seq(Handler)
         /\ DOMAIN lists[generation] = 1 .. Len(lists[generation]) /\ Len(lists[generation]) \in Nat
         /\ \A i \in DOMAIN lists[generation] :
              /\ lists[generation][i] \in Handler
              /\ lists[generation][i].load # 0 => lists[generation][i].load \in LoadIds
<1>1. generation \in Generations /\ lists[generation] \in Seq(Handler)
  BY DEF TypeOK
<1>2. \A h \in Handler : h.load # 0 => h.load \in LoadIds
  BY BoundsAssumption DEF Handler, LoadIds
<1> QED
  BY <1>1, <1>2

\* Steps that leave the loads and what they registered.
LEMMA KeptReload ==
  ASSUME ReloadInv, UNCHANGED <<generation, lists, loads, started, heard, namespaced>>,
         \A s \in Skills : commands[s] # "free" => commands'[s] # "free"
  PROVE  (Restoring /\ Hearing)'
BY DEF ReloadInv, Restoring, Hearing, Latest, Registered

\* A load begins, with an empty list.
LEMMA BeginReload ==
  ASSUME ReloadInv, TypeOK', started' \in LoadIds, loads[started'].at = "unused",
         loads' = [loads EXCEPT ![started'].at = "factories"], lists'[generation'] = <<>>
  PROVE  (Restoring /\ Hearing)'
<1>1. loads \in [LoadIds -> LoadRecord]
  BY DEF ReloadInv, OnceInv, TypeOK
<1>2. /\ loads'[started'].at = "factories" /\ loads'[started'].next = loads[started'].next
      /\ loads'[started'].position = loads[started'].position
      /\ \A l \in LoadIds : l # started' => loads'[l] = loads[l]
  BY <1>1 DEF LoadRecord
<1>3. loads'[started'].next = 1 /\ loads'[started'].position = 0
  BY <1>2 DEF ReloadInv, Restoring, Hearing
<1>4. Restoring'
  <2>1. \A ext \in Extensions : ~(ext < 1)
    BY DEF Extensions
  <2> QED
    BY <1>2, <1>3, <2>1 DEF ReloadInv, Restoring, Latest
<1>5. Hearing'
  BY <1>2, <1>3 DEF ReloadInv, Hearing
<1> QED
  BY <1>4, <1>5

\* A handler joins the current list: late, or of a load that is at its factories.
LEMMA AppendedHearing ==
  ASSUME ReloadInv, NEW ext \in Extensions, NEW load \in 0 .. MaxLoads, RegisterHandler(ext, load),
         UNCHANGED <<generation, heard>>,
         \A l \in LoadIds : /\ loads'[l].at = loads[l].at /\ loads'[l].list = loads[l].list
                            /\ loads'[l].position = loads[l].position,
         load # 0 => loads[load].at = "factories"
  PROVE  /\ Hearing'
         /\ [ext |-> ext, load |-> load] \in Registered(generation)'
         /\ Registered(generation) \subseteq Registered(generation)'
<1> DEFINE list == lists[generation]
           new == [ext |-> ext, load |-> load]
<1>1. TypeOK
  BY DEF ReloadInv, OnceInv
<1>2. lists'[generation] = Append(list, new) /\ new \in Handler /\ new.load = load
  BY <1>1, HandlerTypes
<1>3. list \in Seq(Handler) /\ DOMAIN list = 1 .. Len(list) /\ Len(list) \in Nat
  BY <1>1, ListTypes
<1>4. \A i \in 1 .. Len(list) : list[i].load # 0 => list[i].load \in LoadIds
  BY <1>1, <1>3, ListTypes
<1> HIDE DEF new, list
<1>5. /\ DOMAIN lists'[generation] = 1 .. Len(list) + 1
      /\ \A i \in 1 .. Len(list) : lists'[generation][i] = list[i]
      /\ lists'[generation][Len(list) + 1] = new
  BY <1>2, <1>3
<1>6. load # 0 => load \in LoadIds
  BY BoundsAssumption DEF LoadIds
<1>7. Hearing'
  <2>1. \A l \in LoadIds : loads'[l].at \in {"unused", "factories"} => loads'[l].position = 0
    BY DEF ReloadInv, Hearing
  <2>2. ASSUME NEW i \in 1 .. Len(list) + 1, lists'[generation][i].load # 0
        PROVE  LET h == lists'[generation][i]
               IN  \/ h \in heard
                   \/ loads'[h.load].at \in {"factories", "failed"}
                   \/ /\ loads'[h.load].at = "starting" /\ loads'[h.load].list = generation
                      /\ loads'[h.load].position < i
    <3>1. CASE i = Len(list) + 1
      BY <1>2, <1>5, <1>6, <2>2, <3>1
    <3>2. CASE i \in 1 .. Len(list)
      <4>1. list[i].load # 0 /\ list[i].load \in LoadIds
        BY <1>4, <1>5, <2>2, <3>2
      <4>2. \/ list[i] \in heard
            \/ loads[list[i].load].at \in {"factories", "failed"}
            \/ /\ loads[list[i].load].at = "starting" /\ loads[list[i].load].list = generation
               /\ loads[list[i].load].position < i
        BY <1>3, <3>2, <4>1 DEF ReloadInv, Hearing, list
      <4> QED
        BY <1>5, <3>2, <4>1, <4>2
    <3> QED
      BY <1>3, <3>1, <3>2
  <2> QED
    BY <1>5, <2>1, <2>2 DEF Hearing
<1>8. new \in Registered(generation)' /\ Registered(generation) \subseteq Registered(generation)'
  <2>1. Len(list) + 1 \in 1 .. Len(list) + 1 /\ \A i \in 1 .. Len(list) : i \in 1 .. Len(list) + 1
    BY <1>3
  <2> QED
    BY <1>3, <1>5, <2>1 DEF Registered, list
<1> QED
  BY <1>7, <1>8 DEF new

LEMMA FactoryReload ==
  ASSUME ReloadInv, NEW l \in LoadIds, FactoryRuns(l)
  PROVE  (Restoring /\ Hearing)'
<1> DEFINE ext == loads[l].next
<1>1. /\ loads \in [LoadIds -> LoadRecord] /\ loads[l].at = "factories"
      /\ ext \in Extensions /\ ext \in Nat /\ l \in 0 .. MaxLoads /\ l # 0
      /\ UNCHANGED <<generation, started, namespaced, heard>>
  BY BoundsAssumption DEF ReloadInv, OnceInv, TypeOK, FactoryRuns, Extensions, LoadIds
<1>2. \/ /\ RegisterHandler(ext, l) /\ loads' = [loads EXCEPT ![l].next = ext + 1]
         /\ \E names \in SUBSET Skills : RegisterCommands(names)
      \/ /\ loads' = [loads EXCEPT ![l].next = ext + 1, ![l].threw = @ \cup {ext}]
         /\ UNCHANGED <<lists, commands, claimed>>
  BY DEF FactoryRuns
<1>3. /\ loads'[l].next = ext + 1
      /\ \A k \in LoadIds : k # l => loads'[k] = loads[k]
      /\ \A k \in LoadIds : /\ loads'[k].at = loads[k].at /\ loads'[k].list = loads[k].list
                            /\ loads'[k].position = loads[k].position
  <2>1. CASE loads' = [loads EXCEPT ![l].next = ext + 1]
    BY <1>1, <2>1 DEF LoadRecord
  <2>2. CASE loads' = [loads EXCEPT ![l].next = ext + 1, ![l].threw = @ \cup {ext}]
    BY <1>1, <2>2 DEF LoadRecord
  <2> QED
    BY <1>2, <2>1, <2>2
<1>4. \/ /\ [ext |-> ext, load |-> l] \in Registered(generation)' /\ Hearing'
         /\ Registered(generation) \subseteq Registered(generation)' /\ loads'[l].threw = loads[l].threw
      \/ loads'[l].threw = loads[l].threw \cup {ext} /\ Hearing' /\ Registered(generation)' = Registered(generation)
  <2>1. CASE RegisterHandler(ext, l) /\ loads' = [loads EXCEPT ![l].next = ext + 1]
    <3>1. loads'[l].threw = loads[l].threw
      BY <1>1, <2>1 DEF LoadRecord
    <3> HIDE DEF ext
    <3> QED
      BY <1>1, <1>3, <2>1, <3>1, AppendedHearing
  <2>2. CASE loads' = [loads EXCEPT ![l].next = ext + 1, ![l].threw = @ \cup {ext}] /\ UNCHANGED lists
    <3>1. loads'[l].threw = loads[l].threw \cup {ext}
      BY <1>1, <2>2 DEF LoadRecord
    <3>2. Registered(generation)' = Registered(generation)
      BY <1>1, <2>2 DEF Registered
    <3>3. Hearing'
      <4>1. \A k \in LoadIds : loads'[k].at \in {"unused", "factories"} => loads'[k].position = 0
        BY <1>3 DEF ReloadInv, Hearing
      <4>2. TypeOK
        BY DEF ReloadInv, OnceInv
      <4> QED
        BY <1>1, <1>3, <2>2, <4>1, <4>2, ListTypes DEF ReloadInv, Hearing
    <3> QED
      BY <3>1, <3>2, <3>3
  <2> QED
    BY <1>2, <2>1, <2>2
<1>5. \A s \in Skills : commands[s] # "free" => commands'[s] # "free"
  BY <1>2 DEF RegisterCommands
<1>6. \A k \in LoadIds : /\ loads'[k].at = "unused" => loads'[k].next = 1
                         /\ loads'[k].at \in {"starting", "finishing", "over"} =>
                              loads'[k].next = NumExtensions + 1
  BY <1>1, <1>3 DEF ReloadInv, Restoring
<1>7. ASSUME started \in LoadIds, NEW e \in Extensions, e < loads'[started].next,
             e \notin loads'[started].threw
      PROVE  [ext |-> e, load |-> started] \in Registered(generation)'
  <2>1. CASE started = l
    <3>1. e < ext \/ e = ext
      BY <1>1, <1>3, <1>7, <2>1 DEF Extensions
    <3>2. CASE e < ext
      <4>1. e \notin loads[l].threw
        BY <1>4, <1>7, <2>1
      <4> QED
        BY <1>4, <2>1, <3>2, <4>1 DEF ReloadInv, Restoring, Latest
    <3>3. CASE e = ext
      BY <1>4, <1>7, <2>1, <3>3
    <3> QED
      BY <3>1, <3>2, <3>3
  <2>2. CASE started # l
    BY <1>3, <1>4, <1>7, <2>2 DEF ReloadInv, Restoring, Latest
  <2> QED
    BY <2>1, <2>2
<1>8. started \in LoadIds /\ loads'[started].at = "over" =>
        namespaced = Skills /\ \A s \in Skills : commands'[s] # "free"
  BY <1>3, <1>5 DEF ReloadInv, Restoring, Latest
<1>9. Restoring'
  <2>1. started # 0
    BY <1>1 DEF ReloadInv, OnceInv, ToCome, LoadIds
  <2> QED
    BY <1>1, <1>6, <1>7, <1>8, <2>1 DEF Restoring, Latest
<1> QED
  BY <1>4, <1>9

\* A load that is through with its factories emits session_start and registers the skills.
LEMMA LoadReload ==
  ASSUME ReloadInv, NEW l \in LoadIds, BeginStart(l) \/ StartHandler(l) \/ FinishLoad(l)
  PROVE  (Restoring /\ Hearing)'
<1>0. TypeOK
  BY DEF ReloadInv, OnceInv
<1>1. /\ loads \in [LoadIds -> LoadRecord] /\ UNCHANGED <<generation, lists, started>>
      /\ generation \in Generations
  BY <1>0 DEF TypeOK, BeginStart, StartHandler, FinishLoad
<1> DEFINE list == lists[generation]
<1>2. /\ DOMAIN list = 1 .. Len(list) /\ Len(list) \in Nat
      /\ \A i \in DOMAIN list : list[i].load # 0 => list[i].load \in LoadIds
  BY <1>0, ListTypes
<1>3. \A i \in DOMAIN list : list[i].load # 0 =>
        \/ list[i] \in heard
        \/ loads[list[i].load].at \in {"factories", "failed"}
        \/ /\ loads[list[i].load].at = "starting" /\ loads[list[i].load].list = generation
           /\ loads[list[i].load].position < i
  BY DEF ReloadInv, Hearing
<1>4. /\ \A k \in LoadIds : k # l => loads'[k] = loads[k]
      /\ loads'[l].next = loads[l].next /\ loads'[l].threw = loads[l].threw
      /\ loads'[l].at \in {"starting", "finishing", "over"} /\ loads[l].next = NumExtensions + 1
  <2>1. CASE BeginStart(l)
    <3>1. loads[l].next = NumExtensions + 1
      BY <1>1, <2>1, BoundsAssumption DEF BeginStart, LoadRecord, Extensions
    <3> QED
      BY <1>1, <2>1, <3>1 DEF BeginStart, LoadRecord
  <2>2. CASE StartHandler(l)
    BY <1>1, <2>2 DEF StartHandler, LoadRecord, ReloadInv, Restoring
  <2>3. CASE FinishLoad(l)
    BY <1>1, <2>3 DEF FinishLoad, LoadRecord, ReloadInv, Restoring
  <2> QED
    BY <2>1, <2>2, <2>3
<1>5. Restoring'
  <2>1. started \in LoadIds /\ loads'[started].at = "over" =>
          namespaced' = Skills /\ \A s \in Skills : commands'[s] # "free"
    <3>1. CASE FinishLoad(l)
      <4>1. \A s \in Skills : commands'[s] = IF commands[s] = "free" THEN "skill" ELSE commands[s]
        BY <3>1 DEF FinishLoad, RegisterSkills
      <4> QED
        BY <3>1, <4>1 DEF FinishLoad, RegisterSkills
    <3>2. CASE BeginStart(l) \/ StartHandler(l)
      <4>1. UNCHANGED <<commands, namespaced>> /\ loads'[l].at # "over"
        BY <1>1, <3>2 DEF BeginStart, StartHandler, LoadRecord
      <4> QED
        BY <1>4, <4>1 DEF ReloadInv, Restoring, Latest
    <3> QED
      BY <3>1, <3>2
  <2>2. \A k \in LoadIds : /\ loads'[k].at = "unused" => loads'[k].next = 1
                           /\ loads'[k].at \in {"starting", "finishing", "over"} =>
                                loads'[k].next = NumExtensions + 1
    BY <1>4 DEF ReloadInv, Restoring
  <2>3. Registered(generation)' = Registered(generation)
    BY <1>1 DEF Registered
  <2>4. started \in LoadIds => loads'[started].next = loads[started].next /\ loads'[started].threw = loads[started].threw
    BY <1>4
  <2> QED
    BY <1>1, <2>1, <2>2, <2>3, <2>4 DEF ReloadInv, Restoring, Latest
<1>6. \A k \in LoadIds : loads'[k].at \in {"unused", "factories"} => loads'[k].position = 0
  BY <1>4 DEF ReloadInv, Hearing
<1>7. ASSUME NEW i \in DOMAIN list, list[i].load # 0
      PROVE  LET k == list[i].load
             IN  \/ list[i] \in heard'
                 \/ loads'[k].at \in {"factories", "failed"}
                 \/ loads'[k].at = "starting" /\ loads'[k].list = generation /\ loads'[k].position < i
  <2> DEFINE k == list[i].load
  <2>1. heard \subseteq heard'
    BY DEF BeginStart, StartHandler, FinishLoad
  <2>2. CASE list[i] \in heard \/ k # l
    BY <1>2, <1>3, <1>4, <1>7, <2>1, <2>2
  <2>3. CASE list[i] \notin heard /\ k = l /\ BeginStart(l)
    <3>1. loads[l].position = 0 /\ list # <<>>
      BY <1>2, <2>3 DEF BeginStart, ReloadInv, Hearing
    <3>2. loads'[l].at = "starting" /\ loads'[l].list = generation /\ loads'[l].position = 0
      BY <1>1, <2>3, <3>1 DEF BeginStart, LoadRecord
    <3> QED
      BY <1>2, <2>3, <3>2
  <2>4. CASE list[i] \notin heard /\ k = l /\ StartHandler(l)
    <3>1. loads[l].at = "starting" /\ loads[l].list = generation /\ loads[l].position < i
      BY <1>3, <1>7, <2>4 DEF StartHandler
    <3>2. /\ loads'[l].at = "starting" /\ loads'[l].list = generation
          /\ loads'[l].position = loads[l].position + 1 /\ loads[l].position \in Nat
      BY <1>1, <2>4, <3>1 DEF StartHandler, LoadRecord
    <3>3. list[loads[l].position + 1] \in heard'
      BY <2>4, <3>1 DEF StartHandler
    <3>4. CASE loads[l].position + 1 = i
      BY <3>3, <3>4
    <3>5. CASE loads[l].position + 1 # i
      <4>1. loads[l].position + 1 < i
        BY <1>2, <3>1, <3>2, <3>5
      <4> QED
        BY <2>4, <3>2, <4>1
    <3> QED
      BY <3>4, <3>5
  <2>5. CASE list[i] \notin heard /\ k = l /\ FinishLoad(l)
    <3>1. loads[l].at = "starting" /\ loads[l].list = generation /\ loads[l].position < i
      BY <1>3, <1>7, <2>5 DEF FinishLoad
    <3>2. loads[l].position = Len(list)
      BY <2>5, <3>1 DEF FinishLoad
    <3> QED
      BY <1>2, <3>1, <3>2
  <2> QED
    BY <2>2, <2>3, <2>4, <2>5
<1>8. Hearing'
  BY <1>1, <1>6, <1>7 DEF Hearing
<1> QED
  BY <1>5, <1>8

\* A load an error listener ends.
LEMMA FailedReload ==
  ASSUME ReloadInv, NEW l \in LoadIds, LoadFails(l)
  PROVE  (Restoring /\ Hearing)'
<1> DEFINE list == lists[generation]
<1>0. TypeOK
  BY DEF ReloadInv, OnceInv
<1>1. /\ loads \in [LoadIds -> LoadRecord]
      /\ UNCHANGED <<generation, lists, started, commands, namespaced>> /\ heard \subseteq heard'
  BY <1>0 DEF TypeOK, LoadFails
<1>2. /\ \A k \in LoadIds : k # l => loads'[k] = loads[k]
      /\ loads'[l].at = "failed"
      /\ \/ /\ loads'[l].next = loads[l].next + 1 /\ loads[l].next \in Extensions
            /\ loads'[l].threw = loads[l].threw \cup {loads[l].next}
         \/ loads'[l].next = loads[l].next /\ loads'[l].threw = loads[l].threw
  BY <1>1 DEF LoadFails, LoadRecord
<1>3. Restoring'
  <2>1. ASSUME started = l, NEW ext \in Extensions, ext < loads'[l].next, ext \notin loads'[l].threw
        PROVE  [ext |-> ext, load |-> started] \in Registered(generation)
    <3>1. ext < loads[l].next /\ ext \notin loads[l].threw
      BY <1>2, <2>1 DEF Extensions
    <3> QED
      BY <2>1, <3>1 DEF ReloadInv, Restoring, Latest
  <2>2. Registered(generation)' = Registered(generation)
    BY <1>1 DEF Registered
  <2>3. \A k \in LoadIds : /\ loads'[k].at = "unused" => loads'[k].next = 1
                           /\ loads'[k].at \in {"starting", "finishing", "over"} =>
                                loads'[k].next = NumExtensions + 1
    BY <1>2 DEF ReloadInv, Restoring
  <2>4. CASE started = l
    BY <1>1, <1>2, <2>1, <2>2, <2>3, <2>4 DEF ReloadInv, Restoring, Latest
  <2>5. CASE started # l
    BY <1>1, <1>2, <2>2, <2>3, <2>5 DEF ReloadInv, Restoring, Latest
  <2> QED
    BY <2>4, <2>5
<1>4. \A i \in DOMAIN list : list[i].load # 0 =>
        /\ list[i].load \in LoadIds
        /\ \/ list[i] \in heard
           \/ loads[list[i].load].at \in {"factories", "failed"}
           \/ /\ loads[list[i].load].at = "starting" /\ loads[list[i].load].list = generation
              /\ loads[list[i].load].position < i
  BY <1>0, ListTypes DEF ReloadInv, Hearing
<1>5. \A k \in LoadIds : loads'[k].at \in {"unused", "factories"} => loads'[k].position = 0
  BY <1>2 DEF ReloadInv, Hearing
<1>6. Hearing'
  BY <1>1, <1>2, <1>4, <1>5 DEF Hearing
<1> QED
  BY <1>3, <1>6

LEMMA NextReload == ReloadInv /\ [Next]_vars => ReloadInv'
<1> SUFFICES ASSUME ReloadInv, [Next]_vars PROVE (Restoring /\ Hearing)'
  BY NextOnce DEF ReloadInv
<1>0. TypeOK /\ TypeOK' /\ OnceInv
  BY NextTypes DEF ReloadInv, OnceInv
<1>1. CASE LoadExtensions
  <2>1. started = 0 /\ started' = 1 /\ 1 \in LoadIds /\ UNCHANGED <<generation, lists>>
    BY <1>1, BoundsAssumption DEF LoadExtensions, LoadIds
  <2>2. loads[1].at = "unused" /\ generation = 0
    BY <1>0, <2>1 DEF OnceInv, ToCome, TypeOK
  <2>3. lists[generation] = <<>>
    BY <2>1 DEF ReloadInv, Restoring
  <2> QED
    BY <1>0, <1>1, <2>1, <2>2, <2>3, BeginReload DEF LoadExtensions
<1>2. CASE Reload
  <2>1. /\ started' = started + 1 /\ generation' = generation + 1 /\ UNCHANGED lists
        /\ started \in Nat /\ started' \in LoadIds /\ generation' \in Generations /\ generation \in Nat
    BY <1>0, <1>2, BoundsAssumption DEF Reload, Clear, TypeOK, LoadIds, Generations
  <2>2. loads[started'].at = "unused" /\ lists'[generation'] = <<>>
    BY <2>1 DEF ReloadInv, OnceInv, ToCome
  <2> QED
    BY <1>0, <1>2, <2>1, <2>2, BeginReload DEF Reload
<1>3. ASSUME NEW l \in LoadIds, Load(l) PROVE (Restoring /\ Hearing)'
  BY <1>3, FactoryReload, LoadReload, FailedReload DEF Load
<1>4. ASSUME NEW ext \in Extensions, RegisterLate(ext) PROVE (Restoring /\ Hearing)'
  <2>1. UNCHANGED <<generation, namespaced, loads, started, heard>>
    BY <1>4 DEF RegisterLate
  <2>2. CASE RegisterHandler(ext, 0) /\ UNCHANGED commands
    <3>1. 0 \in 0 .. MaxLoads
      BY BoundsAssumption
    <3>2. Hearing' /\ Registered(generation) \subseteq Registered(generation)'
      BY <2>1, <2>2, <3>1, AppendedHearing
    <3>3. started # 0
      <4>1. PICK l \in LoadIds : loads[l].next > ext
        BY <1>4 DEF RegisterLate
      <4>2. loads[l].at # "unused"
        BY <4>1 DEF ReloadInv, Restoring, Extensions
      <4> QED
        BY <4>2 DEF ReloadInv, OnceInv, ToCome, LoadIds
    <3>4. Restoring'
      BY <2>1, <2>2, <3>2, <3>3 DEF ReloadInv, Restoring, Latest
    <3> QED
      BY <3>2, <3>4
  <2>3. CASE \E s \in Skills : RegisterCommands({s}) /\ UNCHANGED lists
    <3>1. \A s \in Skills : commands[s] # "free" => commands'[s] # "free"
      BY <2>3 DEF RegisterCommands
    <3> QED
      BY <2>1, <2>3, <3>1, KeptReload
  <2> QED
    BY <1>4, <2>2, <2>3 DEF RegisterLate
<1>5. ASSUME NEW e \in Emissions, Emission(e) PROVE (Restoring /\ Hearing)'
  BY <1>0, <1>5, EmissionTypes, KeptReload
<1>6. CASE UNCHANGED vars
  BY <1>6, KeptReload DEF vars
<1> QED
  BY <1>1, <1>2, <1>3, <1>4, <1>5, <1>6 DEF Next

LEMMA ReloadInvAlways == Spec => []ReloadInv
BY InitReload, NextReload, PTL DEF Spec

\* However loads and reloads overlapped, the latest registration of every extension that did not
\* throw is current in the end, and so is every skill's.
THEOREM ReloadsRestore == Spec => []ReloadRestores
<1>1. ReloadInv => ReloadRestores
  <2> SUFFICES ASSUME ReloadInv, Settled, loads[started].at = "over"
               PROVE  /\ \A ext \in Extensions \ loads[started].threw :
                           [ext |-> ext, load |-> started] \in Registered(generation)
                      /\ namespaced = Skills
                      /\ \A s \in Skills : commands[s] # "free"
    BY DEF ReloadRestores
  <2>1. started \in LoadIds
    BY DEF Settled, ReloadInv, OnceInv, TypeOK, LoadIds
  <2>3. loads[started].next = NumExtensions + 1
    BY <2>1 DEF ReloadInv, Restoring
  <2>2. \A ext \in Extensions : ext < loads[started].next
    BY <2>3, BoundsAssumption DEF Extensions
  <2> QED
    BY <2>1, <2>2 DEF ReloadInv, Restoring, Latest
<1> QED
  BY <1>1, ReloadInvAlways, PTL

\* No handler a load registered in the current list has missed session_start when the load is over.
THEOREM StartsHeard == Spec => []StartHeard
<1>1. ReloadInv => StartHeard
  <2> SUFFICES ASSUME ReloadInv, NEW i \in DOMAIN lists[generation],
                      lists[generation][i].load # 0, loads[lists[generation][i].load].at = "over"
               PROVE  lists[generation][i] \in heard
    BY DEF StartHeard, Registered
  <2>1. lists[generation][i].load \in LoadIds
    BY ListTypes DEF ReloadInv, OnceInv
  <2> QED
    BY <2>1 DEF ReloadInv, Hearing
<1> QED
  BY <1>1, ReloadInvAlways, PTL

-----------------------------------------------------------------------------
(* Emissions *)

\* No throw and no reload ends an emission before every handler of its list was called.
THEOREM HandlersNotSkipped == Spec => NoHandlerSkipped
<1>1. ASSUME TypeOK, [Next]_vars, NEW e \in Emissions,
             emissions[e].at = "calling", emissions'[e].at = "over"
      PROVE  \/ emissions[e].position = Len(lists[emissions[e].list])
             \/ emissions[e].kind = "first" /\ emissions'[e].answer # <<>>
  <2>0. emissions \in [Emissions -> EmissionRecord]
    BY <1>1 DEF TypeOK
  <2>1. PICK f \in Emissions : Emission(f)
    <3>1. ~UNCHANGED emissions
      BY <1>1
    <3> QED
      BY <1>1, <3>1 DEF Next, vars, LoadExtensions, Reload, Load, FactoryRuns, BeginStart,
         StartHandler, FinishLoad, LoadFails, RegisterLate
  <2>2. f = e
    BY <1>1, <2>0, <2>1 DEF Emission, Emit, Silent, FirstAnswer, LastAnswer, ChainAnswer, EmitEnds,
       EmitFails, Outcome
  <2>3. EmitEnds(e) \/ FirstAnswer(e)
    <3>1. \A kind \in Kinds : ~Emit(e, kind)
      BY <1>1 DEF Emit
    <3>2. ~(Silent(e) \/ LastAnswer(e) \/ ChainAnswer(e) \/ EmitFails(e))
      BY <1>1, <2>0 DEF Silent, LastAnswer, ChainAnswer, EmitFails, NoEmission, Outcome
    <3> QED
      BY <2>1, <2>2, <3>1, <3>2 DEF Emission
  <2>4. CASE EmitEnds(e)
    BY <2>4 DEF EmitEnds
  <2>5. CASE FirstAnswer(e)
    <3>1. emissions'[e].answer = <<NextHandler(e)>>
      BY <2>0, <2>5 DEF FirstAnswer, Outcome
    <3> QED
      BY <2>5, <3>1 DEF FirstAnswer
  <2> QED
    BY <2>3, <2>4, <2>5
<1>2. TypeOK /\ [Next]_vars =>
        \A e \in Emissions :
          emissions[e].at = "calling" /\ emissions'[e].at = "over" =>
            \/ emissions[e].position = Len(lists[emissions[e].list])
            \/ emissions[e].kind = "first" /\ emissions'[e].answer # <<>>
  BY <1>1
<1> QED
  BY <1>2, RunnerTypeCorrect, PTL DEF Spec, NoHandlerSkipped

Answered(e) == {i \in DOMAIN emissions[e].outcomes : emissions[e].outcomes[i] = "answers"}

\* Every handler called has an outcome; a first answer ends an emission, and a chain's next handler
\* is given the answer so far.
Called(e) ==
  LET emission == emissions[e]
  IN  /\ Len(emission.outcomes) = emission.position
      /\ emission.position <= Len(lists[emission.list])
      /\ emission.at = "unused" => emission.position = 0 /\ emission.answer = <<>> /\ emission.current = <<>>
      /\ emission.at = "calling" /\ emission.kind = "first" => Answered(e) = {}
      /\ emission.kind = "chain" => emission.current = emission.answer

AnswerInv == TypeOK /\ \A e \in Emissions : Called(e) /\ Composes(e)

LEMMA EmissionFields ==
  ASSUME TypeOK, NEW e \in Emissions
  PROVE  LET emission == emissions[e]
         IN  /\ emission \in EmissionRecord /\ emission.position \in Nat
             /\ emission.answer \in Seq(Handler) /\ emission.current \in Seq(Handler)
             /\ emission.outcomes \in Seq({"silent", "answers"})
             /\ lists[emission.list] \in Seq(Handler)
BY DEF TypeOK, EmissionRecord

LEMMA CountedKinds ==
  ASSUME NEW e
  PROVE  /\ emissions[e].kind = "first" => Counted(e) = {i \in Answered(e) : \A j \in Answered(e) : i <= j}
         /\ emissions[e].kind = "last" => Counted(e) = {i \in Answered(e) : \A j \in Answered(e) : j <= i}
         /\ emissions[e].kind \notin {"first", "last"} => Counted(e) = Answered(e)
BY DEF Counted, Answered

\* An emission nothing answered has an empty answer.
LEMMA NothingAnswered ==
  ASSUME NEW e, Answered(e) = {}, emissions[e].answer = <<>>
  PROVE  Composes(e)
<1>1. Counted(e) = {}
  BY CountedKinds
<1>2. DOMAIN emissions[e].answer = {}
  OBVIOUS
<1>3. <<>> \in [{} -> {}]
  OBVIOUS
<1> QED
  BY <1>1, <1>2, <1>3 DEF Composes

\* An emission that takes no step keeps its answer, whatever its list is added.
LEMMA KeptAnswer ==
  ASSUME AnswerInv, NEW e \in Emissions, emissions'[e] = emissions[e], TypeOK',
         \A g \in Generations : /\ Len(lists'[g]) >= Len(lists[g])
                                /\ \A i \in 1 .. Len(lists[g]) : lists'[g][i] = lists[g][i]
  PROVE  (Called(e) /\ Composes(e))'
<1> DEFINE emission == emissions[e]
           list == lists[emission.list]
<1>1. /\ emission.list \in Generations /\ list \in Seq(Handler) /\ Len(list) \in Nat
      /\ emission.position \in Nat /\ emission.outcomes \in Seq({"silent", "answers"})
      /\ Len(lists'[emission.list]) \in Nat
  <2>1. /\ emission \in EmissionRecord /\ lists \in [Generations -> Seq(Handler)]
        /\ lists' \in [Generations -> Seq(Handler)]
    BY DEF AnswerInv, TypeOK
  <2>2. /\ emission.list \in Generations /\ emission.position \in Nat
        /\ emission.outcomes \in Seq({"silent", "answers"})
    BY <2>1 DEF EmissionRecord
  <2>3. list \in Seq(Handler) /\ lists'[emission.list] \in Seq(Handler)
    BY <2>1, <2>2
  <2> QED
    BY <2>2, <2>3
<1>2. Answered(e)' = Answered(e) /\ Counted(e)' = Counted(e)
  BY DEF Answered, Counted
<1>3. Called(e)'
  BY <1>1, <1>2 DEF AnswerInv, Called
<1>4. Counted(e) \subseteq 1 .. Len(list)
  <2>1. Counted(e) \subseteq Answered(e)
    BY CountedKinds
  <2>2. DOMAIN emission.outcomes = 1 .. Len(emission.outcomes)
    BY <1>1
  <2> QED
    BY <1>1, <2>1, <2>2 DEF AnswerInv, Called, Answered
<1>5. Composes(e)'
  BY <1>1, <1>2, <1>4 DEF AnswerInv, Composes
<1> QED
  BY <1>3, <1>5

\* The handler at its turn adds its outcome.
LEMMA TurnAnswer ==
  ASSUME AnswerInv, TypeOK', NEW e \in Emissions, Turn(e), NEW outcome \in {"silent", "answers"},
         NEW at \in {"calling", "over"}, NEW current \in Seq(Handler), NEW answer \in Seq(Handler),
         Outcome(e, outcome, at, current, answer)
  PROVE  LET n == emissions[e].position + 1
         IN  /\ n \in 1 .. Len(lists[emissions[e].list]) /\ UNCHANGED lists
             /\ \A i \in Answered(e) : i \in Nat /\ i < n
             /\ Answered(e)' = IF outcome = "answers" THEN Answered(e) \cup {n} ELSE Answered(e)
             /\ emissions'[e].at = at /\ emissions'[e].kind = emissions[e].kind
             /\ emissions'[e].list = emissions[e].list /\ emissions'[e].position = n
             /\ emissions'[e].current = current /\ emissions'[e].answer = answer
             /\ Len(emissions'[e].outcomes) = n
<1> DEFINE n == emissions[e].position + 1
           old == emissions[e].outcomes
<1>1. /\ emissions[e].position \in Nat /\ old \in Seq({"silent", "answers"})
      /\ Len(old) = emissions[e].position /\ Len(lists[emissions[e].list]) \in Nat
      /\ emissions \in [Emissions -> EmissionRecord]
  BY EmissionFields DEF AnswerInv, Called, TypeOK
<1>2. n \in 1 .. Len(lists[emissions[e].list]) /\ UNCHANGED lists
  BY <1>1 DEF Turn
<1>3. /\ emissions'[e].at = at /\ emissions'[e].kind = emissions[e].kind
      /\ emissions'[e].list = emissions[e].list /\ emissions'[e].position = n
      /\ emissions'[e].current = current /\ emissions'[e].answer = answer
      /\ emissions'[e].outcomes = Append(old, outcome)
  BY <1>1 DEF Outcome
<1> DEFINE new == Append(old, outcome)
<1>4. /\ DOMAIN old = 1 .. Len(old) /\ DOMAIN new = 1 .. Len(old) + 1 /\ Len(new) = Len(old) + 1
      /\ \A i \in 1 .. Len(old) : new[i] = old[i]
      /\ new[Len(old) + 1] = outcome
  BY <1>1
<1> HIDE DEF new
<1>5. \A i \in Answered(e) : i \in Nat /\ i < n
  BY <1>1, <1>4 DEF Answered
<1>6. Answered(e)' = {i \in 1 .. Len(old) + 1 : new[i] = "answers"}
  BY <1>3, <1>4 DEF Answered, new
<1>7. Answered(e) = {i \in 1 .. Len(old) : old[i] = "answers"}
  BY <1>4 DEF Answered
<1>8. Answered(e)' = IF outcome = "answers" THEN Answered(e) \cup {n} ELSE Answered(e)
  <2>1. \A i \in 1 .. Len(old) + 1 : i \in 1 .. Len(old) \/ i = Len(old) + 1
    BY <1>1
  <2>2. \A i \in 1 .. Len(old) : i \in 1 .. Len(old) + 1
    BY <1>1
  <2>3. n = Len(old) + 1 /\ n \in 1 .. Len(old) + 1
    BY <1>1
  <2> QED
    BY <1>4, <1>6, <1>7, <2>1, <2>2, <2>3
<1> QED
  BY <1>1, <1>2, <1>3, <1>4, <1>5, <1>8 DEF new

\* A handler that answers nothing changes neither the answer nor what counts.
LEMMA SilentAnswer ==
  ASSUME AnswerInv, TypeOK', NEW e \in Emissions, Silent(e)
  PROVE  (Called(e) /\ Composes(e))'
<1>1. /\ emissions[e].current \in Seq(Handler) /\ emissions[e].answer \in Seq(Handler)
      /\ Called(e) /\ Composes(e) /\ Turn(e)
      /\ Outcome(e, "silent", "calling", emissions[e].current, emissions[e].answer)
  BY EmissionFields DEF AnswerInv, Silent
<1>2. /\ emissions[e].position + 1 \in 1 .. Len(lists[emissions[e].list]) /\ UNCHANGED lists
      /\ Answered(e)' = Answered(e)
      /\ emissions'[e].at = "calling" /\ emissions'[e].kind = emissions[e].kind
      /\ emissions'[e].list = emissions[e].list
      /\ emissions'[e].position = emissions[e].position + 1
      /\ emissions'[e].current = emissions[e].current /\ emissions'[e].answer = emissions[e].answer
      /\ Len(emissions'[e].outcomes) = emissions[e].position + 1
  BY <1>1, TurnAnswer
<1>3. Called(e)'
  BY <1>1, <1>2 DEF Called, Turn
<1>4. Counted(e)' = Counted(e)
  <2>1. /\ emissions[e].kind = "first" => Counted(e)' = {i \in Answered(e) : \A j \in Answered(e) : i <= j}
        /\ emissions[e].kind = "last" => Counted(e)' = {i \in Answered(e) : \A j \in Answered(e) : j <= i}
        /\ emissions[e].kind \notin {"first", "last"} => Counted(e)' = Answered(e)
    BY <1>2 DEF Counted, Answered
  <2> QED
    BY <2>1, CountedKinds
<1>5. Composes(e)'
  BY <1>1, <1>2, <1>4 DEF Composes
<1> QED
  BY <1>3, <1>5

\* The first or the last answer stands alone.
LEMMA SingleAnswer ==
  ASSUME AnswerInv, TypeOK', NEW e \in Emissions, FirstAnswer(e) \/ LastAnswer(e)
  PROVE  (Called(e) /\ Composes(e))'
<1> DEFINE n == emissions[e].position + 1
           answer == <<NextHandler(e)>>
<1>1. PICK at \in {"calling", "over"} :
        /\ Outcome(e, "answers", at, emissions[e].current, answer)
        /\ (emissions[e].kind = "first" /\ at = "over") \/ emissions[e].kind = "last"
  BY DEF FirstAnswer, LastAnswer
<1>2. Turn(e) /\ answer \in Seq(Handler) /\ emissions[e].current \in Seq(Handler) /\ Called(e)
  BY TurnTypes, EmissionFields DEF AnswerInv, FirstAnswer, LastAnswer
<1>3. answer[1] = lists[emissions[e].list][n] /\ DOMAIN answer = {1}
  BY DEF NextHandler
<1> HIDE DEF answer
<1>4. /\ n \in 1 .. Len(lists[emissions[e].list]) /\ UNCHANGED lists
      /\ \A i \in Answered(e) : i \in Nat /\ i < n
      /\ Answered(e)' = Answered(e) \cup {n}
      /\ emissions'[e].at = at /\ emissions'[e].kind = emissions[e].kind
      /\ emissions'[e].list = emissions[e].list /\ emissions'[e].position = n
      /\ emissions'[e].answer = answer /\ Len(emissions'[e].outcomes) = n
  BY <1>1, <1>2, TurnAnswer
<1>5. n \in Nat
  BY EmissionFields DEF AnswerInv
<1> HIDE DEF n
<1>6. Called(e)'
  BY <1>1, <1>2, <1>4, <1>5 DEF Called, Turn
<1>7. Counted(e)' = {n}
  <2>1. CASE emissions[e].kind = "first"
    <3>1. Answered(e) = {}
      BY <1>2, <2>1 DEF Called, Turn
    <3>2. Counted(e)' = {i \in {n} : \A j \in {n} : i <= j}
      BY <1>4, <2>1, <3>1 DEF Counted, Answered
    <3> QED
      BY <1>5, <3>2
  <2>2. CASE emissions[e].kind = "last"
    <3>1. Counted(e)' = {i \in Answered(e) \cup {n} : \A j \in Answered(e) \cup {n} : j <= i}
      BY <1>4, <2>2 DEF Counted, Answered
    <3>2. \A i \in Answered(e) : i <= n /\ ~(n <= i)
      BY <1>4, <1>5
    <3>3. \A i \in Counted(e)' : i = n
      BY <3>1, <3>2
    <3>4. n <= n
      BY <1>5
    <3>5. n \in Counted(e)'
      BY <3>1, <3>2, <3>4
    <3> QED
      BY <3>3, <3>5
  <2> QED
    BY <1>1, <2>1, <2>2
<1>8. Composes(e)'
  <2> DEFINE order == [k \in {1} |-> n]
  <2>1. order \in [{1} -> {n}] /\ order[1] = n
    OBVIOUS
  <2>2. \A j, k \in {1} : ~(j < k)
    OBVIOUS
  <2> HIDE DEF order
  <2> QED
    BY <1>3, <1>4, <1>7, <2>1, <2>2 DEF Composes
<1> QED
  BY <1>6, <1>8

\* A chain's answer is made of the one before it.
LEMMA ChainedAnswer ==
  ASSUME AnswerInv, TypeOK', NEW e \in Emissions, ChainAnswer(e)
  PROVE  (Called(e) /\ Composes(e))'
<1> DEFINE n == emissions[e].position + 1
           old == emissions[e].answer
           answer == Append(old, NextHandler(e))
           list == lists[emissions[e].list]
<1>1. /\ Called(e) /\ Composes(e) /\ Turn(e) /\ emissions[e].kind = "chain"
      /\ emissions[e].current = old /\ old \in Seq(Handler)
      /\ Outcome(e, "answers", "calling", answer, answer)
  BY EmissionFields DEF AnswerInv, Called, ChainAnswer
<1>2. answer \in Seq(Handler) /\ NextHandler(e) = list[n]
  BY <1>1, TurnTypes DEF AnswerInv, NextHandler
<1>3. /\ DOMAIN old = 1 .. Len(old) /\ Len(old) \in Nat
      /\ DOMAIN answer = 1 .. Len(old) + 1 /\ answer[Len(old) + 1] = list[n]
      /\ \A k \in 1 .. Len(old) : answer[k] = old[k]
  BY <1>1, <1>2
<1> HIDE DEF answer
<1>4. /\ n \in 1 .. Len(list) /\ UNCHANGED lists
      /\ \A i \in Answered(e) : i \in Nat /\ i < n
      /\ Answered(e)' = Answered(e) \cup {n}
      /\ emissions'[e].at = "calling" /\ emissions'[e].kind = emissions[e].kind
      /\ emissions'[e].list = emissions[e].list /\ emissions'[e].position = n
      /\ emissions'[e].current = answer /\ emissions'[e].answer = answer
      /\ Len(emissions'[e].outcomes) = n
  BY <1>1, <1>2, TurnAnswer
<1>5. n \in Nat
  BY EmissionFields DEF AnswerInv
<1> HIDE DEF n
<1>6. Called(e)'
  BY <1>1, <1>4, <1>5 DEF Called, Turn
<1>7. Counted(e) = Answered(e) /\ Counted(e)' = Answered(e) \cup {n}
  BY <1>1, <1>4, CountedKinds DEF Counted, Answered
<1>8. PICK order \in [1 .. Len(old) -> Answered(e)] :
        /\ \A i \in Answered(e) : \E k \in 1 .. Len(old) : order[k] = i
        /\ \A j, k \in 1 .. Len(old) : j < k => order[j] < order[k]
        /\ \A k \in 1 .. Len(old) : old[k] = list[order[k]]
  <2>1. \E order \in [DOMAIN old -> Counted(e)] :
          /\ \A i \in Counted(e) : \E k \in DOMAIN old : order[k] = i
          /\ \A j, k \in DOMAIN old : j < k => order[j] < order[k]
          /\ \A k \in DOMAIN old : old[k] = list[order[k]]
    BY <1>1 DEF Composes
  <2> HIDE DEF old, list
  <2> QED
    BY <1>3, <1>7, <2>1
<1> DEFINE next == [k \in 1 .. Len(old) + 1 |-> IF k = Len(old) + 1 THEN n ELSE order[k]]
<1>9. /\ \A k \in 1 .. Len(old) : next[k] = order[k] /\ k \in 1 .. Len(old) + 1
      /\ next[Len(old) + 1] = n /\ Len(old) + 1 \in 1 .. Len(old) + 1
      /\ \A k \in 1 .. Len(old) + 1 : k \in 1 .. Len(old) \/ k = Len(old) + 1
  BY <1>3
<1>10. next \in [1 .. Len(old) + 1 -> Answered(e) \cup {n}]
  BY <1>3
<1> HIDE DEF next
<1>11. \A i \in Answered(e) \cup {n} : \E k \in 1 .. Len(old) + 1 : next[k] = i
  BY <1>8, <1>9
<1>12. \A j, k \in 1 .. Len(old) + 1 : j < k => next[j] < next[k]
  <2> SUFFICES ASSUME NEW j \in 1 .. Len(old) + 1, NEW k \in 1 .. Len(old) + 1, j < k
               PROVE  next[j] < next[k]
    OBVIOUS
  <2>1. j \in 1 .. Len(old)
    BY <1>3
  <2>2. CASE k \in 1 .. Len(old)
    BY <1>8, <1>9, <2>1, <2>2
  <2>3. CASE k = Len(old) + 1
    <3>1. order[j] \in Answered(e)
      BY <2>1
    <3> QED
      BY <1>4, <1>9, <2>1, <2>3, <3>1
  <2> QED
    BY <1>9, <2>2, <2>3
<1>13. \A k \in 1 .. Len(old) + 1 : answer[k] = list[next[k]]
  BY <1>3, <1>8, <1>9
<1>14. Composes(e)'
  <2>1. /\ next \in [DOMAIN answer -> Counted(e)']
        /\ \A i \in Counted(e)' : \E k \in DOMAIN answer : next[k] = i
        /\ \A j, k \in DOMAIN answer : j < k => next[j] < next[k]
        /\ \A k \in DOMAIN answer : answer[k] = list[next[k]]
    <3> HIDE DEF old, list
    <3> QED
      BY <1>3, <1>7, <1>10, <1>11, <1>12, <1>13
  <2>2. emissions'[e].answer = answer /\ lists'[emissions'[e].list] = list
    BY <1>4
  <2> HIDE DEF list
  <2> QED
    BY <2>1, <2>2 DEF Composes
<1> QED
  BY <1>6, <1>14

LEMMA InitAnswer == Init => AnswerInv
<1> SUFFICES ASSUME Init, NEW e \in Emissions PROVE Called(e) /\ Composes(e)
  BY InitTypes DEF AnswerInv
<1>1. TypeOK
  BY InitTypes
<1>2. /\ emissions[e].at = "unused" /\ emissions[e].kind = "plain" /\ emissions[e].position = 0
      /\ emissions[e].answer = <<>> /\ emissions[e].current = <<>> /\ emissions[e].outcomes = <<>>
  BY DEF Init, NoEmission
<1>3. Answered(e) = {}
  BY <1>2 DEF Answered
<1>4. Called(e)
  <2>1. Len(lists[emissions[e].list]) \in Nat
    BY <1>1, EmissionFields
  <2> QED
    BY <1>2, <2>1 DEF Called
<1> QED
  BY <1>2, <1>3, <1>4, NothingAnswered

LEMMA NextAnswer == AnswerInv /\ [Next]_vars => AnswerInv'
<1> SUFFICES ASSUME AnswerInv, [Next]_vars, NEW e \in Emissions PROVE (Called(e) /\ Composes(e))'
  BY NextTypes DEF AnswerInv
<1>0. TypeOK /\ TypeOK'
  BY NextTypes DEF AnswerInv
<1>1. ASSUME emissions'[e] = emissions[e], UNCHANGED lists PROVE (Called(e) /\ Composes(e))'
  <2>1. \A g \in Generations : Len(lists[g]) \in Nat
    BY <1>0 DEF TypeOK
  <2> QED
    BY <1>0, <1>1, <2>1, KeptAnswer
<1>2. ASSUME NEW ext \in Extensions, NEW load \in 0 .. MaxLoads, RegisterHandler(ext, load), UNCHANGED emissions
      PROVE  (Called(e) /\ Composes(e))'
  <2> DEFINE new == [ext |-> ext, load |-> load]
  <2>1. /\ lists'[generation] = Append(lists[generation], new) /\ new \in Handler
        /\ \A g \in Generations : g # generation => lists'[g] = lists[g]
    BY <1>0, <1>2, HandlerTypes
  <2> HIDE DEF new
  <2>2. \A g \in Generations : lists[g] \in Seq(Handler) /\ Len(lists[g]) \in Nat
    BY <1>0 DEF TypeOK
  <2>3. ASSUME NEW g \in Generations
        PROVE  Len(lists'[g]) >= Len(lists[g]) /\ \A i \in 1 .. Len(lists[g]) : lists'[g][i] = lists[g][i]
    BY <2>1, <2>2
  <2> QED
    BY <1>0, <1>2, <2>3, KeptAnswer
<1>3. ASSUME NEW kind \in Kinds, Emit(e, kind) PROVE (Called(e) /\ Composes(e))'
  <2>1. /\ emissions[e].at = "unused" /\ emissions[e] \in EmissionRecord /\ Called(e)
        /\ emissions \in [Emissions -> EmissionRecord]
    BY <1>0, <1>3 DEF Emit, TypeOK, AnswerInv
  <2>2. /\ emissions'[e].answer = <<>> /\ emissions'[e].current = <<>> /\ emissions'[e].position = 0
        /\ emissions'[e].outcomes = emissions[e].outcomes /\ Len(emissions[e].outcomes) = 0
        /\ emissions'[e].at # "unused"
    BY <1>3, <2>1 DEF Emit, Called, EmissionRecord
  <2>3. emissions[e].outcomes \in Seq({"silent", "answers"})
    BY <2>1 DEF EmissionRecord
  <2>4. DOMAIN emissions[e].outcomes = {}
    BY <2>2, <2>3
  <2>5. Answered(e)' = {}
    BY <2>2, <2>4 DEF Answered
  <2>6. Len(lists'[emissions'[e].list]) \in Nat
    BY <1>0 DEF TypeOK, EmissionRecord
  <2>7. Called(e)'
    BY <2>2, <2>5, <2>6 DEF Called
  <2>8. Counted(e)' = {}
    BY <2>5 DEF Counted, Answered
  <2>9. DOMAIN emissions'[e].answer = {} /\ <<>> \in [{} -> {}]
    BY <2>2
  <2>10. Composes(e)'
    BY <2>8, <2>9 DEF Composes
  <2> QED
    BY <2>7, <2>10
<1>4. ASSUME EmitEnds(e) \/ EmitFails(e) PROVE (Called(e) /\ Composes(e))'
  <2>1. /\ emissions'[e].at \in {"over", "failed"} /\ emissions'[e].kind = "plain" /\ emissions'[e].position = 0
        /\ emissions'[e].answer = <<>> /\ emissions'[e].outcomes = <<>>
    BY <1>0, <1>4 DEF EmitEnds, EmitFails, NoEmission, TypeOK
  <2>2. Answered(e)' = {}
    BY <2>1 DEF Answered
  <2>3. Len(lists'[emissions'[e].list]) \in Nat
    BY <1>0 DEF TypeOK, EmissionRecord
  <2>4. Called(e)'
    BY <2>1, <2>2, <2>3 DEF Called
  <2>5. Counted(e)' = {}
    BY <2>2 DEF Counted, Answered
  <2>6. DOMAIN emissions'[e].answer = {} /\ <<>> \in [{} -> {}]
    BY <2>1
  <2>7. Composes(e)'
    BY <2>5, <2>6 DEF Composes
  <2> QED
    BY <2>4, <2>7
<1>5. ASSUME NEW f \in Emissions, Emission(f) PROVE (Called(e) /\ Composes(e))'
  <2>1. CASE f = e
    BY <1>0, <1>3, <1>4, <1>5, <2>1, SilentAnswer, SingleAnswer, ChainedAnswer DEF Emission
  <2>2. CASE f # e
    <3>1. emissions'[e] = emissions[e]
      BY <1>0, <1>5, <2>2 DEF Emission, Emit, Silent, FirstAnswer, LastAnswer, ChainAnswer, EmitEnds,
         EmitFails, Outcome, TypeOK
    <3> QED
      BY <1>0, <1>1, <1>5, <3>1, EmissionTypes
  <2> QED
    BY <2>1, <2>2
<1>6. ASSUME NEW l \in LoadIds, Load(l) PROVE (Called(e) /\ Composes(e))'
  <2>1. UNCHANGED emissions
    BY <1>6 DEF Load, FactoryRuns, BeginStart, StartHandler, FinishLoad, LoadFails
  <2>2. UNCHANGED lists \/ (loads[l].next \in Extensions /\ RegisterHandler(loads[l].next, l))
    BY <1>6 DEF Load, FactoryRuns, BeginStart, StartHandler, FinishLoad, LoadFails
  <2>3. l \in 0 .. MaxLoads
    BY BoundsAssumption DEF LoadIds
  <2> QED
    BY <1>1, <1>2, <2>1, <2>2, <2>3
<1>7. ASSUME NEW ext \in Extensions, RegisterLate(ext) PROVE (Called(e) /\ Composes(e))'
  <2>1. UNCHANGED emissions /\ (UNCHANGED lists \/ RegisterHandler(ext, 0))
    BY <1>7 DEF RegisterLate
  <2>2. 0 \in 0 .. MaxLoads
    BY BoundsAssumption
  <2> QED
    BY <1>1, <1>2, <2>1, <2>2
<1>8. CASE LoadExtensions \/ Reload \/ UNCHANGED vars
  BY <1>1, <1>8 DEF LoadExtensions, Reload, vars
<1> QED
  BY <1>5, <1>6, <1>7, <1>8 DEF Next

\* However registrations and reloads fall between its handlers, an emission's answer is made of the
\* first answer, of the last, or of all in the order registered.
THEOREM EmissionsCompose == Spec => []AnswersCompose
<1>1. AnswerInv => AnswersCompose
  BY DEF AnswerInv, AnswersCompose
<1> QED
  BY <1>1, InitAnswer, NextAnswer, PTL DEF Spec
=============================================================================
