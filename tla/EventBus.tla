------------------------------- MODULE EventBus -------------------------------
(***************************************************************************)
(* The bus extensions talk to each other over: one set of handlers for     *)
(* each channel that has any, dropped from the map when it becomes empty.  *)
(*                                                                         *)
(* An unsubscribe function keeps the set its handler was put in, which     *)
(* need not be the channel's set any more; a set is named by its place in  *)
(* sets.  Everything is synchronous: what a handler does to the bus while  *)
(* it is called happens in the middle of the emissions that called it.     *)
(***************************************************************************)
EXTENDS Integers, SequencesExt

CONSTANTS
  Channels,
  Handlers,
  MaxSubscriptions,   \* bound: calls of on()
  MaxClears,          \* bound: calls of clear()
  MaxEmissions        \* bound: calls of emit()

VARIABLES
  sets,       \* the sets made so far: the handlers put in, in their order, and whether each still is
  map,        \* the number of a channel's set, 0 if it has none
  unsubscribes, \* for each call of on() its channel, handler, set, and how often what it returned
                \* was called
  emissions,  \* the emissions under way, the innermost last: set and how far it has come
  emitted,    \* how many have begun
  clears      \* how often the bus was cleared

vars == <<sets, map, unsubscribes, emissions, emitted, clears>>

Init ==
  /\ sets = <<>>
  /\ map = [c \in Channels |-> 0]
  /\ unsubscribes = <<>>
  /\ emissions = <<>> /\ emitted = 0
  /\ clears = 0

Live(s) == {sets[s][n].handler : n \in {k \in DOMAIN sets[s] : sets[s][k].in}}

\* Who hears an event of a channel.
Hearing(c) == IF map[c] = 0 THEN {} ELSE Live(map[c])

\* A set keeps the order of its handlers and has each once.
On(c, h) ==
  LET s == IF map[c] = 0 THEN Len(sets) + 1 ELSE map[c]
      old == IF map[c] = 0 THEN <<>> ELSE sets[s]
  IN  /\ Len(unsubscribes) < MaxSubscriptions
      /\ map' = [map EXCEPT ![c] = s]
      /\ sets' = [n \in 1 .. Max({s, Len(sets)}) |->
                    IF n # s THEN sets[n]
                    ELSE IF h \in Hearing(c) THEN old ELSE Append(old, [handler |-> h, in |-> TRUE])]
      /\ unsubscribes' = Append(unsubscribes, [channel |-> c, handler |-> h, set |-> s, calls |-> 0])
      /\ UNCHANGED <<emissions, emitted, clears>>

\* The function that the nth call of on() returned; it may be called again.
Unsubscribe(n) ==
  LET u == unsubscribes[n]
      old == sets[u.set]
      left == Live(u.set) \ {u.handler}
  IN  /\ u.calls < 2
      /\ sets' = [sets EXCEPT ![u.set] =
                   [k \in DOMAIN @ |-> [@[k] EXCEPT !.in = @ /\ old[k].handler # u.handler]]]
      /\ map' = IF left = {} THEN [map EXCEPT ![u.channel] = 0] ELSE map
      /\ unsubscribes' = [unsubscribes EXCEPT ![n].calls = @ + 1]
      /\ UNCHANGED <<emissions, emitted, clears>>

\* The runner clears the bus when extensions are reloaded.
Clear ==
  /\ clears < MaxClears
  /\ clears' = clears + 1
  /\ map' = [c \in Channels |-> 0]
  /\ UNCHANGED <<sets, unsubscribes, emissions, emitted>>

Emit(c) ==
  /\ emitted < MaxEmissions
  /\ emitted' = emitted + 1
  /\ emissions' = IF map[c] = 0 THEN emissions ELSE Append(emissions, [set |-> map[c], at |-> 0])
  /\ UNCHANGED <<sets, map, unsubscribes, clears>>

\* The innermost emission calls the next handler that is in its set, or ends; handlers that were put
\* in meanwhile are called, those that were taken out are not.
CallNext ==
  /\ emissions # <<>>
  /\ LET e == Last(emissions)
         to == {k \in DOMAIN sets[e.set] : k > e.at /\ sets[e.set][k].in}
     IN  emissions' = IF to = {} THEN Front(emissions)
                      ELSE [emissions EXCEPT ![Len(emissions)].at = Min(to)]
  /\ UNCHANGED <<sets, map, unsubscribes, emitted, clears>>

\* A handler throws: the emission that called it ends, and so may those around it.
Throws ==
  /\ emissions # <<>> /\ Last(emissions).at > 0
  /\ emissions' = Front(emissions)
  /\ UNCHANGED <<sets, map, unsubscribes, emitted, clears>>

Next ==
  \/ \E c \in Channels : Emit(c) \/ \E h \in Handlers : On(c, h)
  \/ \E n \in DOMAIN unsubscribes : Unsubscribe(n)
  \/ Clear \/ CallNext \/ Throws

Spec == Init /\ [][Next]_vars
-----------------------------------------------------------------------------
(***************************************************************************)
(* Property                                                                *)
(***************************************************************************)

\* "multiple handlers on the same channel each get their own unsubscribe": as long as the bus is not
\* cleared no handler stops hearing a channel but by its own unsubscribe function.
OwnUnsubscribe ==
  [][clears' = clears =>
       \A c \in Channels :
         Hearing(c) \ Hearing(c)' \subseteq
           {unsubscribes[n].handler :
              n \in {k \in DOMAIN unsubscribes : unsubscribes'[k].calls # unsubscribes[k].calls}}]_vars
=============================================================================
