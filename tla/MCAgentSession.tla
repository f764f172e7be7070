--------------------------- MODULE MCAgentSession ---------------------------
(* AgentSession for TLC.  The calls of prompt(), and those of compact(), *)
(* are interchangeable: a renaming of them maps behaviours to behaviours, *)
(* so the safety run identifies states that differ by one.               *)
EXTENDS AgentSession

CallSymmetry == Permutations(Prompts) \cup Permutations(Compactions)
=============================================================================
