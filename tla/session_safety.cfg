SPECIFICATION Spec
CONSTANTS
  NoModel = NoModel
  NoLevel = NoLevel
  Models = {m1, m2}
  Reasoning = {m1}
  Levels = {"off", "high"}
  Tools = {t1}
  Prompts = {p1, p2}
  Compactions = {c1, c2}
  MaxCalls = 3
SYMMETRY CallSymmetry
INVARIANT TypeOK MetadataSync CreationSync DialogueLoggedOnce DialogueFromLog
\* With every call made and answered the session waits.
CHECK_DEADLOCK FALSE
