SPECIFICATION Spec
CONSTANTS
  NoModel = NoModel
  NoLevel = NoLevel
  Models = {m1}
  Reasoning = {m1}
  Levels = {"off"}
  Tools = {}
  Prompts = {p1}
  Compactions = {c1}
  MaxCalls = 2
INVARIANT CompactionSyncsDialogue
\* With every call made and answered the session waits.
CHECK_DEADLOCK FALSE
