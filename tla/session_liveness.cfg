SPECIFICATION FairSpec
CONSTANTS
  NoModel = NoModel
  NoLevel = NoLevel
  Models = {m1}
  Reasoning = {m1}
  Levels = {"off"}
  Tools = {}
  Prompts = {p1, p2}
  Compactions = {c1}
  MaxCalls = 3
PROPERTY PromptSettles
\* With every call made and answered the session waits.
CHECK_DEADLOCK FALSE
