SPECIFICATION Spec
CONSTANTS
  None = None
  LF = "LF"
  CR = "CR"
  Replacement = "FFFD"
  Width <- MCWidth
  Json <- MCJson
  Command <- MCCommand
  Starts <- MCStarts
  Registry <- MCRegistry
  Modules <- MCModules
  ConfigDir <- Dir
  Models <- MCModels
  Levels = {"off"}
  MaxDepth = 4
  ModelNames = {m1, m2}
  LevelNames = {"off"}
  MaxRuns = 1
  MaxMessages = 2
SYMMETRY Symmetric
INVARIANT StartedAsConfigured MessagesAreLines ClientSeesLog
PROPERTY ClientKnowsState
\* The process exits.
CHECK_DEADLOCK FALSE
