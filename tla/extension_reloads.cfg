SPECIFICATION Spec
CONSTANTS
  NumExtensions = 2
  Skills = {s1}
  MaxLoads = 2
  MaxLate = 1
  Emissions = {e1}
  Kinds = {"first", "last", "chain"}
INVARIANT TypeOK ExtensionsWin ReloadRestores StartHeard OnceUnlessOverlapped AnswersCompose
PROPERTY NoHandlerSkipped
CHECK_DEADLOCK FALSE
