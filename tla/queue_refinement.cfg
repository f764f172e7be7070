SPECIFICATION ToolSpec
CONSTANTS
  Paths = {p1, p2}
  MaxCalls = 4
  MaxBash = 0
PROPERTY ImplementsFileStore
CHECK_DEADLOCK FALSE
