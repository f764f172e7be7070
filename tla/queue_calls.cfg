SPECIFICATION FairSpec
CONSTANTS
  Paths = {p1, p2}
  MaxCalls = 3
  MaxBash = 1
INVARIANT TypeOK MutualExclusion FirstComeFirstServed EntryWhileInUse
PROPERTY EditKeepsOthers EveryCallEnds
CHECK_DEADLOCK FALSE
