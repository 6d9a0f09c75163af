SPECIFICATION FairSpec
CONSTANTS
  Setups <- MCSetups
  Capacity = 2
  MaxLine = 1
  SliceCycles = 2
  MaxPosts = 3
INVARIANTS
  InputIsKept
  ReplayIsTheRun
PROPERTIES
  InputGoesIn
CHECK_DEADLOCK FALSE
