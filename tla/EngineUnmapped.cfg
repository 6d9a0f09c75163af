SPECIFICATION Spec
CONSTANTS
  PcCount = 2
  Numbers <- MCNumbers
  Handler <- MCHandler
  StackFloor = 1
  Limits <- MCLimits
  SystemFloor = 3
  MemTop = 7
  MaxWords = 2
  MaxRaises = 0
  MaxDepth = 1
  Balanced = TRUE
  UnmappedStack = TRUE
  UnbackedCompare = FALSE
INVARIANTS
  StackSeparation
