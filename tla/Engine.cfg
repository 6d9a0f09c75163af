SPECIFICATION Spec
CONSTANTS
  PcCount = 2
  Numbers <- MCNumbers
  Handler <- MCHandler
  StackFloor = 1
  Limits <- MCLimits
  SystemFloor = 3
  MemTop = 7
  MaxWords = 2
  MaxRaises = 1
  MaxDepth = 1
  Balanced = TRUE
  UnmappedStack = FALSE
  UnbackedCompare = FALSE
INVARIANTS
  StackSeparation
  FramesIntact
PROPERTIES
  IretResumes
