SPECIFICATION FairSpec
CONSTANTS
  PcCount = 1
  Numbers <- MCNumbers
  Handler <- MCHandler1
  StackFloor = 1
  Limits <- MCLimits
  SystemFloor = 3
  MemTop = 5
  MaxWords = 2
  MaxRaises = 3
  MaxDepth = 2
  Balanced = FALSE
  UnmappedStack = TRUE
  UnbackedCompare = TRUE
INVARIANTS
  NoRaiseLost
PROPERTIES
  StiHoldsOneInstruction
  RaiseEndsHalt
