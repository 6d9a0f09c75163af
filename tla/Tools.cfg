SPECIFICATION ToolsSpec
CONSTANTS
  Sources <- MCSources
  Root <- MCRoot
  MaxDepth = 2
  TextStart = 64
  Reach = 20
  Numbers <- MCNumbers
  Displacements <- MCDisplacements
  Places <- MCPlaces
  Origin = 16842752
  Ways = {0, 1, 2}
  Inputs <- MCInputs
  Options <- MCOptions
  SegmentStart = 1024
  Documents <- MCDocuments
  Links <- MCLinks
  AddressTolerance = 4
  TextBase = 64
  Listing <- McListing
  Handler = 13
  FaultHandler = 15
  Room = 3
  EventAt = 2
  Interval = 3
  MaxSnapshots = 2
  DefaultStepLimit = 9
  StepLineLimit = 4
  NoBreakpoint = NoBreakpoint
  Requests <- McRequests
  StopOnEntry = TRUE
  MaxRequests = 4
INVARIANTS
  SessionIsTrue ServerListens
  LayoutIsSound OneMeaning EncodingIsFaithful LinkIsSound FilesAreWhole TablesAgree
PROPERTIES
  RewindIsExact ReverseFindsTheLast
CHECK_DEADLOCK FALSE
