SPECIFICATION LinkSpec
CONSTANTS
  Sources <- MCSources
  Root <- MCRoot
  MaxDepth = 2
  TextStart = 64
  Reach = 20
  Numbers <- MCNumbers
  Displacements <- MCDisplacements
  Places <- MCPlaces
  Origin = 16842752
  Ways = {0, 1, 2}
  Inputs <- PaddedInputs
  Options <- MCOptions
  SegmentStart = 1024
  Documents <- MCDocuments
  Links <- MCLinks
  AddressTolerance = 4
  TextBase = 64
INVARIANT CollectionIsSafe
CHECK_DEADLOCK FALSE
