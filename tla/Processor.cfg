SPECIFICATION ProcessorSpec
CONSTANTS
  r0 = r0
  r1 = r1
  t0 = t0
  t1 = t1
  frameA = frameA
  frameB = frameB
  Roots <- MCRoots
  Root0 = r0
  Tables <- MCTables
  Absent = Absent
  Dirs <- MCDirs
  Indices <- MCIndices
  Frames <- MCFrames
  Refused = Refused
  Stores <- MCStores
  NoEntry = NoEntry
  TlbSize = 2
  Starts <- MCStarts
  MaxEdits = 1
  Width = 4
  Registers = 16
  Single <- McSingle
  Double <- McDouble
  Programs <- McPrograms
  PageSize = 4
  Kinds <- McKinds
  Fixed <- McFixed
  TextStart = 10
  TextEnd = 12
  Undeclared = {24}
  Contents <- McContents
  Jobs <- McJobs
  Maps <- McMaps
  MaxSteals = 2
INVARIANTS ArithmeticAgrees AccessesAreSound AnswersFromTables
PROPERTY FaultsLeaveNoTrace
CHECK_DEADLOCK FALSE
