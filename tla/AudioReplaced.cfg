CONSTANTS
  \* storage
  Ports = {0}
  Sectors = 1
  Sizes2 = {0, 1}
  Contents = {0, 1}
  MaxEvents = 3
  MaxTransfers = 2
  \* host files
  Names = {a}
  Bytes = {2}
  MaxOpenFiles = 2
  MaxSize = 2
  MaxCommands = 4
  \* the scan
  CpuHz = 15
  Refresh = 2
  Heights = {2, 3}
  BlankingLines = 1
  MinLinesTotal = 3
  Looks = {1, 2}
  LineTables <- MCLineTables
  ScanCosts = {1, 3}
  MaxCycles = 18
  Programs <- MCPrograms
  \* the terminal
  BootCols = 5
  BootRows = 2
  GridCells = 10
  RingCells = 12
  MaxParameters = 3
  MaxValue = 999
  MaxLine = 4
  HistoryLines = 2
  Sessions <- MCSessions
  \* frames
  TileSize = 2
  MapTiles = 2
  BankSize = 2
  Banks = 2
  Unit = 4
  FrameWidth = 4
  FrameHeight = 3
  CellWide = 3
  CellHigh = 3
  SpriteCount = 3
  Scenes <- MCScenes
  \* blits
  PixelBytes = 2
  RamBytes = 24
  VramBase = 40
  VramBytes = 8
  LastAddress = 63
  Entries = 4
  MaxScale = 3
  Memory <- MCMemory
  Blits <- MCBlits
  MaxBlits = 1
  \* sound
  Channels = {1, 2}
  Durations = {0, 1, 2}
  Full = 4
  Envelopes <- MCEnvelopes
  Orchestras <- MCOrchestras
SPECIFICATION DeviceSpec
INVARIANT OnlyEndedTonesTell
CHECK_DEADLOCK FALSE
