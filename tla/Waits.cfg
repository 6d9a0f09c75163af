SPECIFICATION WaitsSpec
CONSTANTS
  Machine = Machine
  Free = Free
  device = device
  host = host
  Callers = {device, host}
  Numbers <- MCNumbers
  Bound <- MCBound
  MaxRaises = 2
  MaxPokes = 1
  Devices <- MCDevices
  Tags <- MCTags
  MaxEvents = 4
  Never = 12
  Rates <- MCRates
  Word = 3
  Costs = {1, 3}
  MaxClock = 6
  Lengths = {0, 9}
  Requests = {"inside"}
  Backed = {"inside"}
INVARIANTS NoLostWake ClockIsKept TimersAreExact
PROPERTIES WakeUpSpec ServiceEnds
CHECK_DEADLOCK FALSE
