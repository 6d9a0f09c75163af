SPECIFICATION Spec
CONSTANTS
    NoArguments = NoArguments
    Programs <- MCPrograms
    Arguments <- MCArguments
    Fits <- MCFits
    Vectors <- MCVectors
    DefaultVectors <- MCDefaultVectors
    Binds <- MCBinds
    First = "app"
    FirstArguments = "few"
    MaxAsks = 1
    MaxHostAsks = 0
    MaxShutdowns = 1
CHECK_DEADLOCK FALSE
INVARIANT StopSignalKept
