SPECIFICATION LifeSpec
CONSTANTS
    NoArguments = NoArguments
    NoSession = NoSession
    Programs <- MCPrograms
    Arguments <- MCArguments
    Environments <- MCEnvironments
    Statuses <- MCStatuses
    FaultStatus = "1"
    Fits <- MCFits
    Vectors = {"Trap", "User5"}
    DefaultVectors = {"Trap"}
    Binds <- MCBinds
    Shell = "shell"
    First = "app"
    FirstArguments <- StartArguments
    MaxAsks = 2
    MaxHostAsks = 1
    MaxShutdowns = 2
CHECK_DEADLOCK FALSE
INVARIANTS RestartIsSound ShellResumes RunEndsWithShell
PROPERTY RunGoesOn
