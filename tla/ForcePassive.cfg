SPECIFICATION FairSpec
CONSTANTS
    N = 3
    Roles = {r1}
    MaxPriority = 3
    MaxLag = 0
    WritesMayFail = FALSE
    Automatic = FALSE
    TimersMayExpire = FALSE
    LeaderMayRestart = FALSE
    CommandTypes = {"force_passive"}
    MaxCommands = 1
    UnreliableActors = {}
    CrashingGroups = {}
    InitialDesired <- UnmanagedActive
    InitialPriority <- Ranked
    OrderlyOperators = FALSE
    SeparateLoops = TRUE
PROPERTIES NobodyIsActivated
CHECK_DEADLOCK FALSE
