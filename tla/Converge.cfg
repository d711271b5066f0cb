SPECIFICATION FairSpec
CONSTANTS
    N = 3
    Roles = {r1}
    MaxPriority = 2
    MaxLag = 1
    WritesMayFail = FALSE
    Automatic = FALSE
    TimersMayExpire = FALSE
    LeaderMayRestart = FALSE
    CommandTypes = {}
    MaxCommands = 0
    UnreliableActors = {}
    CrashingGroups = {}
    InitialDesired <- AnyDesired
    InitialPriority <- AnyPriority
    OrderlyOperators = TRUE
    SeparateLoops = TRUE
PROPERTIES ReachesTopology Quiesces
CHECK_DEADLOCK FALSE
