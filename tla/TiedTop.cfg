SPECIFICATION FairSpec
CONSTANTS
    N = 3
    Roles = {r1}
    MaxPriority = 3
    MaxLag = 0
    WritesMayFail = FALSE
    Automatic = FALSE
    TimersMayExpire = FALSE
    LeaderMayRestart = FALSE
    CommandTypes = {}
    MaxCommands = 0
    UnreliableActors = {}
    CrashingGroups = {}
    InitialDesired <- OneActive
    InitialPriority <- TiedAtTop
    OrderlyOperators = TRUE
    SeparateLoops = TRUE
PROPERTIES BestAllRun
CHECK_DEADLOCK FALSE
