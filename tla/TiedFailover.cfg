SPECIFICATION FairSpec
CONSTANTS
    N = 3
    Roles = {r1}
    MaxPriority = 3
    MaxLag = 0
    WritesMayFail = FALSE
    Automatic = TRUE
    TimersMayExpire = FALSE
    LeaderMayRestart = FALSE
    CommandTypes = {}
    MaxCommands = 0
    UnreliableActors = {}
    CrashingGroups = {1}
    InitialDesired <- OneActive
    InitialPriority <- TiedAtTop
    OrderlyOperators = TRUE
    SeparateLoops = TRUE
PROPERTIES FailoverCompletes
CHECK_DEADLOCK FALSE
