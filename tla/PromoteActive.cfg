SPECIFICATION FairSpec
CONSTANTS
    N = 3
    Roles = {r1}
    MaxPriority = 3
    MaxLag = 0
    WritesMayFail = FALSE
    Automatic = FALSE
    TimersMayExpire = FALSE
    LeaderMayRestart = FALSE
    CommandTypes = {"promote"}
    MaxCommands = 1
    UnreliableActors = {}
    CrashingGroups = {}
    InitialDesired <- OneActive
    InitialPriority <- Ranked
    OrderlyOperators = FALSE
    SeparateLoops = TRUE
PROPERTIES WantedRuns
CHECK_DEADLOCK FALSE
