SPECIFICATION FairSpec
CONSTANTS
    N = 3
    Roles = {r1}
    MaxPriority = 3
    MaxLag = 1
    WritesMayFail = FALSE
    Automatic = FALSE
    TimersMayExpire = FALSE
    LeaderMayRestart = FALSE
    CommandTypes = {"promote"}
    MaxCommands = 2
    UnreliableActors = {}
    CrashingGroups = {}
    InitialDesired <- OneActive
    InitialPriority <- Ranked
    OrderlyOperators = TRUE
    SeparateLoops = TRUE
PROPERTIES WantedRuns ImplementsHandover
CHECK_DEADLOCK FALSE
