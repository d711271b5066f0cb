SPECIFICATION Spec
CONSTANTS
    N = 3
    Roles = {r1}
    MaxPriority = 3
    MaxLag = 3
    WritesMayFail = FALSE
    Automatic = FALSE
    TimersMayExpire = TRUE
    LeaderMayRestart = FALSE
    CommandTypes = {"promote"}
    MaxCommands = 3
    UnreliableActors = {}
    CrashingGroups = {}
    InitialDesired <- OneActive
    InitialPriority <- Ranked
    OrderlyOperators = TRUE
    SeparateLoops = TRUE
INVARIANTS TypeOK SwapsKeepRanks
PROPERTIES HandsOver
CHECK_DEADLOCK FALSE
