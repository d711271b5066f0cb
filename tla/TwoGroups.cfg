SPECIFICATION Spec
CONSTANTS
    N = 2
    Roles = {r1}
    MaxPriority = 2
    MaxLag = 2
    WritesMayFail = FALSE
    Automatic = FALSE
    TimersMayExpire = FALSE
    LeaderMayRestart = FALSE
    CommandTypes = {"promote"}
    MaxCommands = 1
    UnreliableActors = {}
    CrashingGroups = {}
    InitialDesired <- OneActive
    InitialPriority <- Ranked
    OrderlyOperators = TRUE
    SeparateLoops = TRUE
INVARIANTS SingleActive
CHECK_DEADLOCK FALSE
