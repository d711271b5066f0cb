SPECIFICATION Spec
CONSTANTS
    N = 3
    Roles = {r1}
    MaxPriority = 3
    MaxLag = 0
    WritesMayFail = FALSE
    Automatic = FALSE
    TimersMayExpire = FALSE
    LeaderMayRestart = FALSE
    CommandTypes = {"demote"}
    MaxCommands = 1
    UnreliableActors = {}
    CrashingGroups = {}
    InitialDesired <- OneActive
    InitialPriority <- Ranked
    OrderlyOperators = TRUE
    SeparateLoops = TRUE
INVARIANTS SingleActive
CHECK_DEADLOCK FALSE
