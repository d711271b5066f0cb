SPECIFICATION Spec
CONSTANTS
    N = 2
    Roles = {r1}
    MaxPriority = 2
    MaxLag = 0
    WritesMayFail = TRUE
    Automatic = FALSE
    TimersMayExpire = TRUE
    LeaderMayRestart = TRUE
    CommandTypes = {"promote", "demote"}
    MaxCommands = 1
    UnreliableActors = {}
    CrashingGroups = {}
    InitialDesired <- OneActive
    InitialPriority <- Ranked
    OrderlyOperators = FALSE
    SeparateLoops = FALSE
INVARIANTS TargetHasTimer
CHECK_DEADLOCK FALSE
