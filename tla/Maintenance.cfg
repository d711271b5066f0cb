SPECIFICATION Spec
CONSTANTS
    N = 4
    Roles = {r1}
    MaxPriority = 4
    MaxLag = 1
    WritesMayFail = FALSE
    Automatic = FALSE
    TimersMayExpire = TRUE
    LeaderMayRestart = TRUE
    CommandTypes = {"promote", "disable", "enable", "force_passive"}
    MaxCommands = 2
    UnreliableActors = {}
    CrashingGroups = {}
    InitialDesired <- EitherActive
    InitialPriority <- EitherRanked
    OrderlyOperators = TRUE
    SeparateLoops = TRUE
INVARIANTS SingleActive
CHECK_DEADLOCK FALSE
