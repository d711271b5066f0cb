SPECIFICATION FairSpec
CONSTANTS
    Nodes = {n1, n2}
    EventCap = 2
    MaxRunners = 2
INVARIANTS TypeOK LeaderOwnsKey
PROPERTIES LeaderRuns
CHECK_DEADLOCK FALSE
