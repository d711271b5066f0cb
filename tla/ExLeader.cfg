SPECIFICATION Spec
CONSTANTS
    Nodes = {n1, n2}
    EventCap = 2
    MaxRunners = 1
INVARIANTS StopsWhenLost
CHECK_DEADLOCK FALSE
