SPECIFICATION FairSpec
CONSTANTS
    Nodes = {n1, n2}
    Commands = {c1, c2}
    MaxStarts = 2
    Exclusive = TRUE
    FreshStart = TRUE
    WritesMayFail = FALSE
PROPERTIES RunningIsArchived
CHECK_DEADLOCK FALSE
