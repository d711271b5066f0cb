SPECIFICATION FairSpec
CONSTANTS
    Nodes = {n1, n2}
    Commands = {c1, c2}
    MaxStarts = 2
    Exclusive = FALSE
    FreshStart = TRUE
    WritesMayFail = FALSE
PROPERTIES ForwardOnly
CHECK_DEADLOCK FALSE
