SPECIFICATION FairSpec
CONSTANTS
    Nodes = {n1}
    Commands = {c1, c2}
    MaxStarts = 1
    Exclusive = TRUE
    FreshStart = TRUE
    WritesMayFail = FALSE
PROPERTIES AcceptedIsProcessed
CHECK_DEADLOCK FALSE
