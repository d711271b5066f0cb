SPECIFICATION FairSpec
CONSTANTS
    Nodes = {n1}
    Commands = {c1, c2}
    MaxStarts = 2
    Exclusive = TRUE
    FreshStart = TRUE
    WritesMayFail = TRUE
INVARIANTS TypeOK OncePerConsumer
PROPERTIES ForwardOnly CoveredIsExecuted
CHECK_DEADLOCK FALSE
