SPECIFICATION Spec
CONSTANTS
    Nodes = {"a", "b"}
    Files <- MCFiles
    Scenes <- MCScenes
    Me = "b"
    Clients = {"c", "d"}
    MaxLag = 1
INVARIANTS QuietPageIsCurrent
CHECK_DEADLOCK FALSE
