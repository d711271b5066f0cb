SPECIFICATION Spec
CONSTANTS
    Nodes = {"a", "b"}
    Files <- NegativeFiles
    Scenes <- MCScenes
    Me = "b"
    Clients = {"c"}
    MaxLag = 1
INVARIANTS RebuildsAgree
CHECK_DEADLOCK FALSE
