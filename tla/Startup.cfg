SPECIFICATION Spec
CONSTANTS
    Nodes = {"a", "b"}
    Files <- MCFiles
    Scenes <- MCScenes
    Me = "b"
    Clients = {"c"}
    MaxLag = 1
INVARIANTS TypeOK GroupsAreComplete MergedIsValid RebuildsAgree OwnNodeIsLocal CopyCatchesUp ViewShowsReports QuietPageIsCurrent
PROPERTIES EnabledStays
CHECK_DEADLOCK FALSE
