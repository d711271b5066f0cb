SPECIFICATION FairSpec
CONSTANTS
    BaseDir = "absolute"
    MaxStarts = 2
    MaxLag = 1
    CheckInterval = 3
    Converge = 2
    FailingSets = {"active", "passive"}
    MaxChanges = 2
    MaxFaults = 1
INVARIANTS TypeOK ReportsAreLeased
PROPERTIES ReportsSettle StopsEventually UnmanagedIsLeftAlone ImplementsAgents
CHECK_DEADLOCK FALSE
