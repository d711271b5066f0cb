SPECIFICATION FairSpec
CONSTANTS
    BaseDir = "absolute"
    MaxStarts = 1
    MaxLag = 1
    CheckInterval = 1
    Converge = 2
    FailingSets = {"passive"}
    MaxChanges = 1
    MaxFaults = 0
PROPERTIES StopsEventually
CHECK_DEADLOCK FALSE
