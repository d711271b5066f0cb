SPECIFICATION FairSpec
CONSTANTS
    BaseDir = "relative"
    MaxStarts = 2
    MaxLag = 2
    CheckInterval = 2
    Converge = 1
    FailingSets = {"active", "passive"}
    MaxChanges = 1
    MaxFaults = 0
INVARIANTS TypeOK
PROPERTIES ReportsSettle
CHECK_DEADLOCK FALSE
