SPECIFICATION FairSpec
CONSTANTS
    BaseDir = "absolute"
    MaxStarts = 1
    MaxLag = 1
    CheckInterval = 2
    Converge = 1
    FailingSets = {}
    MaxChanges = 1
    MaxFaults = 1
PROPERTIES ReportsComeBack
CHECK_DEADLOCK FALSE
