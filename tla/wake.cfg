SPECIFICATION FairSpec
CONSTANTS
    lease = lease
    kanban = kanban
    s1 = s1
    s2 = s2
    Sources <- McSources
    Late <- McLate
    ScanIds <- McScanIds
    MaxScanPasses = 2
    MaxTimeout = 2
    RearmTolerance = 2
    Horizon = 2
    MaxItems = 2
    MaxTime = 2
    MaxEnv = 2

INVARIANTS WakesAreSerial QuietMeansArmed
PROPERTY EveryDueItemIsWoken
CHECK_DEADLOCK FALSE
