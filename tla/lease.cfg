SPECIFICATION FairSpec
CONSTANTS
    o1 = o1
    Ops <- OneOp
    LivenessMs = 2
    MeaningfulProgressMs = 2
    WarningBeforeMs = 1
    InspectGraceMs = 1
    MaxToolSilenceMs = 3
    OutputOnlyProgressCapMs = 1
    MaxUnknownInspections = 2
    HardDeadlineMs = 4
    ProcessBound = TRUE
    Managed = TRUE
    MaxTime = 6
    LastInput = 2
    MaxEnv = 3
INVARIANTS
    ColumnsMirrorJson
    ArmedWithinHardDeadline
    LeaseFollowsAttempt
    OutputOnlyIsCapped
PROPERTIES
    ClosedAndCancelledAreFinal
    HardDeadlineEnds
CHECK_DEADLOCK FALSE
