SPECIFICATION Spec
CONSTANTS
    a = a
    b = b
    Labels = {a, b}
    Plans <- MCPlans
    ShaPlan <- Single
    Kinds = {"peer", "sha"}
    WorkRetry = 1
    PlanRevision = 0
    ReviewRepair = 1
    ProtocolCorrection = 0
    MaxInconclusive = 2
    MaxSends = 2
    MaxRevisions = 2
    MaxFaults = 2
INVARIANTS
    SuccessIsReviewed
    OneLiveAttempt
    DependenciesSettled
    LiveRunIsDriven
    SentAtMostOnce
PROPERTIES
    TerminalIsFinal
CHECK_DEADLOCK FALSE
