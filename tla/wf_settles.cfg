SPECIFICATION FairSpec
CONSTANTS
    a = a
    b = b
    Labels = {a, b}
    Plans <- OnePlan
    ShaPlan <- Single
    Kinds = {"peer", "sha"}
    WorkRetry = 1
    PlanRevision = 1
    ReviewRepair = 1
    ProtocolCorrection = 1
    MaxInconclusive = 2
    MaxSends = 2
    MaxRevisions = 2
    MaxFaults = 1
PROPERTIES
    RunSettles
CHECK_DEADLOCK FALSE
