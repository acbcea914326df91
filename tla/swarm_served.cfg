SPECIFICATION FairSpec
CONSTANTS
    c1 = c1
    c2 = c2
    c3 = c3
    Cards = {c1, c2}
    BlockedBy <- Fork
    Managed = {}
    PiDown = {}
    Deferring = {}
    Faulty = {c2}
    MaxAttempts = 2
    MaxRetries = 1
    ExecutorMax = 1
    Cap <- NoCap
    Reserve <- ReserveOne
    Usages = {}
    MaxCrashes = 0
    MaxRootSteps = 0
INVARIANTS
    SlotIsFree
    DependenciesDone
PROPERTIES
    PendingIsServed
    CardCatchesUp
CHECK_DEADLOCK FALSE
