SPECIFICATION Spec
CONSTANTS
    c1 = c1
    c2 = c2
    c3 = c3
    Cards = {c1}
    BlockedBy <- NoDeps
    Managed = {}
    PiDown = {}
    Deferring = {c1}
    Faulty = {c1}
    MaxAttempts = 3
    MaxRetries = 0
    ExecutorMax = 2
    Cap = 2
    Reserve <- ReserveOne
    Usages = {2}
    MaxCrashes = 1
    MaxRootSteps = 1
INVARIANTS
    OneLiveAttempt
    ReservationFollowsAttempt
    RunningHoldsSlot
    DoneHasEvidence
PROPERTIES
    TerminalIsFinal
    DoneIsFinal
CHECK_DEADLOCK FALSE
