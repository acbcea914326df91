SPECIFICATION Spec
CONSTANTS
    c1 = c1
    c2 = c2
    c3 = c3
    Cards = {c1, c2, c3}
    BlockedBy <- NoDeps
    Managed = {c2}
    PiDown = {c3}
    Deferring = {c1}
    Faulty = {c2}
    MaxAttempts = 1
    MaxRetries = 0
    ExecutorMax = 2
    Cap = 3
    Reserve <- ReserveTwo
    Usages = {1, 3}
    MaxCrashes = 1
    MaxRootSteps = 2
INVARIANTS
    BudgetHeld
CHECK_DEADLOCK FALSE
