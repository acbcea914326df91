CONSTANTS
    Tasks = {"system", "script", "gate"}
    Listed = {"system", "script"}
    Kind <- ScriptSystemGate
    Recurring = {"system"}
    Projects = {}
    Gated = {"script"}
    FollowUp = "gate"
    Rank <- SameRank
    Commands = {"run", "cancel", "resume"}
    MaxRuns = 2
    MaxFaults = 1
    Ceiling = 2
    IdleBudget = 1
    Grace = 1
    RetryDelay = 1
    DeferDelay = 1
    Period = 1
    StaleAfter = 0
    Cooldown = 1
    MaxDeferrals = 1
    PauseThreshold = 2
    MaxResumes = 1
SPECIFICATION FairSpec
INVARIANTS
    LaneHoldsLiveRun
    ClosedHasHistory
    FailureReportedOnce
PROPERTIES
    EveryRunSettles
