CONSTANTS
    Tasks = {"agent"}
    Listed = {"agent"}
    Kind <- OneAgent
    Recurring = {"agent"}
    Projects = {}
    Gated = {}
    FollowUp = "none"
    Rank <- SameRank
    Commands = {"run"}
    MaxRuns = 3
    MaxFaults = 1
    Ceiling = 1
    IdleBudget = 1
    Grace = 1
    RetryDelay = 1
    DeferDelay = 1
    Period = 1
    StaleAfter = 0
    Cooldown = 1
    MaxDeferrals = 1
    PauseThreshold = 2
    MaxResumes = 1
SPECIFICATION Spec
INVARIANTS
    OneRetryPerGroup
PROPERTIES
    SettledStays
