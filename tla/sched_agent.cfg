CONSTANTS
    Tasks = {"agent"}
    Listed = {"agent"}
    Kind <- OneAgent
    Recurring = {"agent"}
    Projects = {"agent"}
    Gated = {}
    FollowUp = "none"
    Rank <- SameRank
    Commands = {"cancel", "pause", "trigger"}
    MaxRuns = 2
    MaxFaults = 1
    Ceiling = 2
    IdleBudget = 1
    Grace = 1
    RetryDelay = 1
    DeferDelay = 1
    Period = 1
    StaleAfter = 0
    Cooldown = 1
    MaxDeferrals = 1
    PauseThreshold = 2
    MaxResumes = 1
SPECIFICATION FairSpec
INVARIANTS
    CancelIsHonoured
PROPERTIES
    EveryRunSettles
