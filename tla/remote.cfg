SPECIFICATION FairSpec
CONSTANTS
    c1 = c1
    Commands = {c1}
    Acts <- AnyAct
    MaxGen = 2
    MaxRequests = 1
    MaxProgress = 1
    MaxFaults = 1
    MaxLag = 2
INVARIANTS
    FactsAreComplete
    EffectsOnce
PROPERTIES
    OriginLifecycle
    CatchesUp
    CancelEnds
