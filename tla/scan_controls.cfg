CONSTANTS
    w1 = w1  w2 = w2  i1 = i1  i2 = i2  i3 = i3  i4 = i4
    None = None
    Workers <- TwoWorkers
    Items <- ThreeItems
    MaxFiles = None
    MaxRequests = 3
    MaxActorPauses = 1
    MaxActorStops = 1
    MaxFaults = 1
    MaxCrashes = 1
SPECIFICATION Spec
SYMMETRY Symmetric
INVARIANTS TypeOK CountedOnce ClaimExclusive PausedAtBoundary PauseStopsScheduling CommitDrained
PROPERTIES PromiseKeptUnlessLost
CHECK_DEADLOCK FALSE
