CONSTANTS
    w1 = w1  w2 = w2  i1 = i1  i2 = i2  i3 = i3  i4 = i4
    None = None
    Workers <- TwoWorkers
    Items <- TwoItems
    MaxFiles = None
    MaxRequests = 1
    MaxActorPauses = 1
    MaxActorStops = 0
    MaxFaults = 1
    MaxCrashes = 1
SPECIFICATION FairSpec
PROPERTIES ScanEnds InterruptedScanRecovers
CHECK_DEADLOCK FALSE
