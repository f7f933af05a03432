CONSTANTS
    w1 = w1  w2 = w2  i1 = i1  i2 = i2  i3 = i3  i4 = i4
    None = None
    Workers <- TwoWorkers
    Items <- FourItems
    MaxFiles = 2
    MaxRequests = 0
    MaxActorPauses = 0
    MaxActorStops = 0
    MaxFaults = 0
    MaxCrashes = 2
SPECIFICATION Spec
PROPERTIES ImplementsPromise
CHECK_DEADLOCK FALSE
