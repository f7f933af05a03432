CONSTANTS
    a1 = a1  a2 = a2  c1 = c1
    Sync = Sync
    None = None
    Assets <- OneAsset
    Callers <- OneCaller
    MaxTime = 1
    MaxWrites = 1
    MaxRestores = 2
    MaxItems = 1
    MaxSyncs = 2
    MaxFaults = 1
    MaxCrashes = 1
SPECIFICATION Spec
INVARIANTS NothingLost CompletedMeansCovered
 
CHECK_DEADLOCK FALSE
