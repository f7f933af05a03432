CONSTANTS
    c1 = c1  c2 = c2  j1 = j1  j2 = j2  t1 = t1  t2 = t2
    None = None
    Callers <- TwoCallers
    Jobs <- TwoJobs
    Types <- OneType
    MaxWorkers = 1
    MaxCalls = 3
    MaxUpdates = 1
SPECIFICATION MCSpec
INVARIANTS FinishedTruthful OneClientOneJob
PROPERTIES EveryJobFinishes
CHECK_DEADLOCK FALSE
