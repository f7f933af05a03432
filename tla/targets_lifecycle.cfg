SPECIFICATION Spec
CONSTANTS
    Targets = {t1, t2}
    Callers = {c1, c2}
    Jobs = {j1, j2}
    s1 = s1
    Secrets = {s1}
    Payloads <- MCPayloads
    None = None
    MaxCalls = 2
    MaxCrashes = 1
INVARIANTS
    VerifiedSettings
    ReferencesHold
    QuietUpdatesKept
    RunningIsUnderWay
SYMMETRY MCSymmetry
CHECK_DEADLOCK FALSE
