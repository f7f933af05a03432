CONSTANTS
    c1 = c1  c2 = c2  j1 = j1  j2 = j2  t1 = t1  t2 = t2  d1 = d1  d2 = d2
    None = None
    Callers = {c1, c2}
    Jobs = {j1, j2}
    Types = {t1, t2}
    MaxWorkers = 2
    MaxCalls = 3
    MaxUpdates = 0
    Files = {1, 2, 3}
    Dirs = {d1, d2}
    DirOf <- MCDirOf
    Above <- MCAbove
    ChunkSize = 1
    MaxSessions = 2
    MaxChanges = 2
    MaxBreaks = 2
    MaxErrors = 1
    MaxReports = 1
SPECIFICATION MCSpec
INVARIANTS MissedFilesCounted ListingIsScan ReportSound
PROPERTIES ControlsOutliveJob
CHECK_DEADLOCK FALSE
