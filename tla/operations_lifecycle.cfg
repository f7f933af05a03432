SPECIFICATION MCSpec
CONSTANTS
    c1 = c1  c2 = c2  r1 = r1  r2 = r2  a1 = a1  a2 = a2  b1 = b1  b2 = b2  u1 = u1
    i1 = i1  j1 = j1  j2 = j2  j3 = j3
    library = library  profile = profile
    old = old  new = new  above = above  beside = beside
    Services = {"corruption", "estimate", "workflow"}
    None = None
    Nothing = Nothing
    RootOrder <- MCRootOrder
    Places = {old, new, above, beside}
    Below <- MCBelow
    Layouts <- MCLayouts
    Units = 1
    MaxSessions = 3
    MaxRequests = 3
    MaxRestarts = 1
    Callers = {c1, c2}
    Runs = {r1}
    Assets = {a1, a2, u1}
    Keys = {1, 2}
    KeyOf <- MCKeyOf
    UserIndexes = {i1}
    Requests <- MCRequests
    Jobs = {j1, j2}
    Window = 1
    MaxNow = 2
    MaxCalls = 3
    MaxCrashes = 1
    MaxDrift = 1
SYMMETRY Symm
CHECK_DEADLOCK FALSE
INVARIANTS
    AppliedAsPreviewed
    CompletedMeansDone
    FreshIsOfThisRuntime
    ReportOfPresentRoots
    CompletedScanWhole
    OrphanIsFound
