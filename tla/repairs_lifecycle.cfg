SPECIFICATION MCSpec
CONSTANTS
    c1 = c1  c2 = c2  r1 = r1  r2 = r2  s1 = s1  s2 = s2  f1 = f1
    a1 = a1  a2 = a2  b1 = b1  p1 = p1
    None = None
    Callers = {c1, c2}
    Runs = {r1, r2}
    Sources = {s1, s2}
    PathOf <- MCPathOf
    Content <- MCContent
    FlagSets <- MCFlagSets
    Assets = {a1, a2}
    Albums = {b1}
    Points = {p1}
    PlainAssets = {a1}
    MaxCalls = 3
    MaxCrashes = 1
    MaxDrift = 1
SYMMETRY Symm
CHECK_DEADLOCK FALSE
INVARIANTS
    ModesExplained
    RemovedRecoverable
    RunTruthful
PROPERTIES
    UndoRestores
    PresentKept
