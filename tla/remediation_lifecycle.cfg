SPECIFICATION MCSpec
CONSTANTS
    c1 = c1  c2 = c2  r1 = r1  a1 = a1  a2 = a2  p1 = p1  p2 = p2  h1 = h1  n1 = n1  n2 = n2
    x = x  empty = empty  f1 = f1  f2 = f2  g1 = g1  g2 = g2  g3 = g3  i1 = i1  i2 = i2
    m1 = m1  m2 = m2  d1 = d1  d2 = d2  s1 = s1  s2 = s2  x1 = x1
    None = None
    Callers = {c1, c2}
    Runs = {r1}
    Assets = {a1, a2}
    Paths = {p1, p2, h1}
    RootOf <- MCRootOf
    Hidden = {h1}
    Names = {n1, n2}
    NameOf <- MCNameOf
    Contents = {x, empty}
    Empty = empty
    Checksum <- MCChecksum
    Derivative <- MCDerivative
    ListOrder <- MCListOrder
    Findings = {f1, f2}
    Files = {g1, g2, g3}
    Items = {i1, i2}
    Marks = {m1, m2}
    Dirs = {d1, d2}
    Sessions = {s1, s2}
    DirFiles = {x1}
    MaxScans = 2
    MaxCalls = 3
    MaxCrashes = 1
    MaxDrift = 1
SYMMETRY Symm
CHECK_DEADLOCK FALSE
INVARIANTS
    FixVerified
    AsPreviewed
    QuarantineKeeps
    IndexesTrue
PROPERTIES
    SteadyFileKeepsRow
