CONSTANTS
    s1 = s1 s2 = s2 s3 = s3 s4 = s4 w1 = w1 w2 = w2
    Sessions = {s1, s2, s3}
    Workflows = {w1}
    Existing = {w1}
    Ops <- AllOps
    MaxPatch = 1
    None = None
SPECIFICATION Spec
INVARIANTS
    TablesAreConsistent
    NobodyIsStuck
PROPERTIES
    VersionsAreImmutable
SYMMETRY Sym
\* Every session has ended.
CHECK_DEADLOCK FALSE
