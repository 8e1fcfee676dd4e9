CONSTANTS
    a = a b = b c = c d = d e = e k1 = k1 v1 = v1 v2 = v2 t1 = t1 t2 = t2
    Names = {a, b, c, d, e}
    Keys = {k1}
    Values = {v1}
    Tenants = {t1, t2}
    None = None
    Pipelines <- GovernedOnly
    ForeignBlobs <- OneForeignBlob
    MaxRuns = 2
    Strict = {}
SPECIFICATION Spec
INVARIANTS
    SnapshotsAreSound
CHECK_DEADLOCK FALSE
