CONSTANTS
    a = a b = b c = c d = d e = e k1 = k1 v1 = v1 v2 = v2 t1 = t1 t2 = t2
    Names = {a, b, c, d, e}
    Keys = {k1}
    Values = {v1, v2}
    Tenants = {t1, t2}
    None = None
    Pipelines <- AllPipelines
    ForeignBlobs <- NoBlobs
    MaxRuns = 1
    Strict = {t2}
SPECIFICATION FairSpec
INVARIANTS
    EngineIsConsistent
PROPERTIES
    KeepsPromise
    DryRunTouchesNothing
    EveryRunEnds
CHECK_DEADLOCK FALSE
