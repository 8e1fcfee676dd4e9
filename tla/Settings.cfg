CONSTANTS
    s1 = s1  s2 = s2  s3 = s3  t1 = t1  t2 = t2
    Sessions = {s1, s2, s3}
    Tenants = {t1, t2}
    Scenarios <- MCScenarios
    Global = global
    Names = {"x", "y"}
    Given = {1, 2}
    None = None
SPECIFICATION FairSpec
INVARIANT SettingsAreConsistent
PROPERTIES ChangesAreLawful EverySessionEnds
CHECK_DEADLOCK FALSE
