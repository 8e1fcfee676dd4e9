CONSTANTS
    p1 = p1 p2 = p2 p3 = p3 x1 = x1 w1 = w1 w2 = w2 i1 = i1
    Procs = {p1, p2}
    Watchers = {x1}
    WorkflowIds = {w1, w2}
    Inputs = {i1}
    MaxRetries = 1
    MaxReplays = 1
    None = None
SPECIFICATION FairSpec
INVARIANTS
    InvocationsAreConsistent
    SuccessIsRemembered
PROPERTIES
    EveryInvocationEnds
\* Every invocation has ended.
CHECK_DEADLOCK FALSE
