CONSTANTS
    a = a b = b c = c None = None
    Tasks = {1, 2}
    Requests = {a, b}
    Reviewer <- Two
    Walks = {w}
    Filters = {"open", "breached"}
    PageSize = 1
    Sla = 0
    PostApproval = TRUE
    MaxTime = 1
SPECIFICATION FairSpec
INVARIANTS
    QueueIsConsistent
PROPERTIES
    DecisionsAreWhole
    EveryDecisionEnds
CHECK_DEADLOCK FALSE
