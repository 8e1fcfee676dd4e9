CONSTANTS
    r1 = r1  r2 = r2  x1 = x1  t1 = t1
    Runs = {r1, r2}
    Rows = {1, 2}
    Owner <- MCOwner
    Scenes <- MCScenes
    MaxRetries = 2
    Dlq = TRUE
    Readers = {x1}
    Tenant <- MCTenant
    Limit = 2
    MaxScan = 3
    MaxTime = 1
    Ids = {1, 2, 3, 4}
    None = None
SPECIFICATION Spec
INVARIANTS RowsAreAccountedFor PagesAreExact
CHECK_DEADLOCK FALSE
