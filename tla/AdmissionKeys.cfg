CONSTANTS
    r1 = r1 r2 = r2 r3 = r3 r4 = r4 t1 = t1 t2 = t2 k1 = k1
    apiKeyOnRun = apiKeyOnRun tenantOnRun = tenantOnRun
    tenantBudget = tenantBudget pipelineBudget = pipelineBudget
    Routes <- AllRoutes
    StoringRoutes <- Storers
    NoKey = NoKey None = None NoLimit = NoLimit
    RateScopes = {apiKeyOnRun, tenantOnRun}
    BudgetScopes = {tenantBudget, pipelineBudget}
    Tenants = {t1, t2}
    IdemKeys = {k1}
    RateRules <- NoRules
    RunCap <- NoCaps
    TokenCap <- NoCaps
    CostCap <- NoCaps
    Costs = {1}
    Requests = {r1, r2, r3}
    Profile <- RaceProfile
    KeyTTL = 1
    Workers = 2
    MaxTime = 2
    Midnights = {}
SPECIFICATION FairSpec
INVARIANTS
    TypeOK
    RepliesNameCommittedRuns
    StoredRowIsYoungest
    CommitIsAtomic
PROPERTIES
    KeepsLedger
    StoredPostNeverReexecuted
    EveryRequestAnswered
\* Every request has been answered and the clock has stopped.
CHECK_DEADLOCK FALSE
