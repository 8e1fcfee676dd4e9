CONSTANTS
    r1 = r1 r2 = r2 r3 = r3 r4 = r4 t1 = t1 t2 = t2 k1 = k1
    apiKeyOnRun = apiKeyOnRun tenantOnRun = tenantOnRun
    tenantBudget = tenantBudget pipelineBudget = pipelineBudget
    Routes <- AllRoutes
    StoringRoutes <- Storers
    NoKey = NoKey None = None NoLimit = NoLimit
    RateScopes = {apiKeyOnRun, tenantOnRun}
    BudgetScopes = {tenantBudget, pipelineBudget}
    Tenants = {t1}
    IdemKeys = {k1}
    RateRules <- LimitRules
    RunCap <- LimitRunCap
    TokenCap <- LimitTokenCap
    CostCap <- LimitCostCap
    Costs = {2}
    Requests = {r1, r2, r3, r4}
    Profile <- LimitProfile
    KeyTTL = 0
    Workers = 2
    MaxTime = 1
    Midnights = {1}
SPECIFICATION Spec
INVARIANTS
    RateOvershootBounded
    RunBudgetOvershootBounded
    SpendOvershootBounded
CHECK_DEADLOCK FALSE
