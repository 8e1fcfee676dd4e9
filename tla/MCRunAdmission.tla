-------------------------- MODULE MCRunAdmission --------------------------
(***************************************************************************)
(* Instances of RunAdmission for TLC.  Each profile function says what the *)
(* requests of one run ask for.                                            *)
(***************************************************************************)
EXTENDS RunAdmission, TLC

CONSTANTS r1, r2, r3, r4, t1, t2, k1, apiKeyOnRun, tenantOnRun, tenantBudget, pipelineBudget

AllRoutes == {"pipeline_run", "customer_execute", "snapshot_replay"}
Storers == {"pipeline_run", "customer_execute"}

Post(tenant, key, route, rate, budget, tokens, mock) ==
    [tenant |-> tenant, key |-> key, route |-> route, rate |-> rate, budget |-> budget,
     tokens |-> tokens, mock |-> mock]

Unlimited(tenant, key, route) == Post(tenant, key, route, {}, {}, 1, FALSE)

NoRules == {}
NoCaps == [s \in BudgetScopes |-> NoLimit]

\* Three posts of one tenant under one key: two race for its row, the replay
\* may be answered from it but stores nothing.
RaceProfile ==
    (r1 :> Unlimited(t1, k1, "pipeline_run")) @@ (r2 :> Unlimited(t1, k1, "customer_execute")) @@
    (r3 :> Unlimited(t1, k1, "snapshot_replay"))

\* Posts that share the limits of one tenant; r1 and r2 also share an API key and
\* a pipeline, r4 replays the snapshot of a mock run (tokens, but no cost);
\* rates are counted per route and r4's route has no rule here.
LimitProfile ==
    (r1 :> Post(t1, NoKey, "pipeline_run", {apiKeyOnRun, tenantOnRun}, {tenantBudget, pipelineBudget}, 1, FALSE)) @@
    (r2 :> Post(t1, NoKey, "pipeline_run", {apiKeyOnRun, tenantOnRun}, {tenantBudget, pipelineBudget}, 3, FALSE)) @@
    (r3 :> Post(t1, NoKey, "pipeline_run", {tenantOnRun}, {tenantBudget}, 2, FALSE)) @@
    (r4 :> Post(t1, NoKey, "snapshot_replay", {}, {tenantBudget, pipelineBudget}, 3, TRUE))

LimitRules ==
    {[scope |-> apiKeyOnRun, window |-> 0, cap |-> 1], [scope |-> tenantOnRun, window |-> 0, cap |-> 1],
     [scope |-> tenantOnRun, window |-> 1, cap |-> 2]}
LimitRunCap == (tenantBudget :> 2) @@ (pipelineBudget :> 1)
LimitTokenCap == (tenantBudget :> 4) @@ (pipelineBudget :> NoLimit)
LimitCostCap == (tenantBudget :> 2) @@ (pipelineBudget :> NoLimit)
=============================================================================
