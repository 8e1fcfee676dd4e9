---------------------------- MODULE RunAdmission ----------------------------
(***************************************************************************)
(* The life of the POST requests that create runs (pipeline run, customer  *)
(* execute, snapshot replay), from IdempotencyMiddleware to the stored     *)
(* response.  Handlers run concurrently on a pool of worker threads; each  *)
(* has one database transaction, READ COMMITTED, that is committed once at *)
(* the end of the handler or never.  The idempotency store has sessions of *)
(* its own.  Rows that a handler has flushed but not committed are seen by *)
(* nobody else, so they are represented by the handler's pc alone.         *)
(***************************************************************************)
EXTENDS Integers, FiniteSets, FiniteSetsExt

CONSTANTS
    Requests,       \* the POST requests clients send
    Profile,        \* [Requests -> what the request asks for], see ProfileType
    Routes,         \* the route ids of the three handlers
    StoringRoutes,  \* those whose handler stores its response under the key
    Tenants, IdemKeys, NoKey,
    RateScopes,     \* what requests are counted by: an API key or a tenant, on a route
    RateRules,      \* configured limits, [scope, window, cap]
    BudgetScopes,   \* tenant, API key, pipeline, workflow
    RunCap, TokenCap, CostCap,   \* [BudgetScopes -> limit or NoLimit]
    NoLimit,
    Costs,          \* what an engine run may cost
    KeyTTL,         \* life of a stored response (24 h)
    Workers,        \* size of the worker thread pool
    MaxTime,        \* bound: the clock stops here
    Midnights,      \* instants at which a new UTC day may have begun
    None

ProfileType ==
    [tenant : Tenants, key : IdemKeys \cup {NoKey}, route : Routes,
     rate : SUBSET RateScopes, budget : SUBSET BudgetScopes,
     tokens : Nat, mock : BOOLEAN]

ASSUME RequestsAssumption ==
    /\ IsFiniteSet(Requests) /\ Profile \in [Requests -> ProfileType]
    /\ StoringRoutes \subseteq Routes
    /\ NoKey \notin IdemKeys /\ None \notin Requests

ASSUME LimitsAssumption ==
    /\ \A rule \in RateRules : rule.scope \in RateScopes /\ rule.window \in Nat /\ rule.cap \in Nat
    /\ NoLimit \notin Nat
    /\ \A limit \in {RunCap, TokenCap, CostCap} : limit \in [BudgetScopes -> Nat \cup {NoLimit}]
    /\ Costs \subseteq Nat /\ IsFiniteSet(Costs) /\ KeyTTL \in Nat /\ Workers \in Nat \ {0} /\ MaxTime \in Nat

VARIABLES
    now,        \* the clock (UTC)
    dayStart,   \* 00:00 UTC of the current day
    pc,         \* where the handler of each request stands
    started,    \* begin of the handler's transaction: func.now() of the rows it inserts
    cost,       \* execution_summary cost of the run
    runs,       \* committed Run rows, one per request at most
    events,     \* committed RequestEventRecord rows, one per request at most
    idem,       \* idempotency_keys: the row of a tenant and key, or NoRow
    seen,       \* the row the store's DELETE found, while its INSERT is pending
    stamp,      \* created_at of the row a request stores
    reply       \* the HTTP response

vars == <<now, dayStart, pc, started, cost, runs, events, idem, seen, stamp, reply>>
clock == <<now, dayStart>>
rows == <<runs, events, cost>>
store == <<idem, seen, stamp>>

NoRow == [req |-> None, at |-> 0]
Rows == [req : Requests \cup {None}, at : Nat]
NoReply == [status |-> "none", run |-> None]
Refusals == {"not_found", "invalid", "rate_limited", "over_budget", "value_error"}
Statuses == {"none", "created", "server_error", "lost"} \cup Refusals
Stages == {"new", "looked", "handling", "counted", "running", "committed", "storing", "answered"}

\* The unique key of idempotency_keys.
Slot(r) == <<Profile[r].tenant, Profile[r].key>>
Keyed(r) == Profile[r].key # NoKey
SameSlot(q, r) ==
    /\ Keyed(q) /\ Keyed(r)
    /\ Profile[q].tenant = Profile[r].tenant /\ Profile[q].key = Profile[r].key
Storing(r) == Keyed(r) /\ Profile[r].route \in StoringRoutes

\* Mutant: a row expires one instant early.
LiveUntilTTL(row) == row # NoRow /\ row.at > now - KeyTTL

\* IdempotencyStore.get: rows older than the TTL are ignored.
Live(row) == row # NoRow /\ row.at >= now - KeyTTL

Answer(r, status, run) ==
    /\ pc' = [pc EXCEPT ![r] = "answered"]
    /\ reply' = [reply EXCEPT ![r] = [status |-> status, run |-> run]]

Goto(r, stage) ==
    /\ pc' = [pc EXCEPT ![r] = stage]
    /\ UNCHANGED reply

\* Handlers are synchronous functions: each occupies a worker thread until it answers.
InHandler == {r \in Requests : pc[r] \in {"handling", "counted", "running", "committed", "storing"}}

Init ==
    /\ now = 0 /\ dayStart = 0
    /\ pc = [r \in Requests |-> "new"]
    /\ started = [r \in Requests |-> 0]
    /\ cost = [r \in Requests |-> 0]
    /\ runs = {} /\ events = {}
    /\ idem = [s \in Tenants \X IdemKeys |-> NoRow]
    /\ seen = [r \in Requests |-> NoRow]
    /\ stamp = [r \in Requests |-> 0]
    /\ reply = [r \in Requests |-> NoReply]

----------------------------------------------------------------------------
(* IdempotencyMiddleware *)

\* A live stored response is replayed and the handler is never called.
ReplayStored(r) ==
    /\ pc[r] = "new" /\ Keyed(r)
    /\ Live(idem[Slot(r)])
    /\ Answer(r, "created", idem[Slot(r)].req)
    /\ UNCHANGED <<clock, started, rows, store>>

\* Nothing stored (or no key): nothing is written that would tell another request.
PassThrough(r) ==
    /\ pc[r] = "new"
    /\ Keyed(r) => ~Live(idem[Slot(r)])
    /\ Goto(r, "looked")
    /\ UNCHANGED <<clock, started, rows, store>>

----------------------------------------------------------------------------
(* The handler *)

\* A worker takes the request; its first query opens the transaction.
Begin(r) ==
    /\ pc[r] = "looked"
    /\ Cardinality(InHandler) < Workers
    /\ started' = [started EXCEPT ![r] = now]
    /\ Goto(r, "handling")
    /\ UNCHANGED <<clock, rows, store>>

\* The pipeline, workflow or snapshot is not one of the tenant's.
NotFound(r) ==
    /\ pc[r] = "handling"
    /\ Answer(r, "not_found", None)
    /\ UNCHANGED <<clock, started, rows, store>>

\* count_requests: committed events of the scope in the sliding window.
EventsInWindow(rule) ==
    {e \in events : rule.scope \in Profile[e].rate /\ started[e] >= now - rule.window}

\* Mutant: refuses only once the limit is exceeded.
RateExceeded(r) ==
    \E rule \in RateRules :
        /\ rule.scope \in Profile[r].rate
        /\ Cardinality(EventsInWindow(rule)) > rule.cap

RateLimited(r) ==
    \E rule \in RateRules :
        /\ rule.scope \in Profile[r].rate
        /\ Cardinality(EventsInWindow(rule)) >= rule.cap

RefuseRate(r) ==
    /\ pc[r] = "handling"
    /\ RateLimited(r)
    /\ Answer(r, "rate_limited", None)
    /\ UNCHANGED <<clock, started, rows, store>>

\* Mutant: the limiter commits the event it records.
CountAndCommit(r) ==
    /\ pc[r] = "handling" /\ ~RateLimited(r)
    /\ events' = events \cup {r}
    /\ Goto(r, "counted")
    /\ UNCHANGED <<clock, started, runs, cost, store>>

\* The event is inserted and flushed, not committed.
CountRequest(r) ==
    /\ pc[r] = "handling"
    /\ ~RateLimited(r)
    /\ Goto(r, "counted")
    /\ UNCHANGED <<clock, started, rows, store>>

\* Input, schema, policy or skills envelope rejected, or the estimate is above
\* the cap of a single run: the transaction is dropped.
RefuseInput(r) ==
    /\ pc[r] = "counted"
    /\ Answer(r, "invalid", None)
    /\ UNCHANGED <<clock, started, rows, store>>

\* Runs created today in the scope, committed ones only.
RunsToday(s) == {q \in runs : s \in Profile[q].budget /\ started[q] >= dayStart}

\* estimated_tokens of a Run row: mock runs are recorded with zero, replays of
\* a mock snapshot with their estimate.
Tokens ==
    [q \in Requests |->
        IF Profile[q].mock /\ Profile[q].route \in StoringRoutes THEN 0 ELSE Profile[q].tokens]
Total(amount, S) == MapThenSumSet(LAMBDA q : amount[q], S)
TokensToday(s) == Total(Tokens, RunsToday(s))
CostToday(s) == Total(cost, RunsToday(s))

\* Mutants: the run about to start is left out of the comparison.
TokensExceeded(r, s) == TokenCap[s] # NoLimit /\ TokensToday(s) > TokenCap[s]
RunsExceeded(r, s) == RunCap[s] # NoLimit /\ Cardinality(RunsToday(s)) > RunCap[s]
OverTokens(r, s) == TokenCap[s] # NoLimit /\ TokensToday(s) + Profile[r].tokens > TokenCap[s]
OverRuns(r, s) == RunCap[s] # NoLimit /\ Cardinality(RunsToday(s)) + 1 > RunCap[s]

\* The run about to start is priced at a millionth of a unit per token, less
\* than any recorded cost: the check refuses once the limit is reached.
OverCost(r, s) == CostCap[s] # NoLimit /\ CostToday(s) >= CostCap[s]

OverBudget(r) == \E s \in Profile[r].budget : OverTokens(r, s) \/ OverRuns(r, s) \/ OverCost(r, s)

RefuseBudget(r) ==
    /\ pc[r] = "counted"
    /\ OverBudget(r)
    /\ Answer(r, "over_budget", None)
    /\ UNCHANGED <<clock, started, rows, store>>

\* Mutant: the "running" row is committed before the engine runs.
StartRunCommitted(r) ==
    /\ pc[r] = "counted" /\ ~OverBudget(r)
    /\ runs' = runs \cup {r}
    /\ Goto(r, "running")
    /\ UNCHANGED <<clock, started, events, cost, store>>

\* Within budget: the Run row is inserted ("running") and flushed, not committed.
StartRun(r) ==
    /\ pc[r] = "counted"
    /\ ~OverBudget(r)
    /\ Goto(r, "running")
    /\ UNCHANGED <<clock, started, rows, store>>

\* The engine, a skill hook or the database raises: a ValueError of the engine
\* is answered 400 after a rollback by customer execute, anything else is a 500.
EngineFails(r) ==
    /\ pc[r] = "running"
    /\ \/ /\ Profile[r].route = "customer_execute" /\ ~Profile[r].mock
          /\ Answer(r, "value_error", None)
       \/ Answer(r, "server_error", None)
    /\ UNCHANGED <<clock, started, rows, store>>

\* Mutant: the handler returns without its commit.
CommitForgotten(r) ==
    /\ pc[r] = "running"
    /\ Goto(r, "committed")
    /\ UNCHANGED <<clock, started, rows, store>>

\* The engine (or the mock) is done; event, run, I/O rows and snapshot become
\* visible in one commit.
Commit(r) ==
    /\ pc[r] = "running"
    /\ \E c \in (IF Profile[r].mock THEN {0} ELSE Costs) : cost' = [cost EXCEPT ![r] = c]
    /\ runs' = runs \cup {r}
    /\ events' = events \cup {r}
    /\ Goto(r, "committed")
    /\ UNCHANGED <<clock, started, store>>

----------------------------------------------------------------------------
(* The response, and its storage under the key in a transaction of its own *)

\* No key, or a handler that stores nothing.
AnswerUnstored(r) ==
    /\ pc[r] = "committed" /\ ~Storing(r)
    /\ Answer(r, "created", r)
    /\ UNCHANGED <<clock, started, rows, store>>

\* Building the customer output raises after the commit.
RenderFails(r) ==
    /\ pc[r] = "committed" /\ Profile[r].route = "customer_execute"
    /\ Answer(r, "server_error", None)
    /\ UNCHANGED <<clock, started, rows, store>>

\* Mutant: the row is stamped with the cutoff instead of the clock.
StoreDeleteWithCutoff(r) ==
    /\ pc[r] = "committed" /\ Storing(r)
    /\ seen' = [seen EXCEPT ![r] = idem[Slot(r)]]
    /\ stamp' = [stamp EXCEPT ![r] = now - KeyTTL]
    /\ Goto(r, "storing")
    /\ UNCHANGED <<clock, started, rows, idem>>

\* _put_envelope: DELETE the row of the key, as committed at this moment.
StoreDelete(r) ==
    /\ pc[r] = "committed" /\ Storing(r)
    /\ seen' = [seen EXCEPT ![r] = idem[Slot(r)]]
    /\ stamp' = [stamp EXCEPT ![r] = now]
    /\ Goto(r, "storing")
    /\ UNCHANGED <<clock, started, rows, idem>>

\* Mutant: the table has no unique constraint, the last insert wins.
StoreInsertAnyway(r) ==
    /\ pc[r] = "storing"
    /\ idem' = [idem EXCEPT ![Slot(r)] = [req |-> r, at |-> stamp[r]]]
    /\ Answer(r, "created", r)
    /\ UNCHANGED <<clock, started, rows, seen, stamp>>

\* INSERT and COMMIT while the row of the key is still the one deleted.
StoreInsert(r) ==
    /\ pc[r] = "storing"
    /\ idem[Slot(r)] = seen[r]
    /\ idem' = [idem EXCEPT ![Slot(r)] = [req |-> r, at |-> stamp[r]]]
    /\ Answer(r, "created", r)
    /\ UNCHANGED <<clock, started, rows, seen, stamp>>

\* Mutant: the handler retries the same INSERT until it succeeds.
StoreConflictRetried(r) ==
    /\ pc[r] = "storing"
    /\ idem[Slot(r)] # seen[r]
    /\ Goto(r, "storing")
    /\ UNCHANGED <<clock, started, rows, store>>

\* Another request stored a row in between: uq_idempotency_keys_tenant_key
\* rejects the INSERT and the IntegrityError becomes a 500.
StoreConflict(r) ==
    /\ pc[r] = "storing"
    /\ idem[Slot(r)] # seen[r]
    /\ Answer(r, "server_error", None)
    /\ UNCHANGED <<clock, started, rows, store>>

----------------------------------------------------------------------------
(* The environment *)

\* The server process that has the request dies; its open transaction is dropped.
Crash(r) ==
    /\ pc[r] \in {"looked", "handling", "counted", "running", "committed", "storing"}
    /\ Answer(r, "lost", None)
    /\ UNCHANGED <<clock, started, rows, store>>

\* IdempotencyStore.delete_expired, in one transaction; a row that a handler is
\* about to replace is locked by its DELETE and gone when the lock is released.
Expired(s) ==
    /\ idem[s] # NoRow /\ ~Live(idem[s])
    /\ \A r \in Requests : pc[r] = "storing" /\ Slot(r) = s => seen[r] # idem[s]

DeleteExpired ==
    /\ \E s \in Tenants \X IdemKeys : Expired(s)
    /\ idem' = [s \in Tenants \X IdemKeys |-> IF Expired(s) THEN NoRow ELSE idem[s]]
    /\ UNCHANGED <<clock, pc, started, rows, seen, stamp, reply>>

Tick ==
    /\ now < MaxTime
    /\ now' = now + 1
    /\ dayStart' \in {dayStart} \cup ({now + 1} \cap Midnights)
    /\ UNCHANGED <<pc, started, rows, store, reply>>

Handle(r) ==
    \/ ReplayStored(r) \/ PassThrough(r)
    \/ Begin(r) \/ NotFound(r)
    \/ RefuseRate(r) \/ CountRequest(r)
    \/ RefuseInput(r) \/ RefuseBudget(r) \/ StartRun(r)
    \/ EngineFails(r) \/ Commit(r)
    \/ AnswerUnstored(r) \/ RenderFails(r)
    \/ StoreDelete(r) \/ StoreInsert(r) \/ StoreConflict(r)

Next ==
    \/ \E r \in Requests : Handle(r) \/ Crash(r)
    \/ DeleteExpired
    \/ Tick

Spec == Init /\ [][Next]_vars

\* Threads are scheduled and database calls return: a request that can take
\* its next step eventually does.  Crashes and the clock are left unfair.
FairSpec == Spec /\ \A r \in Requests : WF_vars(Handle(r))

----------------------------------------------------------------------------
(* Properties *)

\* Type invariant.
TypeOK ==
    /\ now \in Nat /\ dayStart \in Nat
    /\ pc \in [Requests -> Stages]
    /\ started \in [Requests -> Nat]
    /\ cost \in [Requests -> Nat]
    /\ runs \subseteq Requests /\ events \subseteq Requests
    /\ idem \in [Tenants \X IdemKeys -> Rows]
    /\ seen \in [Requests -> Rows]
    /\ stamp \in [Requests -> Nat]
    /\ reply \in [Requests -> [status : Statuses, run : Requests \cup {None}]]

\* A response stored under a key, and every 201 a client receives, is the
\* response of a committed run of the same tenant and key (its own run, if the
\* request has no key): no replay of a run that was rolled back or of another
\* tenant's.  [IdempotencyMiddleware, maybe_persist_idempotent_*]
RepliesNameCommittedRuns ==
    /\ \A s \in Tenants \X IdemKeys :
        idem[s] # NoRow => idem[s].req \in runs /\ Storing(idem[s].req) /\ Slot(idem[s].req) = s
    /\ \A r \in Requests :
        reply[r].status = "created" =>
            reply[r].run \in runs /\ (reply[r].run = r \/ SameSlot(r, reply[r].run))

\* The request has been answered 201 and its response was stored.
Stored(q) == Storing(q) /\ reply[q] = [status |-> "created", run |-> q]

\* Two rows of one key never overwrite each other backwards in time, so the
\* row of a key is at least as young as every response that was stored under
\* it within the TTL: a stored response stays replayable for the whole TTL,
\* even when several handlers with the same key and the purge of expired rows
\* race for the row.  [IdempotencyStore._put_envelope, delete_expired]
StoredRowIsYoungest ==
    \A q \in Requests :
        Stored(q) /\ now <= stamp[q] + KeyTTL =>
            idem[Slot(q)] # NoRow /\ stamp[q] <= idem[Slot(q)].at

\* A request is never handled while the response of an earlier request with
\* its key is stored and younger than the TTL: duplicates need a race, a lost
\* store or an expired key.  [IdempotencyMiddleware.dispatch]
StoredPostNeverReexecuted ==
    [][\A r, q \in Requests :
        (PassThrough(r) /\ SameSlot(q, r) /\ Stored(q)) => now > stamp[q] + KeyTTL]_vars

\* The traffic sample of a request and its run become visible together: no
\* run escapes the rate limit's count, no run is visible while it executes,
\* and a request that was refused by its input, its budget or the engine
\* leaves neither.  [get_db: one commit at the end of the handler]
CommitIsAtomic ==
    /\ runs = events
    /\ \A r \in Requests :
        /\ pc[r] \in {"committed", "storing"} => r \in runs
        /\ r \in runs => pc[r] \in {"committed", "storing", "answered"}
        /\ reply[r].status \in Refusals => r \notin runs

\* Requests past the rate check whose event is not committed yet.
RateAdmitted(rule) ==
    {r \in Requests : pc[r] \in {"counted", "running"} /\ rule.scope \in Profile[r].rate}

\* The check counts committed events only, so handlers that run at the same
\* time do not see each other; still, a window never holds more than the limit
\* plus the other worker threads, requests in flight included.  With one worker
\* the limit is exact.  [enforce_rate_limit_and_record]
RateOvershootBounded ==
    \A rule \in RateRules :
        Cardinality(EventsInWindow(rule) \cup RateAdmitted(rule)) <= rule.cap + Workers - 1

\* Requests past the budget check whose run is not committed yet.
BudgetAdmitted(s) == {r \in Requests : pc[r] = "running" /\ s \in Profile[r].budget}

\* The same for the number of runs per day of a budget scope.
\* [enforce_execution_budget, count_runs_today]
RunBudgetOvershootBounded ==
    \A s \in BudgetScopes :
        RunCap[s] # NoLimit =>
            Cardinality(RunsToday(s) \cup BudgetAdmitted(s)) <= RunCap[s] + Workers - 1

MaxTokens == Max({0} \cup {Profile[r].tokens : r \in Requests})

\* Token budgets are checked before a run for its estimate: each of the other
\* worker threads may carry one more run past the limit.  [sum_tokens_today]
TokenBudgetOvershootBounded ==
    \A s \in BudgetScopes :
        TokenCap[s] # NoLimit => TokensToday(s) <= TokenCap[s] + (Workers - 1) * MaxTokens

\* Costs are known only after a run, so even the last run admitted alone may
\* overshoot by its whole cost, and each worker thread by one run's.
\* [sum_costs_today, prospective_cost_increment]
CostBudgetOvershootBounded ==
    \A s \in BudgetScopes :
        CostCap[s] # NoLimit /\ CostCap[s] > 0 =>
            CostToday(s) <= CostCap[s] - 1 + Workers * Max({0} \cup Costs)

\* What a tenant or a pipeline can spend in a day beyond its caps is bounded by
\* what the worker threads do at the same time.  [check_budget_before_run]
SpendOvershootBounded == TokenBudgetOvershootBounded /\ CostBudgetOvershootBounded

\* Every request is answered (or lost in a crash): no handler waits for ever
\* for a worker, a limit or the row of its key.
EveryRequestAnswered == \A r \in Requests : <>(pc[r] = "answered")

\* What a sender can conclude from a response.
Meaning(response) ==
    CASE response.status = "none" -> [kind |-> "pending"]
      [] response.status = "created" -> [kind |-> "success", run |-> response.run]
      [] response.status \in Refusals -> [kind |-> "refused"]
      [] OTHER -> [kind |-> "failed"]

\* What senders are promised, see RunLedger.
Ledger ==
    INSTANCE RunLedger WITH
        Posts <- Requests,
        MayShare <- {pair \in Requests \X Requests : SameSlot(pair[1], pair[2])},
        ledger <- runs,
        answer <- [r \in Requests |-> Meaning(reply[r])]

\* The admission path implements the promise.
KeepsLedger == Ledger!Spec

\* What the OpenAPI text says of the Idempotency-Key header ("Wiederholbare
\* POST-Requests ohne doppelte Ausfuehrung"): one key, one run within the TTL.
OneRunPerKey ==
    \A q, r \in runs :
        SameSlot(q, r) /\ started[r] - started[q] \in 0 .. KeyTTL => q = r

=============================================================================
