# Verification of Arctis

TLA+ models of the parts of Arctis in which steps of several actors interleave,
fail half way or meet stale data, and of the pure algorithms the rest stands on;
TLC configurations that check them on small instances; and TLAPS proofs of the
most important safety properties for every instance. Paths below are relative to
the repository.

## 1. The system

Arctis runs *pipelines*: graphs of steps (modules, routing decisions, effects,
sagas, model calls) under the policies of a tenant. A FastAPI application
(`arctis/api`) keeps tenants, pipelines, workflows, runs and snapshots in a
database and calls the engine (`arctis/engine`) inside the HTTP handler. A
command line client, `arctis_ghost`, posts workflow inputs and watches runs. An
earlier orchestrator (`core`) lets a model write files under rules.

| Component | State it keeps | Operations | What is hard | What makes it correct |
| --- | --- | --- | --- | --- |
| Run admission (`api/middleware.py`, `api/routes/runs.py`, `api/routes/customer.py`, `engine/ratelimit*.py`, `engine/budget*.py`, `idempotency/`) | `runs`, `request_events`, `idempotency_keys` rows | pipeline run, customer execute, snapshot replay, purge of keys | handlers of one key or one limit run at the same time; the response is stored after the commit; crashes between the two | a success names a committed run; a refusal leaves nothing; a stored response is replayed; limits are overshot by a bounded amount |
| Execution engine (`engine/runtime.py`, `saga.py`, `snapshot.py`, `effects/`) | effect store, snapshot store, run counter, injected failures | run, replay | a run may stop at any step; graphs may be cyclic, join or dangle; ids are only unique within an engine | effects are written once; only legal, complete executions are published; compensation mirrors execution |
| Workflow and pipeline versions (`workflow/`, `pipeline/auto_optimize.py`, `api/routes/workflows.py`, `pipelines.py`) | `pipeline_versions`, `workflows`, `workflow_versions` rows | create, upgrade, harden, optimise prompt, optimise pipeline | two reads in one session, row locks, unique keys | one current version, a gapless history, immutable versions, no circle of waiting sessions |
| Reviews (`review/`, `api/routes/review.py`, `metrics/review_sla.py`) | `review_tasks`, `reviewer_decisions` | open, approve, reject, post-approval execution, paged queue, SLA summary | two reviewers decide at once from stale rows; effects between flush and commit; rows committed out of order while a client pages | undisturbed decisions are whole; breaches are kept; execution is exclusive; pages are exact |
| Routing models, policies, flags (`routing/`, `policy/`, `api/routes/admin_*.py`) | `routing_models`, `tenant_policies`, `pipeline_policies`, `tenant_feature_flags` | upsert, activate, put, patch, resolve | two activations switch off what they saw; a policy is resolved by several statements; locks of two rows | tenants stay apart; a recorded version is not older than what it goes with; no gap and no deadlock while a model is switched |
| Audit trail (`audit/`) | JSONL files, bucket, endpoint, dead letters, table | write with retries and fan-out, export, detail | a sink fails after another one has written; torn lines; a cursor over growing files | what is acknowledged is everywhere; loss and copies are bounded; pages are exact |
| Ghost client (`arctis_ghost/`) | state directory: run id per execute body | run, watch | invocations share files; late answers; 429 retries; kills | a printed run is of the body asked for; one run per invocation; it ends |
| Earlier orchestrator (`core/`) | target files, patch files, audit | run a task with corrections and plugins | the file changes between read, check and write; runs die | only accepted code is written; outcomes are true |
| Pipeline compiler (`compiler.py`), customer output | none | parse, check, lower, optimise, pick and strip the result | cycles, dangling and repeated names | nothing is lost; the result is that of the last step |
| Sanitizer, input validation, control plane binding | none | detect, redact, merge policies, validate, bind a payload | overlapping detections; placeholders in payloads | what is detected does not stay; guards only tighten |
| Costs, routing analytics, safety score | none | price, report, histogram, drift | missing and unreadable numbers; window edges | reports add up; scores fall with failures |
| Prompt and pipeline matrix | none | run all, diff, tabulate, recommend | pairs, repetitions, error classes | every pair is compared; tables agree |
| Ghost settings and recipes | none | merge layers | which layer wins | the highest layer wins |
| Authentication and scopes | key rows | find a key, resolve scopes, choose the reviewer of a listing | expiry, blank scopes, header against query | a listing stays with its key |

Interaction: the middleware calls a handler; the handler checks rate limit,
input, budget and policies (`Settings`), calls `Engine.run` or `replay`
(`EngineRun`), writes the run and the engine's snapshot row and commits once
(`RunAdmission`); routing may open a review task (`Reviews`) and the audit
reporter hands its rows to the sinks (`AuditTrail`). The ghost client sees the
HTTP interface only. The compiler, the sanitizer and the figures are functions
that the handlers call; they hold no state between calls.

## 2. Modules

| Module | Models | Correspondence |
| --- | --- | --- |
| `RunLedger` | the promise to the sender of a run-creating POST | abstract specification: `ledger` (persisted runs), `answer` (what a sender can conclude from a response) |
| `RunAdmission` | the three POST handlers, the idempotency middleware and store | `pc[r]` is where the handler stands; rows that a handler has flushed but not committed are visible to nobody and so are represented by `pc` alone; `runs`, `events`, `idem` are the committed tables; `seen` is the row the store's DELETE found while its INSERT is pending; `started` is `func.now()` of the transaction, hence `created_at` of its rows |
| `EnginePromise` | what an engine promises | abstract specification: a write-once effect store, and published executions that are legal walks of their graph |
| `EngineRun` | `Engine.run`, `Engine.replay`, saga, effect and snapshot engines | `queue`, `visited`, `trace`, `sagas`, `applied` are the locals of `run`; `effects`, `snapshots`, `seq`, `armed` the engine's fields; `blobs` the snapshot rows the control plane writes; each loop iteration is one action per kind of step |
| `WorkflowVersions` | versions of a pipeline and its workflows | one session per request or job; each read, flush and commit is an action; `newVersion` and `newRow` are uncommitted rows, which other sessions meet only as locks |
| `Reviews` | review tasks, decisions, deadlines, the paged queue | one session per request: load, decide, flush (UPDATE of the columns that differ from the loaded row, and the row lock), execute, commit; `walk` is a client with its cursor |
| `Settings` | routing models, policies, flags and their resolution | one session per request; `loaded` and `siblings` are the objects a session has, `held` the row locks of its flush; `eff` is a run's effective policy, read by read (`due` is the next one); `seen` are the policies since its first read, in the order of their commits |
| `AuditTrail` | resilient and fan-out sinks, the audit stores, export and detail | `at[r]` is the position of a writer (attempt, sink, row, half of a row); files are sequences of lines made of parts; `reader` is a client that follows cursors; a run is a model value, its id `run:N` the number its engine gave it, which runs of other engines share |
| `GhostClient` | `ghost run` and `ghost watch` | an inode is named by the invocation that created it; `path` and `tmp` are the state file and its `.part` file, `content` what an inode holds |
| `CoreTasks` | `run_task`, its correction loop and the patcher | `task[t].pc` is where a run stands; a file is a sequence of texts (a mixed file has two); opening truncates, writing continues |
| `Samples` | nothing of the code | one sample per behaviour (`Draw`), for the modules that are functions only; their properties are invariants of `DrawsFrom(kind, inputs)` |
| `Compiler` | `parse_pipeline`, `check_pipeline`, `generate_ir`, `optimize_ir`, the order of the steps a customer's result is taken from | operators over graphs; a loop (depth-first search, breadth-first search, Kahn's order) is a function of the number of its rounds |
| `CustomerOutput` | governance keys taken out of what a customer is given | recursive operators over JSON values |
| `Trees`, `Inputs` | JSON values and deep merge; the merge of templates, governance keys, payload binding | recursive operators |
| `Sums` | `sum()` of a list, of its beginnings, of some of its places | one recursive function; used by `Figures` and `ContextAndPatch` |
| `Sorting` | `sorted()`, stable sorting by a key | the members of a finite set in a strict total order; used by `AuditTrail`, `Sanitizer`, `ContextAndPatch`, `Figures` |
| `Sanitizer` | detections, redaction, reports, sanitizer policies, schema and forbidden fields, zero-risk guards | a text is its length, a detection an interval with a type and a layer |
| `Figures` | prices, cost reports, routing analytics, safety score | exact integers; an absent number is `{}`, an unreadable one `{Unreadable}`; rows are sequences |
| `Matrix` | the prompt matrix and its diffs, tables and recommendations | outputs are trees, their keys strings (some with dots, one empty), which a diff joins with dots; replies of the API are inputs |
| `GhostConfig` | settings in layers, execute body | trees; a time is a number of halves of a second or `NaN` |
| `Rules` | rule groups of a task | trees |
| `ContextAndPatch` | the files of a task, chosen and shown; patches of a module's definitions | sequences of files and of nodes, and whether a source can be parsed; the loop over the snippets is a function of the number of its rounds |
| `Access` | keys, scopes, the reviewer of a listing | a key is a record; `None` columns are empty sets |
| `MC*` | instances for TLC | profiles, graphs, scenes, symmetry; `MCDefinitions` draws bounded inputs for the stateless modules |
| `*_proofs` | theorems | section 6 |

`RunAdmission` INSTANCEs `RunLedger` (`KeepsLedger == Ledger!Spec`), `EngineRun`
INSTANCEs `EnginePromise` (`KeepsPromise == Promise!Spec`); both refinements are
checked and proved. `MCDefinitions` composes the stateless modules: those with
theorems (`Compiler`, `Sanitizer`, `ContextAndPatch`, `Access`, `Figures`) extend `Samples`
and state their property themselves, the others are instances. `CustomerOutput`
is about JSON values; `Inputs`, `Matrix`, `GhostConfig` and `Rules` share `Trees`.

Definitions commented `Mutant:` are deliberately wrong variants of the
definition below them. They are used by no specification; each makes one
property fail and so shows that the property says something about the code.

Some properties are conjunctions of named parts (`QueueIsConsistent`,
`SettingsAreConsistent`, `TablesAreConsistent` and so on): TLC checks the whole,
the parts are stated and commented one by one.

## 3. Runs

| Run | Shows | Bounds |
| --- | --- | --- |
| `AdmissionKeys` | `KeepsLedger`, `RepliesNameCommittedRuns`, `StoredRowIsYoungest`, `StoredPostNeverReexecuted`, `CommitIsAtomic`, `EveryRequestAnswered`, `TypeOK` | three posts (one per route) under one key, two workers, TTL 1, clock 0..2 |
| `AdmissionLimits` | overshoot of rate, run, token and cost limits is bounded by what the worker threads have in hand (`SpendOvershootBounded`: tokens and costs) | four posts, one of them the replay of a mock snapshot, two workers, two rate scopes with windows 0 and 1, two budget scopes |
| `AdmissionOneRunPerKey` | *violation*: two posts of one key can both run | as `AdmissionKeys`, no time passes |
| `EngineGraphs` | `KeepsPromise`, `DryRunTouchesNothing`, `EveryRunEnds`, `EngineIsConsistent` (types; compensation mirrors the trace) | one run over three graphs (cycle, join, dangling and routed edges, sagas), two payload values, one strict tenant of two |
| `EngineReplays` | `SnapshotsAreSound`: one snapshot per run, only completed runs are replayed | two runs or admitted replays, any number of refused replays, one foreign row |
| `VersionsHistory` | `TablesAreConsistent` (one current version, the history is a truthful chain, a suffix has a reason), `VersionsAreImmutable`, `NobodyIsStuck` (no circle of lock waits, and what is not delayed can go on) | three sessions of all six kinds on one workflow; sessions are symmetric |
| `GhostRuns` | `InvocationsAreConsistent` (printed run is of this body, one run per invocation, unreadable only after a race), `SuccessIsRemembered`, `EveryInvocationEnds` | two invocations, two bodies, one retry, one watcher, one replay |
| `ReviewsQueue` | `QueueIsConsistent` (decided rows are complete, breaches are kept, loads add up, walks are exact), `DecisionsAreWhole`, `EveryDecisionEnds` | two reviewers, two tasks, one client with pages of one task and two filters, clock 0..1 |
| `Settings` | `SettingsAreConsistent` (one active model; what a run resolves is the content of one committed policy, with its version or a later one), `ChangesAreLawful` (tenants are isolated, an immutable policy stands, versions differ, a switch leaves no gap, a run is routed by its own tenant's model), `EverySessionEnds` | three sessions of two tenants in eleven scenarios of models and requests |
| `AuditTrail` | `RowsAreAccountedFor` (acknowledged rows are everywhere, loss and copies are bounded, nothing is given up silently), `PagesAreExact` (exports; details, which have all rows of their run and of other runs only those that bear its id) | two runs of two rows, two retries, one reader with pages of two rows, seven deployments, in six of which the two runs have one id |
| `CoreTasks` | `OnlyAcceptedCodeIsWritten`, `RunsAndFilesAgree` (outcomes are true, only what was read is overwritten, files are whole), `EveryRunEnds` | two runs on one file, one foreign edit, one disk error or death, two attempts and two rounds |
| `Definitions` | what the stateless functions compute, against their reference definitions | section 3.1 |

Why the bounds are enough. A race for a row of `idempotency_keys` is between the
DELETE/INSERT pairs of two handlers and the purge: two storing posts and a clock
that passes the TTL produce every order, a third post observes the result.
Overshooting a limit by w workers needs w handlers past the check and one more
that must be refused. Engine runs are sequential, so one run shows every walk of
a graph and two show what the first leaves behind (armed failures, ids, effects,
rows). A version race is between the two reads and the write of one session and
the commit of another; the third session makes the write of the second stale as
well. A review has two loads, two flushes and two commits in any order; a cursor
is wrong after the first page or never, and two tasks of one creation time make
the tie. Three settings sessions give two activations and a third that sees
their result, or two writers and the reads of a resolution between them. The
audit scenes have each kind of sink, a torn line with a neighbour in the same
file, and pages that end at the end of a file and at the limit of the scan. One
fault of the orchestrator shows each point of failure, the second run and the
editor the races around it.

`CHECK_DEADLOCK FALSE` appears in every configuration: the systems end when all
requests, runs or sessions have ended and the bounds are reached. Bounds in
guards: `MaxTime`, `MaxRuns`, `MaxPatch`, `MaxRetries`, `MaxReplays`, `MaxEdits`,
`MaxFaults`, `Midnights`. The code bounds `Retries`, `Iterations`, `MaxScan`,
`Limit` and `Workers` itself.

### 3.1 The stateless functions

`Definitions` draws one input per behaviour and compares what the translated
function returns with a definition of what it should be:

| Property | Parts |
| --- | --- |
| `CompiledPipelinesAreSound` | parsing loses nothing; the search finds exactly the cycles; a checked pipeline is lowered and optimised whole and without an error; an optimised graph is exactly what its entries reach; the customer's result is that of the last step in topological order |
| `BoundariesHold` | no governance key at any depth of an output; one anywhere in an input is found; placeholders are bound as if all at once while payloads hold none that comes later |
| `SanitizingHolds` | the text `run_sanitizer_pipeline` returns is a redaction of its detections (`IsRedaction`), and the metadata of that text counts its labels, in all and by type; a zero-risk policy is valid, strict and a fixed point; steps only tighten |
| `FiguresHold` | reports of adjacent windows, and of pipelines, add up, whatever other tenants spend; every row is counted once; drift follows the time and not the order of rows; a score keeps its range and falls with failures and drift; a run is priced for what its steps report, each kind of token at the model's or a given price |
| `MatrixHolds` | a diff lists the names of leaves that are new, gone or stand for other values, and a name that stands for one value in both outputs is listed exactly if they differ, and where names tell paths apart `none` means no difference; every pair is compared; tables add up |
| `LayersKeepTheirOrder` | a setting that loads is within its limits or a `nan` that the winning layer gave, and profiles that are not chosen have no say; every value of a body and of the effective rules is of the highest layer that speaks |
| `ContextAndPatchHold` | the best files are chosen, the same in any order of finding; snippets fit the budget and only the last is cut; a patch of a file that can be parsed replaces every old copy and leaves the rest in its place, any other file stays as it is, and patching is idempotent |
| `ListingsStayWithTheKey` | a listing is for a live key with the scope, and for its own reviewer or an administrator |

The inputs: two steps of any shape or three with rough successors and five with
clean ones; trees of depth three over two keys; texts of three places with three
detections; two rows per report, six decisions; outputs with plain, dotted and
empty keys, in either order; matrices of six cells; three layers of settings, with
numbers in and out of their limits and `nan`; three context files; patches of three
nodes, of sources that can be parsed or not; one key.

## 4. Fairness

* `RunAdmission`: weak fairness of each request's next handler step. Handlers run
  on a thread pool, database statements return or raise, and a free worker takes
  a waiting request. Crashes, the purge and the clock are not fair.
* `EngineRun`: weak fairness of the walk: modules are functions, the model client
  has a time-out. Nobody is obliged to start a run.
* `Reviews`: weak fairness of each request's next step (a row lock is released by
  a commit) and of the paging client. Nobody is obliged to decide.
* `Settings`: weak fairness of each session's next unblocked statement. Loading
  is the client's choice.
* `GhostClient`: weak fairness of an invocation's own steps (hooks and requests
  have time-outs), of "served or given up", and of a poll that can show a final
  status. Kills, Ctrl-C and other clients are not fair.
* `CoreTasks`: weak fairness of each run; the model client returns or raises.
* `WorkflowVersions` and `AuditTrail` are checked for safety only; `NobodyIsStuck`
  says that sessions which wait for locks never wait in a circle (`NoCircle`) and
  that a session which no lock delays can take its next step.

## 5. Findings and observations

Finding: concurrent posts with one `Idempotency-Key` both run
(`AdmissionOneRunPerKey`); the loser of the unique key is answered 500 although
its run is committed (allowed by `RunLedger`, where a failure promises nothing).

Observed while modelling, by part; the properties that pass are stated so that
they hold with what is said here.

* Admission: an answered keyed POST to `/snapshots/{id}/replay` is executed again
  when repeated: the route stores no answer. A refused request loses the event
  the rate limiter flushed, so only committed requests count against a limit.
  `delete_expired` has no caller.
* Engine: `Engine.replay` restores a foreign row under its id before it compares
  tenants, so an engine that both runs and replays can lose a snapshot
  (`OneSnapshotPerRun` excepts ids of foreign rows; the API uses a fresh engine
  per request). A dry run that is routed to manual review opens a review task.
* Versions: `harden_workflow` derives the policies from its first read, so a
  workflow may end at a lower threshold than it had; a taken name becomes
  `1.0.1.h`, which `semver_tuple` refuses from then on. `auto_optimize_prompt`
  builds its prompt from a template read before the matrix runs. A duplicate
  pipeline name is answered 500, the flush being outside the try.
* Reviews: decisions that overlap can be mixtures (status of one, reviewer of
  another), and post-approval steps may have been executed for a task that ends
  up rejected. `open_tasks` of the reviewer load is always 0. Undecided overdue
  tasks are never marked. A detail of more than 2000 envelopes is answered 503.
* Settings: overlapping activations can leave zero or two active models, and
  overlapping policy writes can repeat a version. Global models have no tenant,
  and the unique key does not count such rows as equal. `resolve_effective_policy`
  reads a tenant's row twice, first for the values and then for the version it
  records, and keeps no reference to it in between: a change that commits between
  the two leaves the content of version n recorded as n+1. `patch_tenant_flags`
  also reads twice and merges onto the first reading, so it may overwrite a row
  that was inserted meanwhile with the defaults.
* Audit: `persist_audit_rows_from_trace` has no caller and no `audit_sink` is
  wired by the API. In database mode a task detail finds no store. Rows with an
  earlier time that are committed late are not in an export that has passed
  them. Run ids repeat across engines (the API makes one per request, and each
  counts from `run:1`), so object keys collide, and a task detail, which compares
  these ids, also shows the rows of the tenant's other runs with the same id. The
  retry after a torn write continues the torn line, which loses one row.
* Ghost: `ghost watch` does not know the final status `replay`. A missing
  `ARCTIS_GHOST_CONFIG` file hides `./ghost.yaml`; blank variables do not win.
* Compiler: `check_pipeline` has no caller outside tests; `optimize_ir` drops
  unreachable and unknown steps without a word.
* Sanitizer: of two overlapping detections the later one is dropped, so its tail
  stays in clear. Place and organisation detectors report one mention each. The
  engine's own step (`engine/modules/sanitizer.py`) gives only the top-level strings
  of a payload to `run_sanitizer_pipeline`, none if it has no policy, and counts its
  impact over the JSON text of the whole payload: what the theorems and the run say
  is about that function and one text, not about what the step passes on.
* Inputs: a payload that holds a later placeholder is substituted again.
* Figures and matrix: report windows include both ends. A matrix never sends a
  variant's model or region and its rows have no cost or confidence, so all four
  recommendations coincide. `{a: {}}` and `{}` have an empty diff. A diff names a
  leaf by its keys joined with dots and drops an empty prefix, so dotted or empty
  keys collide: `{"a": {"b": 1}}` and `{"a.b": 1}` have the severity `none`, which
  `diffing.py:25` explains as "no differences", and of two values of one output
  with one name only the later is compared.
* Ghost settings: the limits of the two times are tested as `x < lo or x > hi`, which
  `nan` passes, so `ARCTIS_GHOST_HOOK_TIMEOUT=nan` is loaded although the error of
  these tests says "must be between". That pydantic's `ge` and `le` let `nan` in as
  these comparisons do is an assumption about the library.
* Access: an administrator without the reviewer scope is refused 403, so the 400
  of `resolve_reviewer_id_for_query` cannot be reached. A list of blank scopes
  gives none. A bound reviewer stored with blanks equals no query.
* Orchestrator: a plugin whose subtasks are empty ends in success without work;
  subtasks raise `AttributeError`; the hash check does not cover new files nor
  the time between check and opening; a failed single-file run keeps no audit. Rule groups are
  merged first and deep merge is not associative. `load_snippets` ignores
  `max_lines_per_file`. A patch of a file that cannot be parsed is lost, while
  `apply_patch` reports success.

## 6. Proofs

Each `*_proofs` module extends the module it is about. The constants are
arbitrary but for the module's named assumptions (`RequestsAssumption`,
`LimitsAssumption`, `PipelinesAssumption`, `OpsAssumption`, `ClientAssumption`,
`ReviewsAssumption`, `CoreTasksAssumption`, `SettingsAssumption`,
`AuditTrailAssumption`), which TLC
evaluates in every run of that module.

| Theorem | Statement | In |
| --- | --- | --- |
| `TypeCorrect` | `Spec => []TypeOK` | `RunAdmission_proofs` |
| `CommitsAreAtomic` | `Spec => []CommitIsAtomic` | |
| `RepliesCommitted` | `Spec => []RepliesNameCommittedRuns` | |
| `YoungestRow` | `Spec => []StoredRowIsYoungest` | |
| `NeverReexecuted` | `Spec => StoredPostNeverReexecuted` | |
| `RateBounded` | `Spec => []RateOvershootBounded` | |
| `RunBudgetBounded` | `Spec => []RunBudgetOvershootBounded` | |
| `SpendBounded` | `Spec => []SpendOvershootBounded` | |
| `ImplementsLedger` | `Spec => KeepsLedger` | |
| `EngineKeepsPromise` | `Spec => KeepsPromise` | `EngineRun_proofs` |
| `DryRunsTouchNothing` | `Spec => DryRunTouchesNothing` | |
| `SoundSnapshots` | `Spec => []SnapshotsAreSound` | |
| `ConsistentEngine` | `Spec => []EngineIsConsistent` | |
| `VersionsStand` | `Spec => VersionsAreImmutable` | `WorkflowVersions_proofs` |
| `TablesStayConsistent` | `Spec => []TablesAreConsistent` | |
| `NobodyWaitsInACircle` | `Spec => []NoCircle`, a conjunct of `NobodyIsStuck` | |
| `WholeDecisions` | `Spec => DecisionsAreWhole` | `Reviews_proofs` |
| `ConsistentQueue` | `Spec => []QueueIsConsistent` | |
| `SuccessStays` | `Spec => []SuccessIsRemembered` | `GhostClient_proofs` |
| `ConsistentInvocations` | `Spec => []InvocationsAreConsistent` | |
| `AcceptedCode` | `Spec => []OnlyAcceptedCodeIsWritten` | `CoreTasks_proofs` |
| `TrueOutcomes` | `Spec => []RunsAndFilesAgree` | |
| `LawfulChanges` | `Spec => ChangesAreLawful` | `Settings_proofs` |
| `ConsistentSettings` | `Spec => []SettingsAreConsistent` | |
| `AccountedRows` | `Spec => []RowsAreAccountedFor` | `AuditTrail_proofs` |
| `ExactPages` | `Spec => []PagesAreExact` | |
| `CompiledPipelines` | `DrawsFrom("pipeline", Inputs) => []CompiledPipelinesAreSound` | `EngineRun_proofs`, about `Compiler` |
| `CompiledPipelinesRunWhole` | `Spec => []RunsEveryStepOf(ast, p)`: a completed run of a checked pipeline has executed each step once, unless a step chose its successor or the model timed out | `EngineRun_proofs` |
| `ForeignListingsAreRefused` | `DrawsFrom("listing", Inputs) => []ListingsStayWithTheKey` | `Reviews_proofs`, about `Access` |
| `SanitizingIsSound` | `DrawsFrom("sanitizing", Inputs) => []SanitizingHolds` | `AuditTrail_proofs`, about `Sanitizer` |
| `SanitizedTextsAreRedacted` | `RedactionIsReported(length, hits, policy)`: what `run_sanitizer_pipeline` returns is a redaction of what was detected, and the metadata of the text counts the labels | |
| `ZeroRiskIsStrict` | `IsZeroRisk(ZeroRisk(version), version)` | |
| `ListsOnlyTighten` | `OnlyTightens(keys, policy, step, more)` | |
| `ContextAndPatchesAreSound` | `DrawsFrom("answer", Inputs) => []ContextAndPatchHold` | `AuditTrail_proofs`, about `ContextAndPatch` |
| `FiguresAreRight` | `DrawsFrom(kind, Inputs) => []FiguresHold`, for each of the four kinds of samples | `AuditTrail_proofs`, about `Figures` |

*Admission.* `CommitIsAtomic` is inductive with the type invariant once it says
at which stages a run may be visible. `RepliesNameCommittedRuns` needs that a
handler which is about to store has committed, and that a stored row belongs to
the slot it is stored in. `StoredRowIsYoungest` is not inductive: between the
DELETE and the INSERT of a handler its stamp may be older than the row that
another handler stores meanwhile, and what saves it is that the INSERT succeeds
only if the row is still the one deleted. The invariant adds that a pending
handler's stamp is not in the future and not older than the row it has seen, and
that a purged or replaced row was expired or no younger. The rate and run budget
bounds strengthen "events in the window" by the handlers past the check: each of
those occupies a worker, so at most `Workers - 1` others may be past it when one
more is let through, and a handler that commits moves from one set to the other.
Tokens and costs are sums over the requests of a day. A sum is a recursion over a
set; the proof gives its solution explicitly - the number of units, one for each
token of each request (`Units`) - and shows that there is no other because a least
set on which two solutions differ would be empty (`TotalCountsUnits`; the strict
subsets of a finite set are well-founded). Sums of unions and parts are then
cardinalities. The bound counts what the day has and what the runs under way may
still add; costs are checked at the front and charged at the end, hence one run
more than for tokens (`TokenLoadBounded`, `CostLoadBounded`).
The refinement is step by step: `Commit` is `Execute`, every answer is `Succeed`,
`Refuse` or `Fail` by its status, anything else stutters.

*Engine.* The promise of a finished run speaks of its whole walk, so the
invariant `Walked` says of every unfinished one: the executed steps are those of
the trace, each once and each after one that leads to it (`TraceIsCausal`); what
is queued was led to (`QueueIsLedTo`); what was led to is executed or queued
(`NothingIsForgotten`); a time-out is the last step (`TimeoutIsLast`); the
applied effects are the effect steps of the trace in their order
(`EffectsAreListed`). When the queue is empty these are the conjuncts of `Legal`.
`ApplyEffect` is `Apply`, `Finish` is `Publish`, everything else stutters.
Snapshot ids are made of the number of snapshots, so that they stay unique needs
`IdsAreCounted`: no stored id is ahead of that number unless a foreign row has it;
and that a replay puts back what its id finds already needs `RowsAreKnown`: a row is
foreign or holds the result of a completed run under that run's id. `Consistent`
adds that the saga list of a walk is the saga steps of its trace in their order
(`SagasAreListed`), so the compensation that walks it from the end mirrors the
trace, and that errors, results and the run counter agree.

*Versions.* Names of committed and of uncommitted rows are all different
(`NamesAreUnique`): an INSERT waits for the key of another session's uncommitted
row, so no commit can bring a name in twice.
The consistency of the tables needs `TablesInv`. A history is one chain with one
current row because of three facts no single step shows: numbers have no gap, so
if the number after the row a session read is free, that row is still the last
(`ReadIsLast`); what a session read is still in the history but for its flag
(`StillThere`); and while a session holds an uncommitted row nobody else holds one
of that workflow (`OneWriter`), so the row still fits when it commits (`Fits`).
The reads by "newest" and "highest" find a row because the tables always have one
(`VersionTable`); saying so in the invariant avoids an induction over finite sets.
Sessions lock in no common order - a hardening inserts a version name before it
updates the rows of its workflow, an upgrade needs no name - and yet there is no
circle: whoever holds rows of a workflow has only its commit before it
(`LocksAreOrdered`), so everybody who waits for rows waits for a session that waits
for nobody, and whoever waits for a key waits for one that waits for rows at most
(`OrderedLocksHaveNoCircle`; `KeysAreHeldLate` says when a name is held).

*Reviews.* `Locked`: a request that is at work has loaded a row that is still
there, and between flush and commit it is the only one for its task
(`OneHolder`). Hence only commits write rows, and one whose row is as it was
loaded writes every column of the decision, whichever columns the UPDATE names.
What the queue shows needs `Decidedly`: what a request has loaded is an earlier
state of the row (`CopiesAreOlder`: a decided row is never open again, a breach is
never unmarked, the deadline stays), so a column that an UPDATE does not name is
one that another committed decision has written (`RowsAreSigned`), and mixtures of
decisions still fit (`Fitting`). The loads of the reviewers add up because every
decided row has one of them (`TotalCountsTheOwned`, again the one solution of a
recursion). `Walking`: what a client was shown does not come after its anchor, and
what is still owed to it was shown or does; that a page is in order, whole and
without repetition is a fact about ranks in a finite total order (`InOrderIsExact`).

*Settings.* `Lawful`: a session at work has loaded a row that is still in its
table and in the scope it was in, or inserts one that is not there; its siblings
are rows of the same scope (`HoldsModel`, `HoldsPolicy`); and of any two sessions
at work on one table and scope the overlap is noted (`RacesAreNoted`). A row that
another session has changed under it is therefore one of a noted overlap, and
otherwise the loaded row is the stored one. `LawfulSettings` adds what the sessions
and runs have read: two active models of one scope are those of a noted overlap,
and what a run holds comes from the policies committed since its first read
(`ComesFrom`): the pipeline's values from the first of these states, the tenant's
values from an i-th, the recorded version from a j-th with i <= j. That sequence is
only ever appended to, so what came from it still does (`HistoryGrows`); rows are
never deleted, so a version is recorded where there was content (`PoliciesStay`).

*Ghost client.* `Remembered`: each state file and `.part` file holds a run id or
is open, emptied and unwritten, in some invocation (`ReadableOrEmptied`); who
renames has filled or shares with one who emptied; who prints without `--force`
has a state file (`Stands`). No step removes a state file. `Exact` adds what a
printed id means: an inode belongs to the body its creator was asked to execute, so
do the names under which it is found, the run id in it and those who have it open
(`OfOneBody`); the server has made no run for a request it has not answered
(`Holds`), so a repeated post makes no second one; and whoever moved a state file
into its place has closed it before (`MovedBySomebody`), hence an emptied one was
opened by another.

*Audit trail.* A row may be lost long after its write was acknowledged - when text
is appended to a line that somebody else has left unended - and may be written
once more by every attempt, so neither bound is inductive. `Served` counts ahead:
`Passed` says which rows the current attempt has brought to a kind of sink,
`Chances` how often an attempt has had the chance to write a row, and no sink has
more copies than that; a row that was brought and is in no line, or is half
written in a line that has been spoilt, is in `Lost`, and every intrusion adds at most two rows, the
one that was torn and the one that was put after it (`AppendLoses`). Lines that
are ended never change (`GrowingKeepsRows`), so copies never go away. For readers,
`ReaderFits` says where a page stands: what was shown is behind the cursor, and
what is owed was shown or is ahead of it. Appended lines and committed rows leave
that alone (`ReaderRests`), also a row that is committed late with an early time,
which the reader is not owed. A detail has kept just the shown rows that bear the
id of its run (`BearsId`), which those of the run itself do; a page takes the first ones of the rest in a total
order (`PageGoesOn`, `Answers`), and the next cursor separates them from the rest
also at the end of a file (`CursorIsNext`).

*Orchestrator.* `Accepted`: whoever is about to write holds code its validators
let pass under rules it keeps until the end, so does every text already written,
also where two writers have mixed a file (`AcceptedIsHeld`, `AcceptedIsWritten`,
`TargetsExist`). `Agreed` says for every stage what the run holds, what its folder
holds and whether it has opened its file (`Tells`); follows the base from the
reading over the check of the hash to the opening (`KnowsItsBase`: equal to the
file or raced); and knows that a file which is open for writing is still empty or
somebody else has written to it, so only such a file becomes two texts.

*Stateless modules.* Their functions keep nothing between two calls, so the theorem
is about every set of samples: `DrawsFrom(kind, Inputs) => []Property`, where
`Inputs` is any set of inputs the code can be given. `Definitions` checks the same
property on a finite set of them. Loops and recursions are functions of a number of
rounds; that such a function has a solution and what it holds after n rounds is shown
by induction, as a statement about a set of numbers (`Induction`, from the
well-foundedness of the numbers).

*Compiler.* `LoopRuns` says that a loop whose rounds stay in a set of states runs as
often as asked. The breadth-first search holds only what its start leads to and ends
with an empty queue, so what it has seen is the least closed set. For the depth-first
search (`SearchPre`, `SearchPost`) the black names are done with - none leads to
another name, and no cycle is among them (`IsDone`) - and a gray name leads to a gray
one or to the one at hand, so a cycle is found exactly when a name leads back to a gray
one; the depth of the recursion is enough since every level has a white name less.
Kahn's order (`OrderInv`): what is ready is what waits for nobody, and degrees count
whom a node waits for. When nothing is ready and nodes are left, each of these is led
to by another, and as there are as many edges as nodes, each leads to another as well
(`ReachedFromWithin`): a cycle. The same argument shows that the steps the entry points
do not reach would be a cycle, so a checked pipeline is lowered whole.
`CompiledPipelinesRunWhole` composes this with the promise of the engine: a legal walk
of a graph forgets nothing that was led to. Hypotheses: the texts of a pipeline are
words (`RawPipelines`); nothing is assumed of its graph, and parsing, checks and entry
points are conditions in the property itself.

*Sanitizer and access.* `Partly` says which detections were replaced after n of them:
their intervals follow each other, every other one begins inside one of these, and
what is in clear is the rest of the text before the cursor. Detections that begin at
the same place or overlap are thus covered by the theorem; what is not promised is
the tail of one that begins inside an earlier one (section 5). That detections are in
order is `InOrderIsExact` again. The labels put in are counted as they are
(`Counted`), so the metadata agrees with the text in all and for each type. That
zero-risk mode changes nothing the second time holds because what it writes needs no
adapter and names every mode its preset would add (`Written`). Hypotheses: hits lie in
the text, are not empty and finitely many; a version's policy is one the API accepts
(`RawPolicies`); a row of keys has at most one list of scopes.

*Context and patches.* The key of a file ends in its path, so files with different
paths are in a strict total order (`KeysAreOrdered`); a stable sort lists them in it
(`StableSortLists`), such a list is the only one (`ListsAreUnique`), and so the choice
does not depend on the order in which the files were found. `SnippetsFit` follows the
loop over the chosen files: what was shown is the sum of what was wanted, or the budget
(`ShowingGoesOn`). A patch is looked at place by place (`DefIsReplaced`,
`MethodsAreReplaced`, `PatchesStay`), and a source that cannot be parsed is its own
patch. Hypotheses: different paths, limits and sizes that are natural
numbers, and an answer that is a function definition.

*Figures.* A total is the last value of the one recursive function of `Sums`, so what
is known of it is shown by induction over the places of the list: totals add up
(`TotalsAdd`), are zero only if every number is (`TotalOfZeros`), and the sums over
parts that do not overlap add up to the sum over all of them (`PartsAddUp`). Counting
is summing ones (`OnesCount`), so that windows, pipelines, classes and bins are all
the same argument. Drift reads the rows only through `ByTime`, and the list of
decisions at different times in their order is unique (`ListsAreUnique`). A score is a
weighted sum of clamped parts (`Weighs`); a further failure leaves the policies' parts
and the stability alone and can only make the share of successes smaller
(`SharesGrow`). Hypotheses (`FigureSample`): costs are not negative; times, windows'
ends, thresholds and given prices are whole numbers or absent; confidences of runs,
hits and tokens are natural numbers; nothing is assumed of routes, statuses, models
and types of steps.

Only model-checked:

* liveness under fairness, and ENABLED, the second half of `NobodyIsStuck`, which the
  prover does not support;
* `BoundariesHold`, `MatrixHolds`, `LayersKeepTheirOrder`: what `Trees`, `Inputs`,
  `Matrix`, `GhostConfig`, `Rules` and `CustomerOutput` compute is a recursion over
  trees (RECURSIVE operators, which the prover cannot reason about).

## 7. Not modelled

* Skills (`api/skills`): hooks that read and write JSON reports in order;
  `RunAdmission` models that a hook may raise.
* Compliance, residency: stateless checks whose outcome `EngineRun` models (a
  blocked or raising step). Metrics, monitoring, explainability, hashing: reports
  without influence on control.
* LLM clients and keys: I/O with providers; `EngineRun` and `CoreTasks` model the
  answer, the failure and the time-out. Key rows are written by one statement.
* The database schema is declarative; its unique keys are guards of the models.
  Posts that create pipelines and versions also store responses under keys; keys
  are assumed not to be shared between them and the run routes.
* What the matrix runs decide inside `auto_optimize_*`: a variant is chosen
  nondeterministically. Detectors of the sanitizer are an arbitrary set of
  detections. Prompts and task decomposition of the orchestrator are left out.
* The ClickHouse and in-memory audit sinks; the content of audit rows.
* Reports and artifacts of the ghost client; reading of recipe files.
* `brain`, `sandbox_v3`, `src/main.py`, scripts, tools, SDKs: experiments, a demo
  server and generated or one-shot code outside the API and the engine.

In `CoreTasks` the editor changes files but does not delete or rename them, and
a write of a text is one step after the truncation; in `AuditTrail` a row is
written in at most two pieces, and a fan-out has at least one sink and no two of a
kind (one directory, one bucket, one endpoint).

## 8. Plan

Done in this order: admission and its ledger; the engine and its promise;
versions; the ghost client; reviews, settings and the audit trail; the earlier
orchestrator; the stateless functions; a proof for each of the stateful modules.
What would come next:

1. A composition of `Settings` with `RunAdmission`: the policy of a run against
   the budget it is admitted under.
2. The recursions of `Trees` as recursive functions of a depth, and what they compute
   for every tree by the induction that the proofs about `Compiler` use.
3. An abstract audit log (a bag of acknowledged rows) that `AuditTrail` implements
   where no torn line is continued.
