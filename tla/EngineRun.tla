------------------------------ MODULE EngineRun ------------------------------
(***************************************************************************)
(* Engine.run and Engine.replay: one engine executes pipelines one after   *)
(* another, step by step.  Between two steps a module, the model or the    *)
(* database may raise; what the steps before it did stays done.  The state *)
(* that outlives a run is the effect store, the snapshot store, the run    *)
(* counter and the failures a test harness has armed.                      *)
(***************************************************************************)
EXTENDS Naturals, Sequences, FiniteSets

CONSTANTS
    Names,          \* step names
    Pipelines,      \* the pipeline graphs, see PipelineType
    Keys, Values,   \* effect keys; canonical JSON texts of payloads and effect values
    Tenants,
    Strict,         \* tenants that live outside the AI region of an engine with strict_residency
    ForeignBlobs,   \* snapshot rows written by other engines
    MaxRuns,        \* bound: runs and replays of the engine
    None

Routes == {"approve", "reject", "manual_review"}
Kinds == {"module", "routing", "effect", "saga", "ai"}
EffectTypes == {"write", "delete", "upsert"}
Effects == [type : EffectTypes, value : Values]

\* A pipeline graph: successors are sorted sequences of names that may dangle.
PipelineType ==
    [name : STRING, nodes : SUBSET Names, entry : Seq(Names),
     kind : [Names -> Kinds], next : [Names -> Seq(Names)],
     routing : [Names -> UNION {[R -> Names] : R \in SUBSET Routes}],
     effect : [Names -> [key : Keys, type : EffectTypes, value : Values]]]

\* The test hooks: the saga step and the compensation that are to fail.
Failures == [saga : Names \cup {None}, compensation : Names \cup {None}]

\* What a run is asked to do.
Jobs == [pipe : Pipelines, tenant : Tenants, dry : BOOLEAN, bound : BOOLEAN, review : BOOLEAN, fail : Failures]

\* What control depends on in a step's output.
Outputs == {"done", "mock", "blocked", "timeout"} \cup Routes

\* What a snapshot says of the execution it was taken of.
ExecutionFields == {"pipe", "tenant", "dry", "trace", "out", "effects", "timeout"}

ASSUME PipelinesAssumption ==
    /\ \A p \in Pipelines : p \in PipelineType
    /\ IsFiniteSet(Names) /\ None \notin Names \cup Effects /\ None \notin Jobs
    /\ \A blob \in ForeignBlobs : ExecutionFields \cup {"kind"} \subseteq DOMAIN blob.of /\ blob.id[2] \in Nat
    /\ Strict \subseteq Tenants /\ MaxRuns \in Nat

VARIABLES
    phase,          \* "idle", "running", "finishing"
    job,            \* what the current run was asked to do
    queue,          \* steps to visit
    visited,
    trace,          \* executed steps
    out,            \* what each step's output says, as far as control depends on it
    payload,        \* workflow payload, changed by modules
    sagas,          \* executed saga steps, for compensation
    applied,        \* effects_list
    errors,         \* error_count
    effects,        \* effect store of the engine
    snapshots,      \* snapshot store: [id -> execution]
    armed,          \* injected failures waiting for the next run
    reviews,        \* runs with a review task
    seq,            \* run counter
    results,        \* what each run returned, in order
    blobs           \* snapshot rows in the database: [id, of]

vars == <<phase, job, queue, visited, trace, out, payload, sagas, applied, errors,
          effects, snapshots, armed, reviews, seq, results, blobs>>
progress == <<queue, visited, trace, out, payload, sagas, applied, errors>>
stores == <<effects, snapshots, armed, reviews, seq, results, blobs>>

NoFailure == [saga |-> None, compensation |-> None]
Succ(n) == job.pipe.next[n]

Init ==
    /\ phase = "idle" /\ job = None
    /\ queue = <<>> /\ visited = {} /\ trace = <<>>
    /\ out = [n \in Names |-> None] /\ payload = None
    /\ sagas = <<>> /\ applied = <<>> /\ errors = 0
    /\ effects = [k \in Keys |-> None]
    /\ snapshots = << >>
    /\ armed = NoFailure /\ reviews = {}
    /\ seq = 0 /\ results = <<>>
    /\ blobs = ForeignBlobs

----------------------------------------------------------------------------
(* Test hooks and the start of a run *)

\* inject_failure, inject_compensation_failure
Arm ==
    /\ phase = "idle"
    /\ \E n \in Names, which \in {"saga", "compensation"} : armed' = [armed EXCEPT ![which] = n]
    /\ UNCHANGED <<phase, job, progress, effects, snapshots, reviews, seq, results, blobs>>

\* The compliance checks passed; armed failures are taken over by this run.
Begin ==
    /\ phase = "idle" /\ seq < MaxRuns
    /\ \E p \in Pipelines, t \in Tenants, dry, bound, review \in BOOLEAN, v \in Values :
        /\ job' = [pipe |-> p, tenant |-> t, dry |-> dry, bound |-> bound, review |-> review, fail |-> armed]
        /\ payload' = v
        /\ queue' = p.entry
    /\ phase' = "running"
    /\ armed' = NoFailure
    /\ seq' = seq + 1
    /\ visited' = {} /\ trace' = <<>> /\ out' = [n \in Names |-> None]
    /\ sagas' = <<>> /\ applied' = <<>> /\ errors' = 0
    /\ UNCHANGED <<effects, snapshots, reviews, results, blobs>>

----------------------------------------------------------------------------
(* The breadth-first walk *)

\* A name that was visited before or is no step of the pipeline is dropped.
Dropped(n) == n \in visited \/ n \notin job.pipe.nodes

\* Mutant: the name is looked at but left in the queue.
DropWithoutPop ==
    /\ phase = "running" /\ queue # <<>>
    /\ Dropped(Head(queue))
    /\ UNCHANGED vars

Drop ==
    /\ phase = "running" /\ queue # <<>>
    /\ Dropped(Head(queue))
    /\ queue' = Tail(queue)
    /\ UNCHANGED <<phase, job, visited, trace, out, payload, sagas, applied, errors, stores>>

\* n is the step to execute now.
Visits(n) ==
    /\ phase = "running" /\ queue # <<>>
    /\ n = Head(queue) /\ ~Dropped(n)

\* n is done with output o, and the steps s are queued.
Done(n, o, s) ==
    /\ visited' = visited \cup {n}
    /\ trace' = Append(trace, n)
    /\ out' = [out EXCEPT ![n] = o]
    /\ queue' = Tail(queue) \o s
    /\ UNCHANGED <<phase, job>>

\* A module may replace the payload.
RunModule(n) ==
    /\ Visits(n) /\ job.pipe.kind[n] = "module"
    /\ payload' \in Values
    /\ Done(n, "done", Succ(n))
    /\ UNCHANGED <<sagas, applied, errors, stores>>

\* The routing module has no confident answer before the model has spoken; the
\* dry-run answer of the model is a confident approval.
PossibleRoutes ==
    LET Answered == {n \in visited : job.pipe.kind[n] = "ai" /\ out[n] # None}
    IN IF \A n \in Answered : out[n] = "blocked" THEN {"manual_review"}
       ELSE IF job.dry THEN {"approve"} ELSE Routes

\* Mutant: static successors are queued next to the routed one.
QueueBoth(n, route) ==
    LET map == job.pipe.routing[n]
    IN IF route \in DOMAIN map THEN <<map[route]>> \o Succ(n) ELSE Succ(n)

\* dynamic_next: the routed step replaces the static successors.
AfterRouting(n, route) ==
    LET map == job.pipe.routing[n]
    IN IF route \in DOMAIN map /\ map[route] \in job.pipe.nodes THEN <<map[route]>> ELSE Succ(n)

\* routing_decision: a manual review opens one task for the run.
Route(n) ==
    /\ Visits(n) /\ job.pipe.kind[n] = "routing"
    /\ \E route \in PossibleRoutes :
        /\ Done(n, route, AfterRouting(n, route))
        /\ reviews' = IF route = "manual_review" /\ job.review THEN reviews \cup {seq} ELSE reviews
    /\ UNCHANGED <<payload, sagas, applied, errors, effects, snapshots, armed, seq, results, blobs>>

\* The effect of step n: a run with a payload stores the payload.
EffectOf(n) ==
    [type |-> job.pipe.effect[n].type,
     value |-> IF job.bound THEN payload ELSE job.pipe.effect[n].value]

\* is_idempotent: the key is new, or holds this very effect.
Idempotent(n) ==
    LET held == effects[job.pipe.effect[n].key] IN held = None \/ held = EffectOf(n)

\* Mutant: dry runs store as well.
ApplyAlways(n) ==
    /\ Visits(n) /\ job.pipe.kind[n] = "effect"
    /\ Idempotent(n)
    /\ effects' = [effects EXCEPT ![job.pipe.effect[n].key] = EffectOf(n)]
    /\ applied' = Append(applied, n)
    /\ Done(n, "done", Succ(n))
    /\ UNCHANGED <<payload, sagas, errors, snapshots, armed, reviews, seq, results, blobs>>

\* _execute_effect_step
ApplyEffect(n) ==
    /\ Visits(n) /\ job.pipe.kind[n] = "effect"
    /\ ~job.dry => Idempotent(n)
    /\ effects' = IF job.dry THEN effects
                  ELSE [effects EXCEPT ![job.pipe.effect[n].key] = EffectOf(n)]
    /\ applied' = Append(applied, n)
    /\ Done(n, IF job.dry THEN "mock" ELSE "done", Succ(n))
    /\ UNCHANGED <<payload, sagas, errors, snapshots, armed, reviews, seq, results, blobs>>

\* A saga step that works is remembered for compensation.
RunSaga(n) ==
    /\ Visits(n) /\ job.pipe.kind[n] = "saga"
    /\ job.fail.saga # n
    /\ sagas' = Append(sagas, n)
    /\ Done(n, "done", Succ(n))
    /\ UNCHANGED <<payload, applied, errors, stores>>

\* The model may not see the payload of this run.
Blocked == job.tenant \in Strict

\* The AI step: blocked by strict residency, mocked in a dry run, or answered.
RunAI(n) ==
    /\ Visits(n) /\ job.pipe.kind[n] = "ai"
    /\ LET o == IF Blocked THEN "blocked" ELSE IF job.dry THEN "mock" ELSE "done"
       IN Done(n, o, Succ(n))
    /\ errors' = errors + (IF Blocked THEN 1 ELSE 0)
    /\ UNCHANGED <<payload, sagas, applied, stores>>

\* The model does not answer in time: the loop is left, the queue abandoned.
Timeout(n) ==
    /\ Visits(n) /\ job.pipe.kind[n] = "ai" /\ ~Blocked /\ ~job.dry
    /\ visited' = visited \cup {n}
    /\ trace' = Append(trace, n)
    /\ out' = [out EXCEPT ![n] = "timeout"]
    /\ errors' = errors + 1
    /\ phase' = "finishing"
    /\ UNCHANGED <<job, queue, payload, sagas, applied, stores>>

----------------------------------------------------------------------------
(* The three ends of a run *)

Result(kind) ==
    [kind |-> kind, pipe |-> job.pipe, tenant |-> job.tenant, dry |-> job.dry, id |-> None,
     trace |-> trace, rollback |-> <<>>, out |-> out, effects |-> applied,
     timeout |-> phase = "finishing"]

Ends(result) ==
    /\ results' = Append(results, result)
    /\ phase' = "idle" /\ job' = None

Reversed(s) == [i \in 1 .. Len(s) |-> s[Len(s) + 1 - i]]

\* Mutant: compensation runs in execution order.
InOrder(s) == s

\* SagaEngine.rollback
RollbackOrder(s) == Reversed(s)

\* A saga step fails and the executed ones are compensated: an empty result,
\* no snapshot; the effect store keeps what was applied.
AbortSaga(n) ==
    /\ Visits(n) /\ job.pipe.kind[n] = "saga"
    /\ job.fail.saga = n
    /\ \A i \in DOMAIN sagas : sagas[i] # job.fail.compensation
    /\ Ends([Result("aborted") EXCEPT !.rollback = RollbackOrder(sagas), !.effects = <<>>])
    /\ UNCHANGED <<progress, effects, snapshots, armed, reviews, seq, blobs>>

\* A module, the model, an effect that is not idempotent or a compensation
\* raises, or the residency or policy check before the step.
Raise(n) ==
    /\ Visits(n)
    /\ CASE job.pipe.kind[n] = "effect" -> ~job.dry /\ ~Idempotent(n)
         [] job.pipe.kind[n] = "saga" ->
                job.fail.saga = n /\ \E i \in DOMAIN sagas : sagas[i] = job.fail.compensation
         [] OTHER -> TRUE
    /\ Ends(Result("raised"))
    /\ UNCHANGED <<progress, effects, snapshots, armed, reviews, seq, blobs>>

\* Mutant: one id per pipeline.
IdOfPipeline(pipe) == <<pipe.name, 1>>

\* The next snapshot id of the store.
NextId(pipe) == <<pipe.name, Cardinality(DOMAIN snapshots) + 1>>

\* The snapshot store with x under the id, in place of what it had there.
Stored(id, x) == [i \in DOMAIN snapshots \cup {id} |-> IF i = id THEN x ELSE snapshots[i]]

\* The walk is over: the snapshot is stored, and the caller writes it to the
\* database.  The audit sink is called last; if it raises the caller gets no
\* result, and the snapshot stays in the store alone.
Finish ==
    /\ phase = "finishing" \/ (phase = "running" /\ queue = <<>>)
    /\ LET id == NextId(job.pipe)
           done == [Result("done") EXCEPT !.id = id]
       IN /\ snapshots' = Stored(id, done)
          /\ \/ Ends(done) /\ blobs' = blobs \cup {[id |-> id, of |-> done]}
             \/ Ends([done EXCEPT !.kind = "sink_failed"]) /\ UNCHANGED blobs
    /\ UNCHANGED <<progress, effects, armed, reviews, seq>>

\* Engine.replay: the row is put back under its id before anything is checked.
\* Then the tenant is compared and the modules are verified.
Replay ==
    /\ phase = "idle" /\ seq < MaxRuns
    /\ \E blob \in blobs, t \in Tenants :
        /\ snapshots' = Stored(blob.id, blob.of)
        /\ armed' = NoFailure
        /\ \/ /\ UNCHANGED <<seq, results>>
           \/ /\ blob.of.tenant = t
              /\ seq' = seq + 1
              /\ results' = Append(results, [snapshots'[blob.id] EXCEPT !.kind = "replayed"])
    /\ UNCHANGED <<phase, job, progress, effects, reviews, blobs>>

Walk ==
    \/ Drop
    \/ \E n \in Names :
        \/ RunModule(n) \/ Route(n) \/ ApplyEffect(n) \/ RunSaga(n) \/ RunAI(n) \/ Timeout(n)
        \/ AbortSaga(n) \/ Raise(n)
    \/ Finish

Next == Arm \/ Begin \/ Replay \/ Walk

Spec == Init /\ [][Next]_vars

\* Modules and the model return or raise (the client has a timeout); nobody is
\* obliged to start another run.
FairSpec == Spec /\ WF_vars(Walk)

----------------------------------------------------------------------------
(* Properties *)

Execution(r) == [f \in ExecutionFields |-> r[f]]
Completed == {i \in DOMAIN results : results[i].kind = "done"}

\* Type invariant.
TypeOK ==
    /\ phase \in {"idle", "running", "finishing"}
    /\ job \in IF phase = "idle" THEN {None} ELSE Jobs
    /\ queue \in Seq(Names) /\ visited \subseteq Names /\ trace \in Seq(Names)
    /\ out \in [Names -> Outputs \cup {None}] /\ payload \in Values \cup {None}
    /\ sagas \in Seq(Names) /\ applied \in Seq(Names)
    /\ errors \in 0 .. Cardinality(Names)
    /\ effects \in [Keys -> Effects \cup {None}]
    /\ \A id \in DOMAIN snapshots : id[2] \in Nat
    /\ armed \in Failures
    /\ reviews \subseteq 1 .. seq
    /\ seq = Len(results) + (IF phase = "idle" THEN 0 ELSE 1)

\* The promise of EnginePromise, see there: write-once effects, and snapshots
\* of legal executions only, whatever the graph looks like (cycles, joins,
\* dangling successors, routed and static edges) and wherever a run ends.
Promise ==
    INSTANCE EnginePromise WITH
        store <- effects,
        published <- {Execution(results[i]) : i \in Completed}
KeepsPromise == Promise!Spec

\* "no LLM calls and no effect engine mutations" in a dry run, failed and
\* aborted dry runs included.
DryRunTouchesNothing ==
    [][job # None /\ job.dry => /\ UNCHANGED effects
                                /\ \A n \in Names : out'[n] # out[n] => out'[n] # "done" \/ job.pipe.kind[n] # "ai"]_vars

\* Compensation undoes exactly the saga steps the trace says were executed,
\* the last one first, and the failed step is not among them.
RollbackMirrorsTrace ==
    \A r \in {results[i] : i \in DOMAIN results} :
        r.kind = "aborted" =>
            /\ {r.rollback[i] : i \in DOMAIN r.rollback}
                    = {n \in {r.trace[k] : k \in DOMAIN r.trace} : r.pipe.kind[n] = "saga"}
            /\ \A i, j \in DOMAIN r.rollback, k, l \in DOMAIN r.trace :
                i < j /\ r.rollback[i] = r.trace[k] /\ r.rollback[j] = r.trace[l] => l < k

\* "one persisted snapshot per successful run": the id a run returns finds the
\* execution of that run for ever after, replays in between included, unless a
\* row of another engine that carries the same id was replayed here.
\* [SnapshotStore.save_snapshot, restore_snapshot]
OneSnapshotPerRun ==
    \A i \in Completed :
        \/ \E blob \in ForeignBlobs : blob.id = results[i].id
        \/ /\ results[i].id \in DOMAIN snapshots
           /\ Execution(snapshots[results[i].id]) = Execution(results[i])
           /\ \A j \in Completed : results[i].id = results[j].id => i = j

\* A run that was aborted or raised leaves no snapshot to replay.
OnlyCompletedRunsAreReplayed ==
    \A i \in DOMAIN results :
        results[i].kind = "replayed" =>
            \/ \E j \in Completed : j < i /\ Execution(results[j]) = Execution(results[i])
            \/ \E blob \in ForeignBlobs : Execution(blob.of) = Execution(results[i])

\* What is replayed, and what is found under a run's id later, is what the
\* engine has executed.  [Engine.replay, SnapshotStore]
SnapshotsAreSound == OneSnapshotPerRun /\ OnlyCompletedRunsAreReplayed

\* The state of an engine between any two steps: of its types, with every
\* compensation in the order the trace demands.
EngineIsConsistent == TypeOK /\ RollbackMirrorsTrace

\* Every run ends, cyclic graphs included.
EveryRunEnds == (phase # "idle") ~> (phase = "idle")
=============================================================================
