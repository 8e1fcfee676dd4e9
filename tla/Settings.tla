------------------------------ MODULE Settings ------------------------------
(***************************************************************************)
(* The settings a run is governed by: routing models, policies and feature *)
(* flags.  Administrators change them through the API while runs resolve   *)
(* their effective policy.  A request is one database session: it reads    *)
(* rows one statement after another, each statement sees what is committed *)
(* by then, an object it still refers to is not read again, and the        *)
(* UPDATEs name only the columns that differ from what was loaded.         *)
(***************************************************************************)
EXTENDS Naturals, Sequences, FiniteSets, FiniteSetsExt

CONSTANTS
    Sessions,
    Tenants,
    Global,     \* the scope of no tenant: global models, the pipeline policy
    Names,      \* names of routing models
    Given,      \* ids of the routing models that exist at first, in the order of their keys
    Scenarios,  \* what exists at first and who asks for what: [models, asks, owners]
    None

Scopes == Tenants \cup {Global}
AllKinds == {"activate", "upsert", "put", "patch", "flags", "resolve"}

\* routing_models; tenant_policies and pipeline_policies, by two of their columns:
\* a threshold that may be unset, and one that may not.
ModelRow == [scope : Scopes, name : Names, config : Sessions \cup {None}, active : BOOLEAN]
PolicyRow == [version : Nat, a : Sessions \cup {None}, b : Sessions \cup {None}, frozen : BOOLEAN]
FlagsRow == [{"a", "b"} -> Sessions \cup {None}]

ASSUME SettingsAssumption ==
    /\ Scenarios \subseteq [models : [Given -> ModelRow],
                            asks : [Sessions -> AllKinds], owners : [Sessions -> Tenants]]
    /\ \A c \in Scenarios : \A i, j \in Given :     \* one active model of a scope at most
            c.models[i].active /\ c.models[j].active /\ c.models[i].scope = c.models[j].scope => i = j
    /\ IsFiniteSet(Sessions) /\ IsFiniteSet(Tenants) /\ IsFiniteSet(Given)
    /\ Global \notin Tenants /\ None \notin Sessions \cup Scopes \cup Given
    /\ None \notin ModelRow /\ None \notin PolicyRow
    /\ Given \subseteq Nat /\ Given \cap Sessions = {}

VARIABLES
    model,      \* committed routing_models; a row that a session inserts has its name as id
    policy,     \* committed tenant_policies and, at Global, the pipeline_policies row
    flags,      \* committed tenant_feature_flags
    op,         \* the request of a session: [kind, owner, scope, id, name, active, cols];
                \* active: what an upsert says, of flags: the request is a PATCH
    pc,         \* "idle", "loaded", "read" (of a resolution), "flushing", "done", "failed"
    loaded,     \* the row a session has loaded, None: there was none
    siblings,   \* models a session has found active besides its own
    held,       \* rows whose locks a session holds
    eff,        \* the effective policy, as far as it is resolved
    raced,      \* (history) tables and scopes in which two changes have overlapped
    seen        \* (history) the policies since a session began to resolve, as they were committed

vars == <<model, policy, flags, op, pc, loaded, siblings, held, eff, raced, seen>>
tables == <<model, policy, flags>>

Ids == Given \cup Sessions
Rows == {i \in Ids : model[i] # None}
Active(scope) == {i \in Rows : model[i].scope = scope /\ model[i].active}
Goto(s, stage) == pc' = [pc EXCEPT ![s] = stage]
Busy(s) == pc[s] \in {"loaded", "read", "flushing"}
Owner(s) == op[s].owner     \* the tenant of the API key
Request(kind, owner) ==
    [kind |-> kind, owner |-> owner, scope |-> None, id |-> None, name |-> None, active |-> FALSE, cols |-> {}]
Table(kind) == IF kind \in {"activate", "upsert"} THEN "model" ELSE IF kind = "flags" THEN "flags" ELSE "policy"

\* ensure_default_pipeline_policy
DefaultPolicy == [version |-> 0, a |-> None, b |-> None, frozen |-> FALSE]

Init ==
    /\ \E c \in Scenarios :
        /\ model = [i \in Ids |-> IF i \in Given THEN c.models[i] ELSE None]
        /\ op = [s \in Sessions |-> Request(c.asks[s], c.owners[s])]
    /\ policy = [t \in Scopes |-> IF t = Global THEN DefaultPolicy ELSE None]
    /\ flags = [t \in Tenants |-> None]
    /\ pc = [s \in Sessions |-> "idle"]
    /\ loaded = [s \in Sessions |-> None] /\ siblings = [s \in Sessions |-> {}]
    /\ held = [s \in Sessions |-> {}]
    /\ eff = [s \in Sessions |-> None]
    /\ raced = {} /\ seen = [s \in Sessions |-> <<>>]

----------------------------------------------------------------------------
(* Loading the row a request is about *)

\* (History) another change of the same table and scope is under way.
Overlaps(s, kind, scope) ==
    IF \E z \in Sessions \ {s} : Busy(z) /\ Table(op[z].kind) = Table(kind) /\ op[z].scope = scope
    THEN {<<Table(kind), scope>>} ELSE {}

Open(s, request, row) ==
    /\ pc[s] = "idle"
    /\ op' = [op EXCEPT ![s] = request]
    /\ loaded' = [loaded EXCEPT ![s] = row]
    /\ Goto(s, "loaded")
    /\ raced' = raced \cup Overlaps(s, request.kind, request.scope)
    /\ UNCHANGED <<tables, siblings, held, eff, seen>>

\* activate_*_routing_model: db.get(model_id); the scope is the one of the path.
LoadModel(s) ==
    /\ op[s].kind = "activate"
    /\ \E i \in Rows, scope \in {Owner(s), Global} :
        Open(s, [op[s] EXCEPT !.scope = scope, !.id = i, !.active = TRUE], model[i])

\* upsert_routing_model: select by scope, pipeline and name, the first row.
LoadNamed(s) ==
    /\ op[s].kind = "upsert"
    /\ \E scope \in {Owner(s), Global}, name \in Names, active \in BOOLEAN :
        LET found == {i \in Rows : model[i].scope = scope /\ model[i].name = name}
            request == [op[s] EXCEPT !.scope = scope, !.name = name, !.active = active]
        IN IF found = {} THEN Open(s, [request EXCEPT !.id = s], None)
           ELSE \E i \in found : Open(s, [request EXCEPT !.id = i], model[i])

\* put_*_policy and patch_*_policy, until the 404 and the 409.
LoadPolicy(s) ==
    /\ op[s].kind \in {"put", "patch"}
    /\ \E scope \in {Owner(s), Global}, cols \in SUBSET {"a", "b"} :
        /\ op[s].kind = "put" => cols = {"a", "b"}
        /\ op[s].kind = "patch" => policy[scope] # None
        /\ policy[scope] # None => ~policy[scope].frozen
        /\ Open(s, [op[s] EXCEPT !.scope = scope, !.cols = cols], policy[scope])

\* put_tenant_flags: db.get; patch_tenant_flags: load_feature_flags.
LoadFlags(s) ==
    /\ op[s].kind = "flags"
    /\ \E cols \in SUBSET {"a", "b"}, patch \in BOOLEAN :
        Open(s, [op[s] EXCEPT !.scope = Owner(s), !.active = patch, !.cols = cols], flags[Owner(s)])

----------------------------------------------------------------------------
(* Flushing the changes *)

Insert(s) == loaded[s] = None
FlagDefaults == [c \in {"a", "b"} |-> None]

\* (History) the policies a resolution may read from now on.
Noting ==
    [z \in Sessions |-> IF pc[z] = "read" /\ policy' # policy THEN Append(seen[z], policy') ELSE seen[z]]

\* The session ends: its objects are gone and its locks are free.
Close(s, stage) ==
    /\ Goto(s, stage)
    /\ op' = [op EXCEPT ![s] = Request(@.kind, @.owner)]
    /\ loaded' = [loaded EXCEPT ![s] = None] /\ siblings' = [siblings EXCEPT ![s] = {}]
    /\ held' = [held EXCEPT ![s] = {}] /\ seen' = [Noting EXCEPT ![s] = <<>>]
    /\ UNCHANGED <<eff, raced>>
Changing(s) == op[s].kind # "resolve"

\* The INSERT of upsert_routing_model: it waits for an uncommitted row with its
\* key; a committed one is an IntegrityError.  Keys without tenant never clash.
SameKey(s, z) == op[z].kind = "upsert" /\ op[z].scope = op[s].scope /\ op[z].name = op[s].name

\* INSERT, then _deactivate_siblings: select the pipeline's models.
FindSiblings(s) ==
    /\ pc[s] = "loaded" /\ Table(op[s].kind) = "model"
    /\ Insert(s) /\ op[s].scope # Global => \A z \in Sessions \ {s} : pc[z] = "flushing" /\ Insert(z) => ~SameKey(s, z)
    /\ UNCHANGED tables
    /\ IF Insert(s) /\ op[s].scope # Global /\ \E i \in Rows : model[i].scope = op[s].scope /\ model[i].name = op[s].name
       THEN Close(s, "failed")
       ELSE /\ LET scope == IF Insert(s) THEN op[s].scope ELSE loaded[s].scope
               IN siblings' = [siblings EXCEPT ![s] = IF op[s].active THEN Active(scope) \ {op[s].id} ELSE {}]
            /\ Goto(s, "flushing")
            /\ UNCHANGED <<op, loaded, held, eff, raced, seen>>

\* patch_tenant_flags reads a second time, for the row to be updated: the
\* values stay those merged onto the first reading, the defaults if there was none.
RowIsThereNow(s) == op[s].kind = "flags" /\ op[s].active /\ Insert(s) /\ flags[op[s].scope] # None

StartFlush(s) ==
    /\ pc[s] = "loaded" /\ Table(op[s].kind) # "model" /\ Changing(s)
    /\ Goto(s, "flushing")
    /\ loaded' = [loaded EXCEPT ![s] = IF RowIsThereNow(s) THEN FlagDefaults ELSE @]
    /\ UNCHANGED <<tables, op, siblings, held, eff, raced, seen>>

\* The row as the object says, after the handler has assigned the columns.
Assigned(s) ==
    CASE op[s].kind = "activate" -> [loaded[s] EXCEPT !.active = TRUE]
      [] op[s].kind = "upsert" -> [scope |-> op[s].scope, name |-> op[s].name, config |-> s, active |-> op[s].active]
      [] op[s].kind = "flags" -> [c \in {"a", "b"} |-> IF c \in op[s].cols THEN s ELSE IF Insert(s) \/ ~op[s].active THEN None ELSE loaded[s][c]]
      [] OTHER ->
            [version |-> IF op[s].scope = Global THEN 0 ELSE IF Insert(s) THEN 1 ELSE loaded[s].version + 1,
             a |-> IF "a" \in op[s].cols THEN s ELSE loaded[s].a,
             b |-> IF "b" \in op[s].cols THEN s ELSE loaded[s].b,
             frozen |-> FALSE]

\* UPDATE sets the columns that differ from the loaded row; flags are one column.
Updated(s, row) ==
    IF Insert(s) \/ op[s].kind = "flags" THEN Assigned(s)
    ELSE [c \in DOMAIN row |-> IF Assigned(s)[c] # loaded[s][c] THEN Assigned(s)[c] ELSE row[c]]

\* The rows of routing_models that the flush has UPDATEs for.
Dirty(s) == siblings[s] \cup (IF Insert(s) \/ Assigned(s) = loaded[s] THEN {} ELSE {op[s].id})
Locked(i) == \E z \in Sessions : i \in held[z]

\* Mutant: a session updates its own row first.
LockOwnRowFirst(s) ==
    /\ pc[s] = "flushing" /\ Table(op[s].kind) = "model" /\ Dirty(s) \ held[s] # {}
    /\ LET due == Dirty(s) \ held[s]
           i == IF op[s].id \in due THEN op[s].id ELSE CHOOSE j \in due : TRUE
       IN ~Locked(i) /\ held' = [held EXCEPT ![s] = @ \cup {i}]
    /\ UNCHANGED <<tables, op, pc, loaded, siblings, eff, raced, seen>>

\* One UPDATE: the unit of work emits them in the order of the primary keys.
LockNextRow(s) ==
    /\ pc[s] = "flushing" /\ Table(op[s].kind) = "model" /\ Dirty(s) \ held[s] # {}
    /\ \E i \in Dirty(s) \ held[s] :
        /\ i \in Given => \A j \in (Dirty(s) \ held[s]) \cap Given : i <= j
        /\ i \notin Given => (Dirty(s) \ held[s]) \cap Given = {}
        /\ ~Locked(i)
        /\ held' = [held EXCEPT ![s] = @ \cup {i}]
    /\ UNCHANGED <<tables, op, pc, loaded, siblings, eff, raced, seen>>

\* What the flush has made of the models.
Flushed(s) ==
    [i \in Ids |->
        IF i = op[s].id THEN Updated(s, model[i])
        ELSE IF i \in siblings[s] THEN [model[i] EXCEPT !.active = FALSE]
        ELSE model[i]]

\* Mutant: the activation of a foreign model is refused without a rollback.
CommitForeignModel(s) ==
    /\ pc[s] = "flushing" /\ Table(op[s].kind) = "model" /\ Dirty(s) = held[s]
    /\ UNCHANGED <<policy, flags>>
    /\ Close(s, IF ~Insert(s) /\ loaded[s].scope # op[s].scope THEN "failed" ELSE "done")
    /\ model' = Flushed(s)

\* 200, or 403 after the flush when the model is not of the path's scope.
CommitModel(s) ==
    /\ pc[s] = "flushing" /\ Table(op[s].kind) = "model" /\ Dirty(s) = held[s]
    /\ UNCHANGED <<policy, flags>>
    /\ IF ~Insert(s) /\ loaded[s].scope # op[s].scope
       THEN UNCHANGED model /\ Close(s, "failed")
       ELSE model' = Flushed(s) /\ Close(s, "done")

\* One row, one statement: lock, write and commit are one step.  An INSERT
\* that comes second is an IntegrityError.
CommitPolicy(s) ==
    /\ pc[s] = "flushing" /\ op[s].kind \in {"put", "patch"}
    /\ UNCHANGED <<model, flags>>
    /\ IF Insert(s) /\ policy[op[s].scope] # None
       THEN UNCHANGED policy /\ Close(s, "failed")
       ELSE policy' = [policy EXCEPT ![op[s].scope] = Updated(s, @)] /\ Close(s, "done")

CommitFlags(s) ==
    /\ pc[s] = "flushing" /\ op[s].kind = "flags"
    /\ UNCHANGED <<model, policy>>
    /\ IF Insert(s) /\ flags[op[s].scope] # None
       THEN UNCHANGED flags /\ Close(s, "failed")
       ELSE flags' = [flags EXCEPT ![op[s].scope] = Updated(s, @)] /\ Close(s, "done")

\* The process or the connection dies: the transaction is rolled back.
Lose(s) == Busy(s) /\ UNCHANGED tables /\ Close(s, "failed")

\* Somebody marks a policy immutable in the database: no route does.
Freeze(t) ==
    /\ policy[t] # None /\ ~policy[t].frozen
    /\ policy' = [policy EXCEPT ![t].frozen = TRUE]
    /\ seen' = Noting
    /\ UNCHANGED <<model, flags, op, pc, loaded, siblings, held, eff, raced>>

----------------------------------------------------------------------------
(* resolve_effective_policy *)

\* The pipeline's policy, or the default pipeline's.
ResolvePipeline(s) ==
    /\ pc[s] = "idle" /\ op[s].kind = "resolve"
    /\ loaded' = [loaded EXCEPT ![s] = policy[Global]]
    /\ Goto(s, "read")
    /\ seen' = [seen EXCEPT ![s] = <<policy>>]
    /\ UNCHANGED <<tables, op, siblings, held, eff, raced>>

\* Mutant: the threshold of the pipeline goes first.
MergedPipelineFirst(tenant, pipeline) ==
    [a |-> IF pipeline.a # None THEN pipeline.a ELSE IF tenant # None THEN tenant.a ELSE None,
     b |-> IF tenant # None THEN tenant.b ELSE pipeline.b,
     version |-> None, flags |-> None, model |-> None, due |-> "version"]

\* merge_policies: the tenant's threshold where it has one, its other columns always.
Merged(tenant, pipeline) ==
    [a |-> IF tenant # None /\ tenant.a # None THEN tenant.a ELSE pipeline.a,
     b |-> IF tenant # None THEN tenant.b ELSE pipeline.b,
     version |-> None, flags |-> None, model |-> None, due |-> "version"]

\* load_tenant_policy: it returns a copy of the values, and the row is let go.
ResolveTenant(s) ==
    /\ pc[s] = "read" /\ eff[s] = None
    /\ eff' = [eff EXCEPT ![s] = Merged(policy[Owner(s)], loaded[s])]
    /\ UNCHANGED <<tables, op, pc, loaded, siblings, held, raced, seen>>

\* The version to record: db.get reads the tenant's row again, as it is by now.
ResolveVersion(s) ==
    /\ pc[s] = "read" /\ eff[s] # None /\ eff[s].due = "version"
    /\ LET row == policy[Owner(s)]
       IN eff' = [eff EXCEPT ![s] = [@ EXCEPT !.version = IF row # None THEN row.version ELSE None, !.due = "flags"]]
    /\ UNCHANGED <<tables, op, pc, loaded, siblings, held, raced, seen>>

\* load_feature_flags: no row gives the defaults.
ResolveFlags(s) ==
    /\ pc[s] = "read" /\ eff[s] # None /\ eff[s].due = "flags"
    /\ LET row == flags[Owner(s)]
       IN eff' = [eff EXCEPT ![s] = [@ EXCEPT !.flags = IF row = None THEN FlagDefaults ELSE row, !.due = "model"]]
    /\ UNCHANGED <<tables, op, pc, loaded, siblings, held, raced, seen>>

\* get_active_routing_model: the tenant's first, else the first global one.
Preferred(s) == IF Active(Owner(s)) # {} THEN Active(Owner(s)) ELSE Active(Global)

\* apply_routing_model_to_effective_policy: its thresholds go over the policies'.
ResolveModel(s) ==
    /\ pc[s] = "read" /\ eff[s] # None /\ eff[s].due = "model"
    /\ \/ Preferred(s) = {} /\ eff' = eff
       \/ \E i \in Preferred(s) : eff' = [eff EXCEPT ![s].model = i]
    /\ Goto(s, "done")
    /\ loaded' = [loaded EXCEPT ![s] = None] /\ seen' = [seen EXCEPT ![s] = <<>>]
    /\ UNCHANGED <<tables, op, siblings, held, raced>>

----------------------------------------------------------------------------

Load(s) == LoadModel(s) \/ LoadNamed(s) \/ LoadPolicy(s) \/ LoadFlags(s) \/ ResolvePipeline(s)

Step(s) ==
    \/ FindSiblings(s) \/ StartFlush(s) \/ LockNextRow(s)
    \/ CommitModel(s) \/ CommitPolicy(s) \/ CommitFlags(s)
    \/ ResolveTenant(s) \/ ResolveVersion(s) \/ ResolveFlags(s) \/ ResolveModel(s)

Next == (\E s \in Sessions : Load(s) \/ Step(s) \/ Lose(s)) \/ (\E t \in Scopes : Freeze(t))

Spec == Init /\ [][Next]_vars

\* Handlers run to their end.
FairSpec == Spec /\ \A s \in Sessions : WF_vars(Step(s))

----------------------------------------------------------------------------
(* Properties *)

\* Type invariant.
TypeOK ==
    /\ model \in [Ids -> ModelRow \cup {None}]
    /\ policy \in [Scopes -> PolicyRow \cup {None}]
    /\ \A t \in Scopes : policy[t] # None => (t = Global <=> policy[t].version = 0)
    /\ flags \in [Tenants -> FlagsRow \cup {None}]
    /\ pc \in [Sessions -> {"idle", "loaded", "read", "flushing", "done", "failed"}]
    /\ \A s \in Sessions : siblings[s] \subseteq Rows /\ held[s] \subseteq Rows

\* At most one routing model of a scope is active, but where changes of the
\* scope have overlapped: the siblings are switched off as they were seen, and
\* no key of the table forbids two.  [set_active_routing_model, upsert_routing_model]
OneActivePerScope ==
    \A scope \in Scopes : <<"model", scope>> \notin raced => Cardinality(Active(scope)) <= 1

\* A session changes models of its own tenant and global ones only, never
\* another tenant's, whichever id or path it names, and a refused activation
\* changes nothing.  [activate_tenant_routing_model: flush, then 403]
TenantsAreIsolated ==
    \A i \in Ids, s \in Sessions : pc[s] # pc'[s] /\ model'[i] # model[i] =>
            /\ pc'[s] = "done"
            /\ model'[i].scope \in {Owner(s), Global}
            /\ model'[i].scope = op[s].scope
            /\ model[i] # None => model'[i].scope = model[i].scope

\* An immutable policy is changed by nobody but a session that loaded it before
\* it was frozen, and stays immutable even then.  [put_tenant_policy: 409]
FrozenPolicyStands ==
    \A t \in Scopes : policy[t] # None /\ policy[t].frozen /\ policy'[t] # policy[t] =>
            /\ policy'[t].frozen
            /\ \E s \in Sessions : pc'[s] = "done" /\ pc[s] = "flushing" /\ op[s].scope = t /\ ~loaded[s].frozen

\* A run's settings are those of the pipeline as it was first read under those of
\* one committed policy of its tenant, never a mixture of two; the version that
\* it records is that policy's own or, if the policy was changed between the two
\* readings, that of a later one: never of an earlier one, and never of none at
\* all where there was one.  [resolve_effective_policy]
VersionNamesContent ==
    \A s \in Sessions : pc[s] = "read" /\ eff[s] # None =>
        /\ loaded[s] = seen[s][1][Global]
        /\ \E i \in DOMAIN seen[s] :
            LET tenant == seen[s][i][Owner(s)]
            IN /\ eff[s].a = (IF tenant # None /\ tenant.a # None THEN tenant.a ELSE loaded[s].a)
               /\ eff[s].b = (IF tenant # None THEN tenant.b ELSE loaded[s].b)
               /\ eff[s].due # "version" =>
                    \E j \in i..Len(seen[s]) :
                        LET row == seen[s][j][Owner(s)]
                        IN /\ eff[s].version = (IF row # None THEN row.version ELSE None)
                           /\ tenant # None => row # None

\* Two different policies of a tenant never carry the same version, but where
\* changes overlapped: the version is counted on from the row as it was loaded.
VersionsDiffer ==
    \A t \in Tenants :
        /\ policy'[t] # policy[t] /\ policy[t] # None /\ policy'[t].frozen = policy[t].frozen
        /\ <<"policy", t>> \notin raced'
        => policy'[t].version > policy[t].version

\* A scope that has an active model is never seen without one while another is
\* activated: only an upsert that says so switches the last one off, or changes
\* that overlap.  [set_active_routing_model: one flush, one commit]
SwitchLeavesNoGap ==
    \A scope \in Scopes :
        Active(scope) # {} /\ Active(scope)' = {} =>
            \/ <<"model", scope>> \in raced
            \/ \E s \in Sessions : op[s].kind = "upsert" /\ op[s].scope = scope /\ ~op[s].active /\ pc'[s] = "done"

\* A run is governed by the global model only if its tenant has none active at
\* the time, and by no model only if there is none at all.  [get_active_routing_model]
RoutedByOwnModel ==
    \A s \in Sessions : pc[s] = "read" /\ pc'[s] = "done" =>
        /\ eff'[s].model = None => Active(Owner(s)) \cup Active(Global) = {}
        /\ eff'[s].model \in Active(Global) => Active(Owner(s)) = {}

\* The settings as they are stored, and a run's policy as far as it is resolved.
SettingsAreConsistent == TypeOK /\ OneActivePerScope /\ VersionNamesContent

\* No request changes more than it may or leaves a scope between two settings.
ChangesAreLawful ==
    [][/\ TenantsAreIsolated
       /\ FrozenPolicyStands
       /\ VersionsDiffer
       /\ SwitchLeavesNoGap
       /\ RoutedByOwnModel]_vars

\* Every request ends: the row locks of overlapping activations are taken in
\* one order, so no two sessions wait for each other.
EverySessionEnds == \A s \in Sessions : pc[s] \in {"loaded", "read"} ~> pc[s] \in {"done", "failed"}
=============================================================================
