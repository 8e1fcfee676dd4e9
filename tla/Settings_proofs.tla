---------------------------- MODULE Settings_proofs ----------------------------
(***************************************************************************)
(* Proofs about Settings, for every number of sessions, tenants, models    *)
(* and names, and every table to begin with.                               *)
(***************************************************************************)
EXTENDS Settings, FiniteSetTheorems, TLAPS

ModelKinds == {"activate", "upsert"}
PolicyKinds == {"put", "patch"}
Stages == {"idle", "loaded", "read", "flushing", "done", "failed"}

\* The stages in which a session is to change the row it has loaded.
InHand == {"loaded", "flushing"}

OpRow ==
    [kind : AllKinds, owner : Tenants, scope : Scopes \cup {None}, id : Ids \cup {None},
     name : Names \cup {None}, active : BOOLEAN, cols : SUBSET {"a", "b"}]

\* The types the proof needs.
Typed ==
    /\ model \in [Ids -> ModelRow \cup {None}]
    /\ policy \in [Scopes -> PolicyRow \cup {None}]
    /\ op \in [Sessions -> OpRow]
    /\ pc \in [Sessions -> Stages]
    /\ DOMAIN loaded = Sessions /\ DOMAIN siblings = Sessions /\ DOMAIN eff = Sessions

\* The scope of the row that a session changes.
Affected(s) == IF Insert(s) THEN op[s].scope ELSE loaded[s].scope

\* A session that changes models has loaded a row that is still there, or
\* inserts one; nobody else has changed it, unless changes overlapped.
HoldsModel(s) ==
    /\ op[s].scope \in {Owner(s), Global}
    /\ op[s].kind = "activate" => op[s].active
    /\ Insert(s) => op[s].kind = "upsert" /\ op[s].id = s /\ model[s] = None /\ op[s].name \in Names
    /\ ~Insert(s) =>
        /\ loaded[s] \in ModelRow /\ op[s].id \in Ids /\ model[op[s].id] \in ModelRow
        /\ model[op[s].id].scope = loaded[s].scope
        /\ op[s].kind = "upsert" => op[s].name \in Names
        /\ loaded[s].scope = op[s].scope /\ <<"model", op[s].scope>> \notin raced =>
             model[op[s].id].active = loaded[s].active
    /\ \A i \in siblings[s] : i \in Ids /\ model[i] \in ModelRow /\ model[i].scope = Affected(s)

HoldsPolicy(s) ==
    /\ Insert(s) => op[s].cols = {"a", "b"}
    /\ ~Insert(s) =>
        /\ loaded[s] \in PolicyRow /\ ~loaded[s].frozen /\ policy[op[s].scope] \in PolicyRow
        /\ <<"policy", op[s].scope>> \notin raced => policy[op[s].scope].version = loaded[s].version

Holds(s) ==
    /\ pc[s] = "idle" => siblings[s] = {} /\ model[s] = None
    /\ eff[s] # None => "model" \in DOMAIN eff[s]
    /\ pc[s] \in InHand =>
        /\ op[s].scope \in Scopes
        /\ op[s].kind \in ModelKinds => HoldsModel(s)
        /\ op[s].kind \in PolicyKinds => HoldsPolicy(s)

RacesAreNoted ==
    \A s, z \in Sessions :
        /\ s # z /\ pc[s] \in InHand /\ pc[z] \in InHand
        /\ Table(op[s].kind) = Table(op[z].kind) /\ op[s].scope = op[z].scope
        => <<Table(op[s].kind), op[s].scope>> \in raced

Lawful == Typed /\ (\A s \in Sessions : Holds(s)) /\ RacesAreNoted

----------------------------------------------------------------------------
(* Loading *)

\* A session that has loaded a row has noted whom it overlaps.
LEMMA OpenKeepsLawful ==
    ASSUME Lawful, NEW s \in Sessions, NEW request \in OpRow, NEW row, Open(s, request, row),
           request.scope \in Scopes,
           request.kind \in ModelKinds => HoldsModel(s)',
           request.kind \in PolicyKinds => HoldsPolicy(s)'
    PROVE  Lawful'
<1>1. /\ op' = [op EXCEPT ![s] = request] /\ loaded' = [loaded EXCEPT ![s] = row]
      /\ pc' = [pc EXCEPT ![s] = "loaded"] /\ raced' = raced \cup Overlaps(s, request.kind, request.scope)
      /\ UNCHANGED <<model, policy, siblings, eff>>
  BY DEF Open, Goto, tables
<1>2. Typed'
  BY <1>1 DEF Lawful, Typed, Stages
<1>3. /\ op'[s] = request /\ pc'[s] = "loaded"
      /\ \A z \in Sessions \ {s} : op'[z] = op[z] /\ pc'[z] = pc[z] /\ loaded'[z] = loaded[z]
  BY <1>1 DEF Lawful, Typed
<1>4. ASSUME NEW z \in Sessions \ {s}
      PROVE  Holds(z)'
  <2>1. raced \subseteq raced'
    BY <1>1
  <2>2. HoldsModel(z) => HoldsModel(z)'
    BY <1>1, <1>3, <2>1 DEF HoldsModel, Insert, Affected, Owner
  <2>3. HoldsPolicy(z) => HoldsPolicy(z)'
    BY <1>1, <1>3, <2>1 DEF HoldsPolicy, Insert
  <2> QED
    BY <1>1, <1>3, <2>2, <2>3 DEF Lawful, Holds
<1>5. Holds(s)'
  BY <1>1, <1>3 DEF Lawful, Holds
<1>6. RacesAreNoted'
  <2>1. ASSUME NEW z \in Sessions \ {s}, pc[z] \in InHand,
               Table(op[z].kind) = Table(request.kind), op[z].scope = request.scope
        PROVE  <<Table(request.kind), request.scope>> \in raced'
    BY <1>1, <2>1 DEF Overlaps, Busy, InHand
  <2>2. \A z, y \in Sessions \ {s} :
          /\ z # y /\ pc[z] \in InHand /\ pc[y] \in InHand
          /\ Table(op[z].kind) = Table(op[y].kind) /\ op[z].scope = op[y].scope
          => <<Table(op[z].kind), op[z].scope>> \in raced'
    BY <1>1 DEF Lawful, RacesAreNoted
  <2> SUFFICES ASSUME NEW x \in Sessions, NEW z \in Sessions,
                      x # z, pc'[x] \in InHand, pc'[z] \in InHand,
                      Table(op'[x].kind) = Table(op'[z].kind), op'[x].scope = op'[z].scope
               PROVE  <<Table(op'[x].kind), op'[x].scope>> \in raced'
    BY DEF RacesAreNoted, Table
  <2> QED
    BY <1>3, <2>1, <2>2
<1> QED
  BY <1>2, <1>4, <1>5, <1>6 DEF Lawful

LEMMA LoadKeepsLawful ==
    ASSUME Lawful, NEW s \in Sessions, LoadModel(s) \/ LoadNamed(s) \/ LoadPolicy(s) \/ LoadFlags(s)
    PROVE  Lawful'
<1>1. op[s] \in OpRow /\ op[s].owner \in Tenants /\ op[s].kind \in AllKinds
  BY DEF Lawful, Typed, OpRow
<1>2. CASE LoadModel(s)
  <2>1. PICK i \in Rows, scope \in {Owner(s), Global} :
          Open(s, [op[s] EXCEPT !.scope = scope, !.id = i, !.active = TRUE], model[i])
    BY <1>2 DEF LoadModel
  <2> DEFINE request == [op[s] EXCEPT !.scope = scope, !.id = i, !.active = TRUE]
  <2>2. i \in Ids /\ model[i] \in ModelRow /\ scope \in Scopes
    BY <1>1 DEF Rows, Lawful, Typed, Owner, Scopes
  <2>3. /\ request \in OpRow /\ request.scope = scope /\ request.id = i /\ request.active /\ request.owner = Owner(s)
        /\ request.kind = "activate"
    BY <1>1, <1>2, <2>2 DEF OpRow, Owner, LoadModel
  <2>4. Open(s, request, model[i])
    BY <2>1
  <2> HIDE DEF request
  <2>5. op'[s] = request /\ loaded'[s] = model[i] /\ model' = model /\ siblings'[s] = {}
    BY <2>4 DEF Open, Lawful, Typed, tables, Holds
  <2>6. HoldsModel(s)'
    BY <2>2, <2>3, <2>5, SettingsAssumption DEF HoldsModel, Insert, Owner
  <2> QED
    BY <2>2, <2>3, <2>4, <2>6, OpenKeepsLawful DEF PolicyKinds
<1>3. CASE LoadNamed(s)
  <2>1. PICK scope \in {Owner(s), Global}, name \in Names, active \in BOOLEAN :
          LET found == {i \in Rows : model[i].scope = scope /\ model[i].name = name}
              request == [op[s] EXCEPT !.scope = scope, !.name = name, !.active = active]
          IN IF found = {} THEN Open(s, [request EXCEPT !.id = s], None)
             ELSE \E i \in found : Open(s, [request EXCEPT !.id = i], model[i])
    BY <1>3 DEF LoadNamed
  <2>2. scope \in Scopes
    BY <1>1 DEF Owner, Scopes
  <2> DEFINE found == {i \in Rows : model[i].scope = scope /\ model[i].name = name}
  <2>3. \E i \in Ids, row \in ModelRow \cup {None} :
          /\ Open(s, [op[s] EXCEPT !.scope = scope, !.name = name, !.active = active, !.id = i], row)
          /\ \/ row = None /\ i = s
             \/ row = model[i] /\ row \in ModelRow
    <3>1. CASE found = {}
      BY <2>1, <3>1 DEF Ids
    <3>2. CASE found # {}
      <4>1. PICK i \in found : Open(s, [op[s] EXCEPT !.scope = scope, !.name = name, !.active = active, !.id = i], model[i])
        BY <2>1, <3>2
      <4>2. i \in Ids /\ model[i] \in ModelRow
        BY DEF Rows, Lawful, Typed
      <4> QED
        BY <4>1, <4>2
    <3> QED
      BY <3>1, <3>2
  <2>4. PICK i \in Ids, row \in ModelRow \cup {None} :
          /\ Open(s, [op[s] EXCEPT !.scope = scope, !.name = name, !.active = active, !.id = i], row)
          /\ \/ row = None /\ i = s
             \/ row = model[i] /\ row \in ModelRow
    BY <2>3
  <2> DEFINE request == [op[s] EXCEPT !.scope = scope, !.name = name, !.active = active, !.id = i]
  <2>5. /\ request \in OpRow /\ request.scope = scope /\ request.id = i /\ request.owner = Owner(s)
        /\ request.kind = "upsert" /\ request.name \in Names
    BY <1>1, <1>3, <2>2 DEF OpRow, Owner, LoadNamed
  <2>6. Open(s, request, row)
    BY <2>4
  <2> HIDE DEF request
  <2>7. op'[s] = request /\ loaded'[s] = row /\ model' = model /\ siblings'[s] = {}
    BY <2>6 DEF Open, Lawful, Typed, tables, Holds
  <2>8. model[s] = None
    BY <2>6 DEF Open, Lawful, Holds
  <2>9. HoldsModel(s)'
    BY <2>4, <2>5, <2>7, <2>8, SettingsAssumption DEF HoldsModel, Insert, Owner
  <2> QED
    BY <2>2, <2>5, <2>6, <2>9, OpenKeepsLawful DEF PolicyKinds
<1>4. CASE LoadPolicy(s)
  <2>1. PICK scope \in {Owner(s), Global}, cols \in SUBSET {"a", "b"} :
          /\ op[s].kind = "put" => cols = {"a", "b"}
          /\ op[s].kind = "patch" => policy[scope] # None
          /\ policy[scope] # None => ~policy[scope].frozen
          /\ Open(s, [op[s] EXCEPT !.scope = scope, !.cols = cols], policy[scope])
    BY <1>4 DEF LoadPolicy
  <2> DEFINE request == [op[s] EXCEPT !.scope = scope, !.cols = cols]
  <2>2. scope \in Scopes /\ policy[scope] \in PolicyRow \cup {None}
    BY <1>1 DEF Owner, Scopes, Lawful, Typed
  <2>3. request \in OpRow /\ request.scope = scope /\ request.cols = cols /\ request.kind = op[s].kind /\ op[s].kind \in PolicyKinds
    BY <1>1, <1>4, <2>2 DEF OpRow, LoadPolicy, PolicyKinds
  <2>4. Open(s, request, policy[scope])
    BY <2>1
  <2> HIDE DEF request
  <2>5. op'[s] = request /\ loaded'[s] = policy[scope] /\ policy' = policy
    BY <2>4 DEF Open, Lawful, Typed, tables
  <2>6. HoldsPolicy(s)'
    BY <2>1, <2>2, <2>3, <2>5 DEF HoldsPolicy, Insert, PolicyKinds
  <2> QED
    BY <2>2, <2>3, <2>4, <2>6, OpenKeepsLawful DEF ModelKinds, PolicyKinds
<1>5. CASE LoadFlags(s)
  <2>1. PICK cols \in SUBSET {"a", "b"}, patch \in BOOLEAN :
          Open(s, [op[s] EXCEPT !.scope = Owner(s), !.active = patch, !.cols = cols], flags[Owner(s)])
    BY <1>5 DEF LoadFlags
  <2> DEFINE request == [op[s] EXCEPT !.scope = Owner(s), !.active = patch, !.cols = cols]
  <2>2. request \in OpRow /\ request.scope \in Scopes /\ request.kind = "flags"
    BY <1>1, <1>5 DEF OpRow, LoadFlags, Owner, Scopes
  <2>3. Open(s, request, flags[Owner(s)])
    BY <2>1
  <2> HIDE DEF request
  <2> QED
    BY <2>2, <2>3, OpenKeepsLawful DEF ModelKinds, PolicyKinds
<1> QED
  BY <1>2, <1>3, <1>4, <1>5

----------------------------------------------------------------------------
(* Steps of one session *)

\* Whose own variables and tables stay as they are keeps what it holds.
LEMMA OthersHold ==
    ASSUME Lawful, NEW z \in Sessions, UNCHANGED <<model, policy, raced>>,
           op'[z] = op[z], pc'[z] = pc[z], loaded'[z] = loaded[z], siblings'[z] = siblings[z], eff'[z] = eff[z]
    PROVE  Holds(z)'
<1>1. Holds(z)
  BY DEF Lawful
<1>2. Insert(z)' = Insert(z) /\ Owner(z)' = Owner(z) /\ Affected(z)' = Affected(z)
  BY DEF Insert, Owner, Affected
<1>3. HoldsModel(z) => HoldsModel(z)'
  BY <1>2 DEF HoldsModel
<1>4. HoldsPolicy(z) => HoldsPolicy(z)'
  BY <1>2 DEF HoldsPolicy
<1> QED
  BY <1>1, <1>3, <1>4 DEF Holds

\* A step in which one session goes on and takes no row into its hands.
LEMMA StepOfOne ==
    ASSUME Lawful, NEW s \in Sessions, Typed', raced' = raced, Holds(s)',
           \A z \in Sessions \ {s} : Holds(z)' /\ op'[z] = op[z] /\ pc'[z] = pc[z],
           pc'[s] \in InHand => pc[s] \in InHand /\ op'[s] = op[s]
    PROVE  Lawful'
<1>1. ASSUME NEW x \in Sessions, pc'[x] \in InHand
      PROVE  pc[x] \in InHand /\ op'[x] = op[x]
  BY <1>1
<1>2. RacesAreNoted'
  <2> SUFFICES ASSUME NEW x \in Sessions, NEW z \in Sessions,
                      x # z, pc'[x] \in InHand, pc'[z] \in InHand,
                      Table(op'[x].kind) = Table(op'[z].kind), op'[x].scope = op'[z].scope
               PROVE  <<Table(op'[x].kind), op'[x].scope>> \in raced'
    BY DEF RacesAreNoted, Table
  <2> QED
    BY <1>1 DEF Lawful, RacesAreNoted
<1> QED
  BY <1>2 DEF Lawful

\* A session that ends holds nothing any more.
LEMMA CloseKeepsLawful ==
    ASSUME Lawful, NEW s \in Sessions, NEW stage \in {"done", "failed"}, Close(s, stage),
           model' \in [Ids -> ModelRow \cup {None}], policy' \in [Scopes -> PolicyRow \cup {None}],
           \A z \in Sessions \ {s} : Holds(z)'
    PROVE  Lawful'
<1>1. /\ pc' = [pc EXCEPT ![s] = stage] /\ op' = [op EXCEPT ![s] = Request(@.kind, @.owner)]
      /\ loaded' = [loaded EXCEPT ![s] = None] /\ siblings' = [siblings EXCEPT ![s] = {}]
      /\ eff' = eff /\ raced' = raced
  BY DEF Close, Goto
<1>2. op[s] \in OpRow
  BY DEF Lawful, Typed
<1>3. Request(op[s].kind, op[s].owner) \in OpRow
  BY <1>2 DEF Request, OpRow
<1>4. Typed'
  BY <1>1, <1>3 DEF Lawful, Typed, Stages
<1>5. pc'[s] = stage
  BY <1>1 DEF Lawful, Typed
<1>6. Holds(s)'
  BY <1>1, <1>5 DEF Holds, InHand, Lawful
<1>7. \A z \in Sessions \ {s} : op'[z] = op[z] /\ pc'[z] = pc[z]
  BY <1>1 DEF Lawful, Typed
<1> QED
  BY <1>1, <1>4, <1>5, <1>6, <1>7, StepOfOne DEF InHand

LEMMA QuietCloseKeepsLawful ==
    ASSUME Lawful, NEW s \in Sessions, NEW stage \in {"done", "failed"}, Close(s, stage), UNCHANGED <<model, policy>>
    PROVE  Lawful'
<1>1. ASSUME NEW z \in Sessions \ {s}
      PROVE  Holds(z)'
  BY OthersHold DEF Close, Goto, Lawful, Typed
<1> QED
  BY <1>1, CloseKeepsLawful DEF Lawful, Typed

\* A session that finds the siblings of its row finds rows of the same scope.
LEMMA FindKeepsLawful ==
    ASSUME Lawful, NEW s \in Sessions, FindSiblings(s)
    PROVE  Lawful'
<1>1. CASE Close(s, "failed")
  BY <1>1, QuietCloseKeepsLawful DEF FindSiblings, tables
<1>2. CASE ~Close(s, "failed")
  <2>1. /\ pc[s] = "loaded" /\ UNCHANGED <<model, policy, op, loaded, eff, raced>>
        /\ siblings' = [siblings EXCEPT ![s] = IF op[s].active THEN Active(Affected(s)) \ {op[s].id} ELSE {}]
        /\ pc' = [pc EXCEPT ![s] = "flushing"] /\ Table(op[s].kind) = "model"
    BY <1>2 DEF FindSiblings, Goto, tables, Affected
  <2>2. Typed'
    BY <2>1 DEF Lawful, Typed, Stages
  <2>3. pc'[s] = "flushing" /\ siblings'[s] \subseteq Active(Affected(s))
    BY <2>1 DEF Lawful, Typed
  <2>4. \A i \in siblings'[s] : i \in Ids /\ model[i] \in ModelRow /\ model[i].scope = Affected(s)
    BY <2>3 DEF Active, Rows, Lawful, Typed
  <2>5. Insert(s)' = Insert(s) /\ Owner(s)' = Owner(s) /\ Affected(s)' = Affected(s)
    BY <2>1 DEF Insert, Owner, Affected
  <2>6. HoldsModel(s) => HoldsModel(s)'
    BY <2>1, <2>4, <2>5 DEF HoldsModel
  <2>7. HoldsPolicy(s) => HoldsPolicy(s)'
    BY <2>1, <2>5 DEF HoldsPolicy
  <2>8. Holds(s)'
    BY <2>1, <2>3, <2>6, <2>7 DEF Lawful, Holds, InHand
  <2>9. ASSUME NEW z \in Sessions \ {s}
        PROVE  op'[z] = op[z] /\ pc'[z] = pc[z] /\ Holds(z)'
    BY <2>1, OthersHold DEF Lawful, Typed
  <2> QED
    BY <2>1, <2>2, <2>8, <2>9, StepOfOne DEF InHand
<1> QED
  BY <1>1, <1>2

LEMMA StartKeepsLawful ==
    ASSUME Lawful, NEW s \in Sessions, StartFlush(s)
    PROVE  Lawful'
<1>1. /\ pc[s] = "loaded" /\ pc' = [pc EXCEPT ![s] = "flushing"] /\ UNCHANGED <<model, policy, op, siblings, eff, raced>>
      /\ op[s].kind \notin ModelKinds /\ DOMAIN loaded' = Sessions
      /\ op[s].kind # "flags" => loaded'[s] = loaded[s]
      /\ \A z \in Sessions \ {s} : loaded'[z] = loaded[z]
  BY DEF StartFlush, Goto, tables, Table, ModelKinds, RowIsThereNow, Lawful, Typed
<1>2. Typed' /\ pc'[s] = "flushing"
  BY <1>1 DEF Lawful, Typed, Stages
<1>3. HoldsPolicy(s) /\ op[s].kind \in PolicyKinds => HoldsPolicy(s)'
  BY <1>1 DEF HoldsPolicy, Insert, PolicyKinds
<1>6. Holds(s)'
  BY <1>1, <1>2, <1>3 DEF Lawful, Holds, InHand
<1>7. ASSUME NEW z \in Sessions \ {s}
      PROVE  op'[z] = op[z] /\ pc'[z] = pc[z] /\ Holds(z)'
  BY <1>1, OthersHold DEF Lawful, Typed
<1> QED
  BY <1>1, <1>2, <1>6, <1>7, StepOfOne DEF InHand

\* A step of resolve_effective_policy.
Resolve(s) == ResolvePipeline(s) \/ ResolveTenant(s) \/ ResolveVersion(s) \/ ResolveFlags(s) \/ ResolveModel(s)

\* A resolution writes nothing but its own policy.
LEMMA ResolutionKeepsLawful ==
    ASSUME Lawful, NEW s \in Sessions, Resolve(s)
    PROVE  Lawful'
<1>1. /\ UNCHANGED <<model, policy, op, siblings, raced>>
      /\ pc' = pc \/ \E stage \in {"read", "done"} : pc' = [pc EXCEPT ![s] = stage]
      /\ loaded' = loaded \/ \E row : loaded' = [loaded EXCEPT ![s] = row]
      /\ eff' = eff \/ \E e : eff' = [eff EXCEPT ![s] = e] /\ "model" \in DOMAIN e
  <2>1. CASE ResolvePipeline(s)
    BY <2>1 DEF ResolvePipeline, Goto, tables
  <2>2. CASE ResolveTenant(s)
    <3>1. eff' = [eff EXCEPT ![s] = Merged(policy[Owner(s)], loaded[s])]
      BY <2>2 DEF ResolveTenant
    <3>2. "model" \in DOMAIN Merged(policy[Owner(s)], loaded[s])
      BY DEF Merged
    <3> QED
      BY <2>2, <3>1, <3>2 DEF ResolveTenant, tables
  <2>3. CASE ResolveVersion(s) \/ ResolveFlags(s)
    <3>1. "model" \in DOMAIN eff[s]
      BY <2>3 DEF ResolveVersion, ResolveFlags, Lawful, Holds
    <3>2. PICK e : eff' = [eff EXCEPT ![s] = e] /\ DOMAIN e = DOMAIN eff[s]
      <4>1. CASE ResolveVersion(s)
        <5>1. \E v : eff' = [eff EXCEPT ![s] = [eff[s] EXCEPT !.version = v, !.due = "flags"]]
          BY <4>1 DEF ResolveVersion
        <5> QED
          BY <5>1
      <4>2. CASE ResolveFlags(s)
        <5>1. \E f : eff' = [eff EXCEPT ![s] = [eff[s] EXCEPT !.flags = f, !.due = "model"]]
          BY <4>2 DEF ResolveFlags
        <5> QED
          BY <5>1
      <4> QED
        BY <2>3, <4>1, <4>2
    <3> QED
      BY <2>3, <3>1, <3>2 DEF ResolveVersion, ResolveFlags, tables
  <2>4. CASE ResolveModel(s)
    <3>1. "model" \in DOMAIN eff[s]
      BY <2>4 DEF ResolveModel, Lawful, Holds
    <3>2. CASE eff' = eff
      BY <2>4, <3>2 DEF ResolveModel, Goto, tables
    <3>3. CASE eff' # eff
      <4>1. PICK i : eff' = [eff EXCEPT ![s].model = i]
        BY <2>4, <3>3 DEF ResolveModel
      <4>2. eff' = [eff EXCEPT ![s] = [eff[s] EXCEPT !.model = i]]
        BY <4>1
      <4>3. "model" \in DOMAIN [eff[s] EXCEPT !.model = i]
        BY <3>1
      <4> QED
        BY <2>4, <4>2, <4>3 DEF ResolveModel, Goto, tables
    <3> QED
      BY <3>2, <3>3
  <2> QED
    BY <2>1, <2>2, <2>3, <2>4 DEF Resolve
<1>2. pc[s] \in {"idle", "read"} /\ pc'[s] \in {"read", "done"}
  BY DEF Resolve, ResolvePipeline, ResolveTenant, ResolveVersion, ResolveFlags, ResolveModel, Goto, Lawful, Typed
<1>3. Typed'
  BY <1>1 DEF Lawful, Typed, Stages
<1>4. eff'[s] # None => "model" \in DOMAIN eff'[s]
  BY <1>1 DEF Lawful, Typed, Holds
<1>5. Holds(s)'
  BY <1>2, <1>4 DEF Holds, InHand
<1>6. ASSUME NEW z \in Sessions \ {s}
      PROVE  op'[z] = op[z] /\ pc'[z] = pc[z] /\ Holds(z)'
  <2>1. op'[z] = op[z] /\ pc'[z] = pc[z] /\ loaded'[z] = loaded[z] /\ siblings'[z] = siblings[z] /\ eff'[z] = eff[z]
    BY <1>1 DEF Lawful, Typed
  <2> QED
    BY <1>1, <2>1, OthersHold
<1> QED
  BY <1>1, <1>2, <1>3, <1>5, <1>6, StepOfOne DEF InHand

----------------------------------------------------------------------------
(* Commits *)

\* The columns that differ from the loaded row go over those of the stored row.
Over(x, y, z) == [c \in DOMAIN z |-> IF y[c] # x[c] THEN y[c] ELSE z[c]]

LEMMA OverModelRow ==
    ASSUME NEW x \in ModelRow, NEW y \in ModelRow, NEW z \in ModelRow
    PROVE  /\ Over(x, y, z) \in ModelRow
           /\ Over(x, y, z).scope = IF y.scope # x.scope THEN y.scope ELSE z.scope
           /\ Over(x, y, z).active = IF y.active # x.active THEN y.active ELSE z.active
<1>1. DOMAIN z = {"scope", "name", "config", "active"}
  BY DEF ModelRow
<1>2. Over(x, y, z) =
        [scope |-> IF y.scope # x.scope THEN y.scope ELSE z.scope,
         name |-> IF y.name # x.name THEN y.name ELSE z.name,
         config |-> IF y.config # x.config THEN y.config ELSE z.config,
         active |-> IF y.active # x.active THEN y.active ELSE z.active]
  BY <1>1 DEF Over
<1> QED
  BY <1>2 DEF ModelRow

LEMMA OverPolicyRow ==
    ASSUME NEW x \in PolicyRow, NEW y \in PolicyRow, NEW z \in PolicyRow
    PROVE  /\ Over(x, y, z) \in PolicyRow
           /\ Over(x, y, z).version = IF y.version # x.version THEN y.version ELSE z.version
           /\ Over(x, y, z).frozen = IF y.frozen # x.frozen THEN y.frozen ELSE z.frozen
<1>1. DOMAIN z = {"version", "a", "b", "frozen"}
  BY DEF PolicyRow
<1>2. Over(x, y, z) =
        [version |-> IF y.version # x.version THEN y.version ELSE z.version,
         a |-> IF y.a # x.a THEN y.a ELSE z.a,
         b |-> IF y.b # x.b THEN y.b ELSE z.b,
         frozen |-> IF y.frozen # x.frozen THEN y.frozen ELSE z.frozen]
  BY <1>1 DEF Over
<1> QED
  BY <1>2 DEF PolicyRow

\* The row that a session inserts or updates is one of its scope, and active if
\* the session asked for that and nothing overlapped.
LEMMA UpdatedModel ==
    ASSUME Lawful, NEW s \in Sessions, pc[s] = "flushing", op[s].kind \in ModelKinds,
           Insert(s) \/ loaded[s].scope = op[s].scope
    PROVE  LET row == Updated(s, model[op[s].id])
           IN  /\ row \in ModelRow /\ row.scope = op[s].scope
               /\ op[s].active /\ <<"model", op[s].scope>> \notin raced => row.active
<1> DEFINE row == Updated(s, model[op[s].id])
<1>1. op[s] \in OpRow /\ HoldsModel(s) /\ op[s].scope \in Scopes
  BY DEF Lawful, Typed, Holds, InHand
<1>2. CASE Insert(s)
  <2>1. row = [scope |-> op[s].scope, name |-> op[s].name, config |-> s, active |-> op[s].active]
    BY <1>1, <1>2 DEF Updated, Assigned, HoldsModel
  <2>2. op[s].name \in Names /\ op[s].active \in BOOLEAN
    BY <1>1, <1>2 DEF HoldsModel, OpRow
  <2> QED
    BY <1>1, <2>1, <2>2 DEF ModelRow
<1>3. CASE ~Insert(s)
  <2> DEFINE old == model[op[s].id]
  <2> DEFINE new == Assigned(s)
  <2>1. loaded[s] \in ModelRow /\ old \in ModelRow /\ old.scope = op[s].scope
    BY <1>1, <1>3 DEF HoldsModel
  <2>2. op[s].active /\ <<"model", op[s].scope>> \notin raced => old.active = loaded[s].active
    BY <1>1, <1>3 DEF HoldsModel
  <2>3. new \in ModelRow /\ new.scope = op[s].scope /\ (op[s].active => new.active)
    <3>1. CASE op[s].kind = "activate"
      BY <1>3, <2>1, <3>1 DEF Assigned, ModelRow
    <3>2. CASE op[s].kind = "upsert"
      <4>1. new = [scope |-> op[s].scope, name |-> op[s].name, config |-> s, active |-> op[s].active]
        BY <3>2 DEF Assigned
      <4>2. op[s].name \in Names /\ op[s].active \in BOOLEAN
        BY <1>1, <1>3, <3>2 DEF HoldsModel, OpRow
      <4> QED
        BY <1>1, <4>1, <4>2 DEF ModelRow
    <3> QED
      BY <3>1, <3>2 DEF ModelKinds
  <2>4. row = Over(loaded[s], new, old)
    BY <1>3 DEF Updated, Over, ModelKinds
  <2> HIDE DEF row, old, new
  <2>5. row \in ModelRow /\ row.scope = op[s].scope
    BY <1>3, <2>1, <2>3, <2>4, OverModelRow
  <2>6. row.active = IF new.active # loaded[s].active THEN new.active ELSE old.active
    BY <2>1, <2>3, <2>4, OverModelRow
  <2>7. op[s].active /\ <<"model", op[s].scope>> \notin raced => row.active
    <3>1. new.active \in BOOLEAN /\ loaded[s].active \in BOOLEAN
      BY <2>1, <2>3 DEF ModelRow
    <3> QED
      BY <2>2, <2>3, <2>6, <3>1
  <2> QED
    BY <2>5, <2>7 DEF row
<1> QED
  BY <1>2, <1>3

\* A flush that is committed changes rows of the session's scope and leaves
\* them there.
LEMMA FlushedModels ==
    ASSUME Lawful, NEW s \in Sessions, pc[s] = "flushing", op[s].kind \in ModelKinds,
           Insert(s) \/ loaded[s].scope = op[s].scope
    PROVE  LET new == Flushed(s)
           IN  /\ new \in [Ids -> ModelRow \cup {None}]
               /\ op[s].id \in Ids /\ new[op[s].id] = Updated(s, model[op[s].id])
               /\ \A i \in Ids : new[i] # model[i] =>
                    /\ new[i] \in ModelRow /\ new[i].scope = op[s].scope
                    /\ model[i] = None => i = s
                    /\ model[i] # None => model[i].scope = op[s].scope
<1> DEFINE new == Flushed(s)
<1> DEFINE row == Updated(s, model[op[s].id])
<1>1. op[s] \in OpRow /\ HoldsModel(s) /\ model \in [Ids -> ModelRow \cup {None}]
  BY DEF Lawful, Typed, Holds, InHand
<1>2. row \in ModelRow /\ row.scope = op[s].scope
  BY UpdatedModel
<1>3. op[s].id \in Ids
  BY <1>1 DEF HoldsModel, Ids
<1>4. /\ model[op[s].id] = None => op[s].id = s
      /\ model[op[s].id] # None => model[op[s].id].scope = op[s].scope
  BY <1>1, SettingsAssumption DEF HoldsModel
<1>5. ASSUME NEW i \in siblings[s]
      PROVE  /\ i \in Ids /\ model[i] \in ModelRow /\ model[i].scope = op[s].scope
             /\ [model[i] EXCEPT !.active = FALSE] \in ModelRow
             /\ [model[i] EXCEPT !.active = FALSE].scope = op[s].scope
  <2>1. i \in Ids /\ model[i] \in ModelRow /\ model[i].scope = op[s].scope
    BY <1>1 DEF HoldsModel, Affected
  <2> QED
    BY <2>1 DEF ModelRow
<1>6. \A i \in Ids : new[i] = IF i = op[s].id THEN row
                              ELSE IF i \in siblings[s] THEN [model[i] EXCEPT !.active = FALSE] ELSE model[i]
  BY DEF Flushed
<1>7. DOMAIN new = Ids
  BY DEF Flushed
<1>8. new = [i \in Ids |-> new[i]]
  BY DEF Flushed
<1> HIDE DEF row, new
<1>9. \A i \in Ids : new[i] \in ModelRow \cup {None}
  BY <1>1, <1>2, <1>5, <1>6
<1>10. ASSUME NEW i \in Ids, new[i] # model[i]
       PROVE  /\ new[i] \in ModelRow /\ new[i].scope = op[s].scope
              /\ model[i] = None => i = s
              /\ model[i] # None => model[i].scope = op[s].scope
  <2>1. CASE i = op[s].id
    BY <1>2, <1>4, <1>6, <2>1
  <2>2. CASE i # op[s].id /\ i \in siblings[s]
    BY <1>5, <1>6, <2>2, SettingsAssumption
  <2> QED
    BY <1>6, <1>10, <2>1, <2>2
<1>11. new \in [Ids -> ModelRow \cup {None}]
  BY <1>8, <1>9
<1> QED
  BY <1>3, <1>6, <1>10, <1>11 DEF new, row

\* What a session holds survives another's commit: its row may be changed, but
\* then the two overlap.
LEMMA CommittedModelsHold ==
    ASSUME Lawful, NEW s \in Sessions, CommitModel(s), Insert(s) \/ loaded[s].scope = op[s].scope,
           NEW z \in Sessions \ {s}
    PROVE  Holds(z)'
<1>1. /\ pc[s] = "flushing" /\ Table(op[s].kind) = "model" /\ model' = Flushed(s)
      /\ UNCHANGED <<policy, eff, raced>>
      /\ op'[z] = op[z] /\ pc'[z] = pc[z] /\ loaded'[z] = loaded[z] /\ siblings'[z] = siblings[z]
  BY DEF CommitModel, Close, Goto, Lawful, Typed
<1>2. op[s].kind \in ModelKinds
  BY <1>1 DEF Table, ModelKinds
<1>3. /\ \A i \in Ids : model'[i] # model[i] =>
            /\ model'[i] \in ModelRow /\ model'[i].scope = op[s].scope
            /\ model[i] = None => i = s
            /\ model[i] # None => model[i].scope = op[s].scope
  BY <1>1, <1>2, FlushedModels
<1>4. Holds(z) /\ z \in Ids
  BY DEF Lawful, Ids
<1>5. model[z] = None => model'[z] = None
  BY <1>3, <1>4
<1>6. Insert(z)' = Insert(z) /\ Owner(z)' = Owner(z) /\ Affected(z)' = Affected(z)
  BY <1>1 DEF Insert, Owner, Affected
<1>7. ASSUME NEW i \in Ids, model[i] \in ModelRow
      PROVE  model'[i] \in ModelRow /\ model'[i].scope = model[i].scope
  BY <1>3, <1>7, SettingsAssumption
<1>8. ASSUME pc[z] \in InHand, op[z].kind \in ModelKinds
      PROVE  HoldsModel(z)'
  <2>1. HoldsModel(z) /\ op[z].scope \in Scopes
    BY <1>4, <1>8 DEF Holds
  <2>2. ASSUME ~Insert(z), loaded[z].scope = op[z].scope, <<"model", op[z].scope>> \notin raced
        PROVE  model'[op[z].id] = model[op[z].id]
    <3>1. /\ op[z].id \in Ids /\ model[op[z].id] \in ModelRow
          /\ model[op[z].id].scope = op[z].scope
      BY <2>1, <2>2 DEF HoldsModel
    <3>2. op[s].scope # op[z].scope
      BY <1>1, <1>2, <1>8, <2>2 DEF Lawful, RacesAreNoted, InHand, Table, ModelKinds
    <3> QED
      BY <1>3, <3>1, <3>2, SettingsAssumption
  <2> QED
    BY <1>1, <1>5, <1>6, <1>7, <2>1, <2>2 DEF HoldsModel
<1>9. HoldsPolicy(z) => HoldsPolicy(z)'
  BY <1>1, <1>6 DEF HoldsPolicy
<1> QED
  BY <1>1, <1>4, <1>5, <1>8, <1>9 DEF Holds

LEMMA CommitModelKeepsLawful ==
    ASSUME Lawful, NEW s \in Sessions, CommitModel(s)
    PROVE  Lawful'
<1>1. CASE ~Insert(s) /\ loaded[s].scope # op[s].scope
  BY <1>1, QuietCloseKeepsLawful DEF CommitModel
<1>2. CASE Insert(s) \/ loaded[s].scope = op[s].scope
  <2>1. model' = Flushed(s) /\ policy' = policy /\ Close(s, "done") /\ pc[s] = "flushing" /\ op[s].kind \in ModelKinds
    BY <1>2 DEF CommitModel, Table, ModelKinds
  <2>2. model' \in [Ids -> ModelRow \cup {None}]
    BY <1>2, <2>1, FlushedModels
  <2>3. \A z \in Sessions \ {s} : Holds(z)'
    BY <1>2, CommittedModelsHold
  <2> QED
    BY <2>1, <2>2, <2>3, CloseKeepsLawful DEF Lawful, Typed
<1> QED
  BY <1>1, <1>2

\* The policy that is written: the immutable mark of the stored row stays, and
\* the version of a tenant's policy goes up from the one that was loaded.
LEMMA UpdatedPolicy ==
    ASSUME Lawful, NEW s \in Sessions, pc[s] = "flushing", op[s].kind \in PolicyKinds,
           Insert(s) => policy[op[s].scope] = None
    PROVE  LET old == policy[op[s].scope]
               row == Updated(s, old)
           IN  /\ row \in PolicyRow
               /\ old # None => row.frozen = old.frozen
               /\ old # None /\ op[s].scope # Global /\ <<"policy", op[s].scope>> \notin raced =>
                    row.version > old.version
<1> DEFINE old == policy[op[s].scope]
<1> DEFINE row == Updated(s, old)
<1> DEFINE new == Assigned(s)
<1>1. op[s] \in OpRow /\ HoldsPolicy(s) /\ op[s].scope \in Scopes
  BY DEF Lawful, Typed, Holds, InHand
<1>2. new = [version |-> IF op[s].scope = Global THEN 0 ELSE IF Insert(s) THEN 1 ELSE loaded[s].version + 1,
             a |-> IF "a" \in op[s].cols THEN s ELSE loaded[s].a,
             b |-> IF "b" \in op[s].cols THEN s ELSE loaded[s].b,
             frozen |-> FALSE]
  BY DEF Assigned, PolicyKinds
<1>3. CASE Insert(s)
  <2>1. row = new /\ old = None
    BY <1>3 DEF Updated
  <2>2. new \in PolicyRow
    BY <1>1, <1>2, <1>3 DEF HoldsPolicy, PolicyRow
  <2> QED
    BY <2>1, <2>2
<1>4. CASE ~Insert(s)
  <2>1. loaded[s] \in PolicyRow /\ ~loaded[s].frozen /\ old \in PolicyRow
    BY <1>1, <1>4 DEF HoldsPolicy
  <2>2. <<"policy", op[s].scope>> \notin raced => old.version = loaded[s].version
    BY <1>1, <1>4 DEF HoldsPolicy
  <2>3. new \in PolicyRow /\ new.frozen = FALSE
    BY <1>2, <1>4, <2>1 DEF PolicyRow
  <2>4. op[s].scope # Global => new.version = loaded[s].version + 1
    BY <1>2, <1>4
  <2>5. row = Over(loaded[s], new, old)
    BY <1>4 DEF Updated, Over, PolicyKinds
  <2> HIDE DEF row, old, new
  <2>6. row \in PolicyRow
    BY <2>1, <2>3, <2>5, OverPolicyRow
  <2>7. row.version = IF new.version # loaded[s].version THEN new.version ELSE old.version
    BY <2>1, <2>3, <2>5, OverPolicyRow
  <2>8. row.frozen = IF new.frozen # loaded[s].frozen THEN new.frozen ELSE old.frozen
    BY <2>1, <2>3, <2>5, OverPolicyRow
  <2>9. row.frozen = old.frozen
    <3>1. loaded[s].frozen \in BOOLEAN
      BY <2>1 DEF PolicyRow
    <3> QED
      BY <2>1, <2>3, <2>8, <3>1
  <2>10. op[s].scope # Global /\ <<"policy", op[s].scope>> \notin raced => row.version > old.version
    <3>1. loaded[s].version \in Nat
      BY <2>1 DEF PolicyRow
    <3> QED
      BY <2>2, <2>4, <2>7, <3>1
  <2> QED
    BY <2>6, <2>9, <2>10 DEF row, old
<1> QED
  BY <1>3, <1>4

LEMMA CommitPolicyKeepsLawful ==
    ASSUME Lawful, NEW s \in Sessions, CommitPolicy(s)
    PROVE  Lawful'
<1>1. CASE Insert(s) /\ policy[op[s].scope] # None
  BY <1>1, QuietCloseKeepsLawful DEF CommitPolicy
<1>2. CASE ~(Insert(s) /\ policy[op[s].scope] # None)
  <2> DEFINE row == Updated(s, policy[op[s].scope])
  <2>1. /\ pc[s] = "flushing" /\ op[s].kind \in PolicyKinds /\ model' = model
        /\ policy' = [policy EXCEPT ![op[s].scope] = row] /\ Close(s, "done")
    BY <1>2 DEF CommitPolicy, PolicyKinds
  <2>2. row \in PolicyRow /\ op[s].scope \in Scopes
    BY <1>2, <2>1, UpdatedPolicy DEF Lawful, Holds, InHand
  <2> HIDE DEF row
  <2>3. policy' \in [Scopes -> PolicyRow \cup {None}]
    BY <2>1, <2>2 DEF Lawful, Typed
  <2>4. ASSUME NEW z \in Sessions \ {s}
        PROVE  Holds(z)'
    <3>1. /\ op'[z] = op[z] /\ pc'[z] = pc[z] /\ loaded'[z] = loaded[z] /\ siblings'[z] = siblings[z]
          /\ eff' = eff /\ raced' = raced
      BY <2>1 DEF Close, Goto, Lawful, Typed
    <3>2. Holds(z)
      BY DEF Lawful
    <3>3. Insert(z)' = Insert(z) /\ Owner(z)' = Owner(z) /\ Affected(z)' = Affected(z)
      BY <3>1 DEF Insert, Owner, Affected
    <3>4. HoldsModel(z) => HoldsModel(z)'
      BY <2>1, <3>1, <3>3 DEF HoldsModel
    <3>5. ASSUME pc[z] \in InHand, op[z].kind \in PolicyKinds
          PROVE  HoldsPolicy(z)'
      <4>1. HoldsPolicy(z) /\ op[z].scope \in Scopes
        BY <3>2, <3>5 DEF Holds
      <4>2. CASE op[z].scope = op[s].scope
        <5>1. <<"policy", op[z].scope>> \in raced
          BY <2>1, <3>5, <4>2 DEF Lawful, RacesAreNoted, InHand, Table, PolicyKinds
        <5>2. policy'[op[z].scope] = row
          BY <2>1, <2>2, <4>2 DEF Lawful, Typed
        <5> QED
          BY <2>2, <3>1, <3>3, <4>1, <5>1, <5>2 DEF HoldsPolicy
      <4>3. CASE op[z].scope # op[s].scope
        <5>1. policy'[op[z].scope] = policy[op[z].scope]
          BY <2>1, <4>1, <4>3 DEF Lawful, Typed
        <5> QED
          BY <3>1, <3>3, <4>1, <5>1 DEF HoldsPolicy
      <4> QED
        BY <4>2, <4>3
    <3> QED
      BY <2>1, <3>1, <3>2, <3>4, <3>5 DEF Holds
  <2> QED
    BY <2>1, <2>3, <2>4, CloseKeepsLawful DEF Lawful, Typed
<1> QED
  BY <1>1, <1>2

\* The immutable mark is all that changes.
LEMMA FreezeKeepsLawful ==
    ASSUME Lawful, NEW t \in Scopes, Freeze(t)
    PROVE  Lawful'
<1>1. /\ policy[t] \in PolicyRow /\ UNCHANGED <<model, op, pc, loaded, siblings, eff, raced>>
      /\ policy' = [policy EXCEPT ![t] = [policy[t] EXCEPT !.frozen = TRUE]]
  BY DEF Freeze, Lawful, Typed
<1>2. [policy[t] EXCEPT !.frozen = TRUE] \in PolicyRow /\ [policy[t] EXCEPT !.frozen = TRUE].version = policy[t].version
  BY <1>1 DEF PolicyRow
<1>3. Typed'
  BY <1>1, <1>2 DEF Lawful, Typed
<1>4. ASSUME NEW z \in Sessions
      PROVE  Holds(z)'
  <2>1. Insert(z)' = Insert(z) /\ Owner(z)' = Owner(z) /\ Affected(z)' = Affected(z)
    BY <1>1 DEF Insert, Owner, Affected
  <2>2. HoldsModel(z) => HoldsModel(z)'
    BY <1>1, <2>1 DEF HoldsModel
  <2>3. ASSUME HoldsPolicy(z), op[z].scope \in Scopes
        PROVE  HoldsPolicy(z)'
    <3>1. policy'[op[z].scope] =
            IF op[z].scope = t THEN [policy[t] EXCEPT !.frozen = TRUE] ELSE policy[op[z].scope]
      BY <1>1, <2>3 DEF Lawful, Typed
    <3> QED
      BY <1>1, <1>2, <2>1, <2>3, <3>1 DEF HoldsPolicy
  <2> QED
    BY <1>1, <2>2, <2>3 DEF Lawful, Holds
<1>5. RacesAreNoted'
  BY <1>1 DEF Lawful, RacesAreNoted, Table
<1> QED
  BY <1>3, <1>4, <1>5 DEF Lawful

----------------------------------------------------------------------------

LEMMA InitIsLawful == Init => Lawful
<1> SUFFICES ASSUME Init
             PROVE  Lawful
  OBVIOUS
<1>1. PICK c \in Scenarios :
        /\ model = [i \in Ids |-> IF i \in Given THEN c.models[i] ELSE None]
        /\ op = [s \in Sessions |-> Request(c.asks[s], c.owners[s])]
  BY DEF Init
<1>2. c.models \in [Given -> ModelRow] /\ c.asks \in [Sessions -> AllKinds] /\ c.owners \in [Sessions -> Tenants]
  BY SettingsAssumption
<1>3. model \in [Ids -> ModelRow \cup {None}] /\ \A s \in Sessions : model[s] = None
  BY <1>1, <1>2, SettingsAssumption DEF Ids
<1>4. op \in [Sessions -> OpRow]
  <2>1. \A s \in Sessions : Request(c.asks[s], c.owners[s]) \in OpRow
    BY <1>2 DEF Request, OpRow
  <2> QED
    BY <1>1, <2>1
<1>5. DefaultPolicy \in PolicyRow
  BY DEF DefaultPolicy, PolicyRow
<1>6. /\ policy \in [Scopes -> PolicyRow \cup {None}] /\ pc = [s \in Sessions |-> "idle"]
      /\ loaded = [s \in Sessions |-> None] /\ siblings = [s \in Sessions |-> {}] /\ eff = [s \in Sessions |-> None]
  BY <1>5 DEF Init
<1>7. Typed
  BY <1>3, <1>4, <1>6 DEF Typed, Stages
<1>8. (\A s \in Sessions : Holds(s)) /\ RacesAreNoted
  BY <1>3, <1>6 DEF Holds, RacesAreNoted, InHand
<1> QED
  BY <1>7, <1>8 DEF Lawful

LEMMA StepKeepsLawful ==
    ASSUME Lawful, [Next]_vars
    PROVE  Lawful'
<1>1. CASE UNCHANGED vars
  <2>1. UNCHANGED <<model, policy, op, pc, loaded, siblings, eff, raced>>
    BY <1>1 DEF vars
  <2>2. Typed' /\ RacesAreNoted'
    BY <2>1 DEF Lawful, Typed, RacesAreNoted, Table
  <2>3. \A s \in Sessions : Holds(s)'
    BY <2>1, OthersHold
  <2> QED
    BY <2>2, <2>3 DEF Lawful
<1>2. ASSUME NEW s \in Sessions, Load(s)
      PROVE  Lawful'
  BY <1>2, LoadKeepsLawful, ResolutionKeepsLawful DEF Load, Resolve
<1>3. ASSUME NEW s \in Sessions, LockNextRow(s)
      PROVE  Lawful'
  <2>1. UNCHANGED <<model, policy, op, pc, loaded, siblings, eff, raced>>
    BY <1>3 DEF LockNextRow, tables
  <2>2. Typed' /\ RacesAreNoted'
    BY <2>1 DEF Lawful, Typed, RacesAreNoted, Table
  <2>3. \A z \in Sessions : Holds(z)'
    BY <2>1, OthersHold
  <2> QED
    BY <2>2, <2>3 DEF Lawful
<1>4. ASSUME NEW s \in Sessions, CommitFlags(s)
      PROVE  Lawful'
  BY <1>4, QuietCloseKeepsLawful DEF CommitFlags
<1>5. ASSUME NEW s \in Sessions, Lose(s)
      PROVE  Lawful'
  BY <1>5, QuietCloseKeepsLawful DEF Lose, tables
<1>6. ASSUME NEW s \in Sessions, Step(s)
      PROVE  Lawful'
  BY <1>3, <1>4, <1>6, FindKeepsLawful, StartKeepsLawful, CommitModelKeepsLawful, CommitPolicyKeepsLawful,
     ResolutionKeepsLawful DEF Step, Resolve
<1>7. ASSUME NEW t \in Scopes, Freeze(t)
      PROVE  Lawful'
  BY <1>7, FreezeKeepsLawful
<1> QED
  BY <1>1, <1>2, <1>5, <1>6, <1>7 DEF Next

\* The only steps that change a table the properties speak of.
LEMMA WhoWrites ==
    ASSUME Lawful, Next
    PROVE  /\ model' = model \/ \E s \in Sessions :
                /\ CommitModel(s) /\ (Insert(s) \/ loaded[s].scope = op[s].scope) /\ model' = Flushed(s)
                /\ pc[s] = "flushing" /\ op[s].kind \in ModelKinds
                /\ pc' = [pc EXCEPT ![s] = "done"]
           /\ \/ policy' = policy
              \/ \E s \in Sessions :
                   /\ CommitPolicy(s) /\ (Insert(s) => policy[op[s].scope] = None)
                   /\ policy' = [policy EXCEPT ![op[s].scope] = Updated(s, @)]
                   /\ pc[s] = "flushing" /\ op[s].kind \in PolicyKinds
                   /\ pc' = [pc EXCEPT ![s] = "done"] /\ raced' = raced
              \/ \E t \in Scopes : Freeze(t)
<1>1. ASSUME NEW s \in Sessions, Load(s)
      PROVE  UNCHANGED <<model, policy>>
  BY <1>1 DEF Load, LoadModel, LoadNamed, LoadPolicy, LoadFlags, Open, ResolvePipeline, tables
<1>2. ASSUME NEW s \in Sessions, FindSiblings(s) \/ StartFlush(s) \/ LockNextRow(s) \/ CommitFlags(s) \/ Lose(s)
      PROVE  UNCHANGED <<model, policy>>
  BY <1>2 DEF FindSiblings, StartFlush, LockNextRow, CommitFlags, Lose, tables
<1>3. ASSUME NEW s \in Sessions, ResolveTenant(s) \/ ResolveVersion(s) \/ ResolveFlags(s) \/ ResolveModel(s)
      PROVE  UNCHANGED <<model, policy>>
  BY <1>3 DEF ResolveTenant, ResolveVersion, ResolveFlags, ResolveModel, tables
<1>4. ASSUME NEW s \in Sessions, CommitModel(s), model' # model
      PROVE  /\ (Insert(s) \/ loaded[s].scope = op[s].scope) /\ model' = Flushed(s)
             /\ pc[s] = "flushing" /\ op[s].kind \in ModelKinds
             /\ pc' = [pc EXCEPT ![s] = "done"] /\ policy' = policy
  BY <1>4 DEF CommitModel, Close, Goto, Table, ModelKinds
<1>5. ASSUME NEW s \in Sessions, CommitPolicy(s), policy' # policy
      PROVE  /\ (Insert(s) => policy[op[s].scope] = None)
             /\ policy' = [policy EXCEPT ![op[s].scope] = Updated(s, @)]
             /\ pc[s] = "flushing" /\ op[s].kind \in PolicyKinds
             /\ pc' = [pc EXCEPT ![s] = "done"] /\ raced' = raced /\ model' = model
  BY <1>5 DEF CommitPolicy, Close, Goto, PolicyKinds
<1>6. ASSUME NEW s \in Sessions, CommitModel(s)
      PROVE  policy' = policy
  BY <1>6 DEF CommitModel
<1>7. ASSUME NEW s \in Sessions, CommitPolicy(s)
      PROVE  model' = model
  BY <1>7 DEF CommitPolicy
<1>8. ASSUME NEW t \in Scopes, Freeze(t)
      PROVE  model' = model
  BY <1>8 DEF Freeze
<1>9. \/ UNCHANGED <<model, policy>>
      \/ \E s \in Sessions : CommitModel(s)
      \/ \E s \in Sessions : CommitPolicy(s)
      \/ \E t \in Scopes : Freeze(t)
  BY <1>1, <1>2, <1>3 DEF Next, Step
<1>10. model' = model \/ \E s \in Sessions : CommitModel(s)
  BY <1>7, <1>8, <1>9
<1>11. policy' = policy \/ (\E s \in Sessions : CommitPolicy(s)) \/ \E t \in Scopes : Freeze(t)
  BY <1>6, <1>9
<1> QED
  BY <1>4, <1>5, <1>10, <1>11

LEMMA TenantsStayApart ==
    ASSUME Lawful, Next
    PROVE  TenantsAreIsolated
<1> SUFFICES ASSUME NEW i \in Ids, NEW s \in Sessions, pc[s] # pc'[s], model'[i] # model[i]
             PROVE  /\ pc'[s] = "done"
                    /\ model'[i].scope \in {Owner(s), Global}
                    /\ model'[i].scope = op[s].scope
                    /\ model[i] # None => model'[i].scope = model[i].scope
  BY DEF TenantsAreIsolated
<1>1. PICK z \in Sessions :
        /\ Insert(z) \/ loaded[z].scope = op[z].scope
        /\ model' = Flushed(z) /\ pc[z] = "flushing" /\ op[z].kind \in ModelKinds
        /\ pc' = [pc EXCEPT ![z] = "done"]
  BY WhoWrites
<1>2. z = s /\ pc'[s] = "done"
  BY <1>1 DEF Lawful, Typed
<1>3. model'[i].scope = op[s].scope /\ (model[i] # None => model[i].scope = op[s].scope)
  BY <1>1, <1>2, FlushedModels
<1>4. op[s].scope \in {Owner(s), Global}
  BY <1>1, <1>2 DEF Lawful, Holds, HoldsModel, InHand
<1> QED
  BY <1>2, <1>3, <1>4

LEMMA FrozenStands ==
    ASSUME Lawful, Next
    PROVE  FrozenPolicyStands
<1> SUFFICES ASSUME NEW t \in Scopes, policy[t] # None, policy[t].frozen, policy'[t] # policy[t]
             PROVE  /\ policy'[t].frozen
                    /\ \E s \in Sessions : pc'[s] = "done" /\ pc[s] = "flushing" /\ op[s].scope = t /\ ~loaded[s].frozen
  BY DEF FrozenPolicyStands
<1>1. ~\E x \in Scopes : Freeze(x)
  BY DEF Freeze, Lawful, Typed
<1>2. PICK s \in Sessions :
        /\ Insert(s) => policy[op[s].scope] = None
        /\ policy' = [policy EXCEPT ![op[s].scope] = Updated(s, @)]
        /\ pc[s] = "flushing" /\ op[s].kind \in PolicyKinds
        /\ pc' = [pc EXCEPT ![s] = "done"]
  BY <1>1, WhoWrites
<1>3. t = op[s].scope /\ policy'[t] = Updated(s, policy[t])
  BY <1>2 DEF Lawful, Typed
<1>4. policy'[t].frozen = policy[t].frozen
  BY <1>2, <1>3, UpdatedPolicy
<1>5. ~loaded[s].frozen
  BY <1>2, <1>3 DEF Lawful, Holds, HoldsPolicy, InHand
<1> QED
  BY <1>2, <1>3, <1>4, <1>5 DEF Lawful, Typed

LEMMA VersionsGoUp ==
    ASSUME Lawful, Next
    PROVE  VersionsDiffer
<1> SUFFICES ASSUME NEW t \in Tenants, policy'[t] # policy[t], policy[t] # None,
                    policy'[t].frozen = policy[t].frozen, <<"policy", t>> \notin raced'
             PROVE  policy'[t].version > policy[t].version
  BY DEF VersionsDiffer
<1>1. t \in Scopes /\ t # Global
  BY SettingsAssumption DEF Scopes
<1>2. ~\E x \in Scopes : Freeze(x)
  <2> SUFFICES ASSUME NEW x \in Scopes, Freeze(x)
               PROVE  FALSE
    OBVIOUS
  <2>1. policy[x] \in PolicyRow /\ ~policy[x].frozen /\ policy' = [policy EXCEPT ![x] = [policy[x] EXCEPT !.frozen = TRUE]]
    BY DEF Freeze, Lawful, Typed
  <2>2. x = t
    BY <1>1, <2>1 DEF Lawful, Typed
  <2>3. policy'[t] = [policy[t] EXCEPT !.frozen = TRUE]
    BY <1>1, <2>1, <2>2 DEF Lawful, Typed
  <2>4. policy'[t].frozen = TRUE
    BY <2>1, <2>2, <2>3 DEF PolicyRow
  <2> QED
    BY <2>1, <2>2, <2>4
<1>3. PICK s \in Sessions :
        /\ Insert(s) => policy[op[s].scope] = None
        /\ policy' = [policy EXCEPT ![op[s].scope] = Updated(s, @)]
        /\ pc[s] = "flushing" /\ op[s].kind \in PolicyKinds /\ raced' = raced
  BY <1>2, WhoWrites
<1>4. t = op[s].scope /\ policy'[t] = Updated(s, policy[t])
  BY <1>1, <1>3 DEF Lawful, Typed
<1> QED
  BY <1>1, <1>3, <1>4, UpdatedPolicy

LEMMA NoGap ==
    ASSUME Lawful, Next
    PROVE  SwitchLeavesNoGap
<1> SUFFICES ASSUME NEW scope \in Scopes, Active(scope) # {}, Active(scope)' = {}, <<"model", scope>> \notin raced
             PROVE  \E s \in Sessions : op[s].kind = "upsert" /\ op[s].scope = scope /\ ~op[s].active /\ pc'[s] = "done"
  BY DEF SwitchLeavesNoGap
<1>1. PICK i \in Active(scope) : TRUE
  OBVIOUS
<1>2. i \in Ids /\ model[i] # None /\ model[i].scope = scope /\ model[i].active
  BY <1>1 DEF Active, Rows
<1>3. model'[i] # model[i]
  BY <1>2 DEF Active, Rows
<1>4. PICK s \in Sessions :
        /\ Insert(s) \/ loaded[s].scope = op[s].scope
        /\ model' = Flushed(s) /\ pc[s] = "flushing" /\ op[s].kind \in ModelKinds
        /\ pc' = [pc EXCEPT ![s] = "done"]
  BY <1>3, WhoWrites
<1>5. op[s].scope = scope
  BY <1>2, <1>3, <1>4, FlushedModels
<1>6. /\ op[s].id \in Ids /\ model'[op[s].id] \in ModelRow /\ model'[op[s].id].scope = scope
      /\ op[s].active => model'[op[s].id].active
  BY <1>4, <1>5, FlushedModels, UpdatedModel
<1>7. ~op[s].active
  BY <1>6, SettingsAssumption DEF Active, Rows
<1>8. op[s].kind = "upsert"
  BY <1>4, <1>7 DEF Lawful, Holds, HoldsModel, InHand, ModelKinds
<1> QED
  BY <1>4, <1>5, <1>7, <1>8 DEF Lawful, Typed

LEMMA OwnModelFirst ==
    ASSUME Lawful, Next
    PROVE  RoutedByOwnModel
<1> SUFFICES ASSUME NEW s \in Sessions, pc[s] = "read", pc'[s] = "done"
             PROVE  /\ eff'[s].model = None => Active(Owner(s)) \cup Active(Global) = {}
                    /\ eff'[s].model \in Active(Global) => Active(Owner(s)) = {}
  BY DEF RoutedByOwnModel
<1>1. ResolveModel(s)
  <2>1. ASSUME NEW z \in Sessions, Load(z)
        PROVE  FALSE
    BY <2>1 DEF Load, LoadModel, LoadNamed, LoadPolicy, LoadFlags, Open, ResolvePipeline, Goto, Lawful, Typed
  <2>2. ASSUME NEW z \in Sessions, Lose(z)
        PROVE  FALSE
    BY <2>2 DEF Lose, Close, Goto, Lawful, Typed
  <2>3. ASSUME NEW t \in Scopes, Freeze(t)
        PROVE  FALSE
    BY <2>3 DEF Freeze
  <2>4. ASSUME NEW z \in Sessions, FindSiblings(z) \/ StartFlush(z) \/ LockNextRow(z)
        PROVE  FALSE
    BY <2>4 DEF FindSiblings, StartFlush, LockNextRow, Close, Goto, Lawful, Typed
  <2>5. ASSUME NEW z \in Sessions, CommitModel(z) \/ CommitPolicy(z) \/ CommitFlags(z)
        PROVE  FALSE
    BY <2>5 DEF CommitModel, CommitPolicy, CommitFlags, Close, Goto, Lawful, Typed
  <2>6. ASSUME NEW z \in Sessions, ResolveTenant(z) \/ ResolveVersion(z) \/ ResolveFlags(z)
        PROVE  FALSE
    BY <2>6 DEF ResolveTenant, ResolveVersion, ResolveFlags
  <2>7. PICK z \in Sessions : ResolveModel(z)
    BY <2>1, <2>2, <2>3, <2>4, <2>5, <2>6 DEF Next, Step
  <2>8. z = s
    BY <2>7 DEF ResolveModel, Goto, Lawful, Typed
  <2> QED
    BY <2>7, <2>8
<1>2. CASE Preferred(s) = {}
  BY <1>2 DEF Preferred
<1>3. CASE Preferred(s) # {}
  <2>1. PICK i \in Preferred(s) : eff' = [eff EXCEPT ![s].model = i]
    BY <1>1, <1>3 DEF ResolveModel
  <2>2. "model" \in DOMAIN eff[s]
    BY <1>1 DEF ResolveModel, Lawful, Holds
  <2>3. eff'[s].model = i
    BY <2>1, <2>2 DEF Lawful, Typed
  <2>4. i \in Rows /\ i # None
    BY SettingsAssumption DEF Preferred, Active, Rows, Ids
  <2>5. Active(Owner(s)) # {} => i \notin Active(Global)
    <3>1. Owner(s) \in Tenants
      BY DEF Lawful, Typed, OpRow, Owner
    <3> QED
      BY <3>1, SettingsAssumption DEF Preferred, Active
  <2> QED
    BY <2>3, <2>4, <2>5
<1> QED
  BY <1>2, <1>3

\* However many administrators change models and policies at the same time: no
\* request touches another tenant's models, an immutable policy keeps its mark,
\* versions go up, a switch of models leaves no gap, and a run is governed by
\* its own tenant's model.
THEOREM LawfulChanges == Spec => ChangesAreLawful
<1>1. Lawful /\ [Next]_vars => Lawful'
  BY StepKeepsLawful
<1>2. Lawful /\ [Next]_vars =>
        [/\ TenantsAreIsolated /\ FrozenPolicyStands /\ VersionsDiffer /\ SwitchLeavesNoGap /\ RoutedByOwnModel]_vars
  BY TenantsStayApart, FrozenStands, VersionsGoUp, NoGap, OwnModelFirst
<1> QED
  BY <1>1, <1>2, InitIsLawful, PTL DEF Spec, ChangesAreLawful

----------------------------------------------------------------------------
(* Types of what the properties above do not speak of *)

\* The rest of the types: only tenants count the versions of their policies, and
\* the siblings that a session has found and the rows it has locked exist.
TypedToo ==
    /\ flags \in [Tenants -> FlagsRow \cup {None}]
    /\ DOMAIN held = Sessions
    /\ \A t \in Scopes : policy[t] # None => (t = Global <=> policy[t].version = 0)
    /\ \A s \in Sessions : siblings[s] \subseteq Rows /\ held[s] \subseteq Rows
    /\ \A s \in Sessions : pc[s] \in InHand /\ op[s].kind = "flags" => loaded[s] \in FlagsRow \cup {None}

\* No routing model is ever deleted.
LEMMA ModelsStay ==
    ASSUME Lawful, [Next]_vars
    PROVE  Rows \subseteq Rows'
<1>1. CASE UNCHANGED vars
  BY <1>1 DEF vars, Rows
<1>2. CASE Next
  <2>1. CASE model' = model
    BY <2>1 DEF Rows
  <2>2. CASE model' # model
    <3>1. PICK s \in Sessions : /\ (Insert(s) \/ loaded[s].scope = op[s].scope) /\ model' = Flushed(s)
                                /\ pc[s] = "flushing" /\ op[s].kind \in ModelKinds
      BY <1>2, <2>2, WhoWrites
    <3>2. \A i \in Ids : model'[i] # model[i] => model'[i] \in ModelRow
      BY <3>1, FlushedModels
    <3> QED
      BY <3>2, SettingsAssumption DEF Rows
  <2> QED
    BY <2>1, <2>2
<1> QED
  BY <1>1, <1>2

\* A policy that is written has version zero if it is the pipeline's only.
LEMMA UpdatedVersion ==
    ASSUME Lawful, TypedToo, NEW s \in Sessions, pc[s] = "flushing", op[s].kind \in PolicyKinds,
           Insert(s) => policy[op[s].scope] = None
    PROVE  op[s].scope = Global <=> Updated(s, policy[op[s].scope]).version = 0
<1> DEFINE old == policy[op[s].scope]
<1> DEFINE row == Updated(s, old)
<1> DEFINE new == Assigned(s)
<1>1. op[s] \in OpRow /\ HoldsPolicy(s) /\ op[s].scope \in Scopes
  BY DEF Lawful, Typed, Holds, InHand
<1>2. new = [version |-> IF op[s].scope = Global THEN 0 ELSE IF Insert(s) THEN 1 ELSE loaded[s].version + 1,
             a |-> IF "a" \in op[s].cols THEN s ELSE loaded[s].a,
             b |-> IF "b" \in op[s].cols THEN s ELSE loaded[s].b,
             frozen |-> FALSE]
  BY DEF Assigned, PolicyKinds
<1>3. CASE Insert(s)
  <2>1. row = new
    BY <1>3 DEF Updated
  <2> QED
    BY <1>2, <1>3, <2>1
<1>4. CASE ~Insert(s)
  <2>1. loaded[s] \in PolicyRow /\ old \in PolicyRow
    BY <1>1, <1>4 DEF HoldsPolicy
  <2>2. new \in PolicyRow
    BY <1>2, <1>4, <2>1 DEF PolicyRow
  <2>3. row = Over(loaded[s], new, old)
    BY <1>4 DEF Updated, Over, PolicyKinds
  <2>4. new.version = IF op[s].scope = Global THEN 0 ELSE loaded[s].version + 1
    BY <1>2, <1>4
  <2>5. op[s].scope = Global <=> old.version = 0
    BY <1>1, <2>1, SettingsAssumption DEF TypedToo
  <2> HIDE DEF row, old, new
  <2>6. row.version = IF new.version # loaded[s].version THEN new.version ELSE old.version
    BY <2>1, <2>2, <2>3, OverPolicyRow
  <2>7. loaded[s].version \in Nat
    BY <2>1 DEF PolicyRow
  <2>8. op[s].scope = Global <=> row.version = 0
    BY <2>4, <2>5, <2>6, <2>7
  <2> QED
    BY <2>8 DEF row, old
<1> QED
  BY <1>3, <1>4

\* A session that ends, whatever it has written.
LEMMA ClosedTypes ==
    ASSUME Lawful, TypedToo, NEW s \in Sessions, NEW stage, stage \notin InHand, Close(s, stage),
           Rows \subseteq Rows', flags' \in [Tenants -> FlagsRow \cup {None}],
           \A t \in Scopes : policy'[t] # None => (t = Global <=> policy'[t].version = 0)
    PROVE  TypedToo'
<1>1. /\ pc' = [pc EXCEPT ![s] = stage] /\ op' = [op EXCEPT ![s] = Request(@.kind, @.owner)]
      /\ loaded' = [loaded EXCEPT ![s] = None] /\ siblings' = [siblings EXCEPT ![s] = {}]
      /\ held' = [held EXCEPT ![s] = {}]
  BY DEF Close, Goto
<1>2. pc'[s] = stage
  BY <1>1 DEF Lawful, Typed
<1>3. \A z \in Sessions : siblings'[z] \subseteq siblings[z] /\ held'[z] \subseteq held[z]
  BY <1>1 DEF Lawful, Typed, TypedToo
<1>4. ASSUME NEW z \in Sessions, pc'[z] \in InHand, op'[z].kind = "flags"
      PROVE  loaded'[z] \in FlagsRow \cup {None}
  <2>1. z # s
    BY <1>2, <1>4
  <2>2. pc'[z] = pc[z] /\ op'[z] = op[z] /\ loaded'[z] = loaded[z]
    BY <1>1, <2>1 DEF Lawful, Typed
  <2> QED
    BY <1>4, <2>2 DEF TypedToo
<1>5. DOMAIN held' = Sessions
  BY <1>1 DEF TypedToo
<1> QED
  BY <1>3, <1>4, <1>5 DEF TypedToo

\* A session that has loaded a row.
LEMMA OpenedTypes ==
    ASSUME Lawful, TypedToo, NEW s \in Sessions, NEW request, NEW row, Open(s, request, row),
           request.kind = "flags" => row \in FlagsRow \cup {None}
    PROVE  TypedToo'
<1>1. /\ pc' = [pc EXCEPT ![s] = "loaded"] /\ op' = [op EXCEPT ![s] = request]
      /\ loaded' = [loaded EXCEPT ![s] = row] /\ UNCHANGED <<model, policy, flags, siblings, held>>
  BY DEF Open, Goto, tables
<1>2. Rows' = Rows
  BY <1>1 DEF Rows
<1>3. ASSUME NEW z \in Sessions, pc'[z] \in InHand, op'[z].kind = "flags"
      PROVE  loaded'[z] \in FlagsRow \cup {None}
  <2>1. CASE z = s
    BY <1>1, <1>3, <2>1 DEF Lawful, Typed
  <2>2. CASE z # s
    <3>1. pc'[z] = pc[z] /\ op'[z] = op[z] /\ loaded'[z] = loaded[z]
      BY <1>1, <2>2 DEF Lawful, Typed
    <3> QED
      BY <1>3, <3>1 DEF TypedToo
  <2> QED
    BY <2>1, <2>2
<1> QED
  BY <1>1, <1>2, <1>3 DEF TypedToo

LEMMA LoadedTypes ==
    ASSUME Lawful, TypedToo, NEW s \in Sessions, LoadModel(s) \/ LoadNamed(s) \/ LoadPolicy(s) \/ LoadFlags(s)
    PROVE  TypedToo'
<1>1. op[s] \in OpRow
  BY DEF Lawful, Typed
<1>2. \A x, y, z : [op[s] EXCEPT !.scope = x, !.id = y, !.active = z].kind = op[s].kind
  BY <1>1 DEF OpRow
<1>3. \A x, y, z, i : /\ [[op[s] EXCEPT !.scope = x, !.name = y, !.active = z] EXCEPT !.id = i].kind = op[s].kind
  BY <1>1 DEF OpRow
<1>4. \A x, y, z : /\ [op[s] EXCEPT !.scope = x, !.cols = y].kind = op[s].kind
                   /\ [op[s] EXCEPT !.scope = x, !.active = z, !.cols = y].kind = op[s].kind
  BY <1>1 DEF OpRow
<1>5. CASE LoadModel(s)
  <2>1. op[s].kind # "flags"
    BY <1>5 DEF LoadModel
  <2> QED
    BY <1>2, <1>5, <2>1, OpenedTypes DEF LoadModel
<1>6. CASE LoadNamed(s)
  <2>1. op[s].kind # "flags"
    BY <1>6 DEF LoadNamed
  <2>2. PICK scope \in {Owner(s), Global}, name \in Names, active \in BOOLEAN :
          LET found == {i \in Rows : model[i].scope = scope /\ model[i].name = name}
              request == [op[s] EXCEPT !.scope = scope, !.name = name, !.active = active]
          IN IF found = {} THEN Open(s, [request EXCEPT !.id = s], None)
             ELSE \E i \in found : Open(s, [request EXCEPT !.id = i], model[i])
    BY <1>6 DEF LoadNamed
  <2> DEFINE request(i) == [[op[s] EXCEPT !.scope = scope, !.name = name, !.active = active] EXCEPT !.id = i]
  <2>3. \E i, row : Open(s, request(i), row)
    BY <2>2
  <2>4. \A i : request(i).kind = op[s].kind
    BY <1>3
  <2> HIDE DEF request
  <2> QED
    BY <2>1, <2>3, <2>4, OpenedTypes
<1>7. CASE LoadPolicy(s)
  <2>1. op[s].kind # "flags"
    BY <1>7 DEF LoadPolicy
  <2> QED
    BY <1>4, <1>7, <2>1, OpenedTypes DEF LoadPolicy
<1>8. CASE LoadFlags(s)
  <2>1. flags[Owner(s)] \in FlagsRow \cup {None}
    BY <1>1 DEF TypedToo, Owner, OpRow
  <2> QED
    BY <1>4, <1>8, <2>1, OpenedTypes DEF LoadFlags
<1> QED
  BY <1>5, <1>6, <1>7, <1>8

\* The rest of the types is kept by every step.
LEMMA StepKeepsTypes ==
    ASSUME Lawful, TypedToo, [Next]_vars
    PROVE  TypedToo'
<1>0. Rows \subseteq Rows'
  BY ModelsStay
<1>1. CASE UNCHANGED vars
  BY <1>1 DEF vars, TypedToo, Rows
<1>2. ASSUME NEW s \in Sessions, UNCHANGED <<policy, flags, op, loaded, siblings>>, held' = held \/ \E i \in Rows : held' = [held EXCEPT ![s] = @ \cup {i}],
             pc' = pc \/ (\E stage : pc' = [pc EXCEPT ![s] = stage] /\ (stage \notin InHand \/ pc[s] \in InHand))
      PROVE  TypedToo'
  <2>1. \A z \in Sessions : held'[z] \subseteq Rows
    BY <1>2 DEF TypedToo
  <2>2. \A z \in Sessions : pc'[z] \in InHand => pc[z] \in InHand
    BY <1>2 DEF Lawful, Typed
  <2> QED
    BY <1>0, <1>2, <2>1, <2>2 DEF TypedToo
<1>3. ASSUME NEW s \in Sessions, FindSiblings(s)
      PROVE  TypedToo'
  <2>1. CASE Close(s, "failed")
    BY <1>0, <1>3, <2>1, ClosedTypes DEF FindSiblings, tables, TypedToo, InHand
  <2>2. CASE ~Close(s, "failed")
    <3>1. /\ pc[s] = "loaded" /\ UNCHANGED <<model, policy, flags, op, loaded, held>>
          /\ siblings' = [siblings EXCEPT ![s] = IF op[s].active THEN Active(Affected(s)) \ {op[s].id} ELSE {}]
          /\ pc' = [pc EXCEPT ![s] = "flushing"]
      BY <1>3, <2>2 DEF FindSiblings, Goto, tables, Affected
    <3>2. \A z \in Sessions : siblings'[z] \subseteq Rows
      BY <3>1 DEF TypedToo, Active
    <3>3. \A z \in Sessions : pc'[z] \in InHand => pc[z] \in InHand
      BY <3>1 DEF Lawful, Typed, InHand
    <3> QED
      BY <1>0, <3>1, <3>2, <3>3 DEF TypedToo
  <2> QED
    BY <2>1, <2>2
<1>4. ASSUME NEW s \in Sessions, StartFlush(s)
      PROVE  TypedToo'
  <2>1. /\ pc[s] = "loaded" /\ pc' = [pc EXCEPT ![s] = "flushing"] /\ UNCHANGED <<policy, flags, op, siblings, held>>
        /\ \A z \in Sessions : loaded'[z] \in {loaded[z], FlagDefaults}
        /\ \A z \in Sessions : z # s => loaded'[z] = loaded[z]
    BY <1>4 DEF StartFlush, Goto, tables, Lawful, Typed
  <2>2. FlagDefaults \in FlagsRow
    BY DEF FlagDefaults, FlagsRow
  <2>3. \A z \in Sessions : pc'[z] \in InHand => pc[z] \in InHand
    BY <2>1 DEF Lawful, Typed, InHand
  <2> QED
    BY <1>0, <2>1, <2>2, <2>3 DEF TypedToo
<1>5. ASSUME NEW s \in Sessions, LockNextRow(s)
      PROVE  TypedToo'
  <2>1. PICK i \in Dirty(s) : held' = [held EXCEPT ![s] = @ \cup {i}]
    BY <1>5 DEF LockNextRow
  <2>2. op[s].kind \in ModelKinds /\ pc[s] = "flushing"
    BY <1>5 DEF LockNextRow, Table, ModelKinds
  <2>3. ~Insert(s) => op[s].id \in Rows
    <3>1. HoldsModel(s)
      BY <2>2 DEF Lawful, Holds, InHand
    <3> QED
      BY <3>1, SettingsAssumption DEF HoldsModel, Rows
  <2>4. i \in Rows
    BY <2>1, <2>3 DEF Dirty, TypedToo
  <2> QED
    BY <1>2, <1>5, <2>1, <2>4 DEF LockNextRow, tables
<1>6. ASSUME NEW s \in Sessions, CommitModel(s) \/ Lose(s)
      PROVE  TypedToo'
  <2>1. UNCHANGED <<policy, flags>> /\ \E stage \in {"done", "failed"} : Close(s, stage)
    BY <1>6 DEF CommitModel, Lose, tables
  <2> QED
    BY <1>0, <2>1, ClosedTypes DEF TypedToo, InHand
<1>7. ASSUME NEW s \in Sessions, CommitPolicy(s)
      PROVE  TypedToo'
  <2>1. CASE Insert(s) /\ policy[op[s].scope] # None
    BY <1>0, <1>7, <2>1, ClosedTypes DEF CommitPolicy, TypedToo, InHand
  <2>2. CASE ~(Insert(s) /\ policy[op[s].scope] # None)
    <3> DEFINE row == Updated(s, policy[op[s].scope])
    <3>1. /\ pc[s] = "flushing" /\ op[s].kind \in PolicyKinds /\ flags' = flags
          /\ policy' = [policy EXCEPT ![op[s].scope] = row] /\ Close(s, "done")
      BY <1>7, <2>2 DEF CommitPolicy, PolicyKinds
    <3>2. op[s].scope = Global <=> row.version = 0
      BY <2>2, <3>1, UpdatedVersion
    <3> HIDE DEF row
    <3>3. \A t \in Scopes : policy'[t] # None => (t = Global <=> policy'[t].version = 0)
      BY <3>1, <3>2 DEF TypedToo, Lawful, Typed
    <3> QED
      BY <1>0, <3>1, <3>3, ClosedTypes DEF TypedToo, InHand
  <2> QED
    BY <2>1, <2>2
<1>8. ASSUME NEW s \in Sessions, CommitFlags(s)
      PROVE  TypedToo'
  <2>1. policy' = policy /\ \E stage \in {"done", "failed"} : Close(s, stage)
    BY <1>8 DEF CommitFlags
  <2>2. pc[s] = "flushing" /\ op[s].kind = "flags"
    BY <1>8 DEF CommitFlags
  <2>3. Assigned(s) = [c \in {"a", "b"} |-> IF c \in op[s].cols THEN s ELSE IF Insert(s) \/ ~op[s].active THEN None ELSE loaded[s][c]]
    BY <2>2 DEF Assigned
  <2>4. loaded[s] \in FlagsRow \cup {None}
    BY <2>2 DEF TypedToo, InHand
  <2>5. Assigned(s) \in FlagsRow
    BY <2>3, <2>4 DEF FlagsRow, Insert
  <2>6. Updated(s, flags[op[s].scope]) = Assigned(s)
    BY <2>2 DEF Updated
  <2>7. flags' = flags \/ flags' = [flags EXCEPT ![op[s].scope] = Updated(s, flags[op[s].scope])]
    BY <1>8 DEF CommitFlags
  <2>8. flags' \in [Tenants -> FlagsRow \cup {None}]
    BY <2>5, <2>6, <2>7 DEF TypedToo
  <2> QED
    BY <1>0, <2>1, <2>8, ClosedTypes DEF TypedToo, InHand
<1>9. ASSUME NEW t \in Scopes, Freeze(t)
      PROVE  TypedToo'
  <2>1. /\ policy[t] \in PolicyRow /\ UNCHANGED <<flags, op, pc, loaded, siblings, held>>
        /\ policy' = [policy EXCEPT ![t] = [policy[t] EXCEPT !.frozen = TRUE]]
    BY <1>9 DEF Freeze, Lawful, Typed
  <2>2. [policy[t] EXCEPT !.frozen = TRUE].version = policy[t].version
    BY <2>1 DEF PolicyRow
  <2>3. \A x \in Scopes : policy'[x] # None => (x = Global <=> policy'[x].version = 0)
    BY <2>1, <2>2, <1>9, SettingsAssumption DEF TypedToo, Lawful, Typed, Freeze
  <2> QED
    BY <1>0, <2>1, <2>3 DEF TypedToo
<1>10. ASSUME NEW s \in Sessions, ResolvePipeline(s)
       PROVE  TypedToo'
  <2>1. /\ pc' = [pc EXCEPT ![s] = "read"] /\ loaded' = [loaded EXCEPT ![s] = policy[Global]]
        /\ UNCHANGED <<policy, flags, op, siblings, held>>
    BY <1>10 DEF ResolvePipeline, Goto, tables
  <2>2. \A z \in Sessions : pc'[z] \in InHand => pc[z] \in InHand /\ loaded'[z] = loaded[z]
    BY <2>1 DEF Lawful, Typed, InHand
  <2> QED
    BY <1>0, <2>1, <2>2 DEF TypedToo
<1>11. ASSUME NEW s \in Sessions, ResolveTenant(s) \/ ResolveVersion(s) \/ ResolveFlags(s)
       PROVE  TypedToo'
  BY <1>2, <1>11 DEF ResolveTenant, ResolveVersion, ResolveFlags, tables
<1>12. ASSUME NEW s \in Sessions, ResolveModel(s)
       PROVE  TypedToo'
  <2>1. /\ pc' = [pc EXCEPT ![s] = "done"] /\ loaded' = [loaded EXCEPT ![s] = None]
        /\ UNCHANGED <<policy, flags, op, siblings, held>>
    BY <1>12 DEF ResolveModel, Goto, tables
  <2>2. \A z \in Sessions : pc'[z] \in InHand => pc[z] \in InHand /\ loaded'[z] = loaded[z]
    BY <2>1 DEF Lawful, Typed, InHand
  <2> QED
    BY <1>0, <2>1, <2>2 DEF TypedToo
<1>13. ASSUME NEW s \in Sessions, Load(s)
       PROVE  TypedToo'
  BY <1>10, <1>13, LoadedTypes DEF Load
<1>14. ASSUME NEW s \in Sessions, Step(s)
       PROVE  TypedToo'
  BY <1>3, <1>4, <1>5, <1>6, <1>7, <1>8, <1>11, <1>12, <1>14 DEF Step
<1> QED
  BY <1>1, <1>6, <1>9, <1>13, <1>14 DEF Next

----------------------------------------------------------------------------
(* One active model *)

\* A session that is to activate a model has seen all the others of the scope
\* that are active, unless changes of the scope overlapped.
SeesTheOthers(s) ==
    /\ pc[s] = "flushing" /\ op[s].kind \in ModelKinds /\ op[s].active
    /\ Insert(s) \/ loaded[s].scope = op[s].scope
    /\ <<"model", op[s].scope>> \notin raced
    => Active(op[s].scope) \ {op[s].id} \subseteq siblings[s]

OneIsActive == \A scope \in Scopes : <<"model", scope>> \notin raced => \A i, j \in Active(scope) : i = j

Alone == OneIsActive /\ \A s \in Sessions : SeesTheOthers(s)

LEMMA InitIsAlone == Init => Alone
<1> SUFFICES ASSUME Init
             PROVE  Alone
  OBVIOUS
<1>1. PICK c \in Scenarios : model = [i \in Ids |-> IF i \in Given THEN c.models[i] ELSE None]
  BY DEF Init
<1>2. \A scope : \A i \in Active(scope) : i \in Given /\ c.models[i].active /\ c.models[i].scope = scope
  BY <1>1 DEF Active, Rows, Ids
<1>3. OneIsActive
  BY <1>2, SettingsAssumption DEF OneIsActive
<1>4. \A s \in Sessions : pc[s] # "flushing"
  BY DEF Init
<1> QED
  BY <1>3, <1>4 DEF Alone, SeesTheOthers

\* A step that changes no model and takes nobody on to its flush.
LEMMA QuietStepIsAlone ==
    ASSUME Alone, model' = model, raced \subseteq raced',
           \A z \in Sessions : pc'[z] = "flushing" =>
                (pc[z] = "flushing" /\ op'[z] = op[z] /\ loaded'[z] = loaded[z] /\ siblings'[z] = siblings[z])
                \/ op'[z].kind \notin ModelKinds
    PROVE  Alone'
<1>1. \A scope : Active(scope)' = Active(scope)
  BY DEF Active, Rows
<1>2. OneIsActive'
  BY <1>1 DEF Alone, OneIsActive
<1>3. ASSUME NEW z \in Sessions, pc'[z] = "flushing", op'[z].kind \in ModelKinds
      PROVE  SeesTheOthers(z)'
  <2>1. pc[z] = "flushing" /\ op'[z] = op[z] /\ loaded'[z] = loaded[z] /\ siblings'[z] = siblings[z]
    BY <1>3
  <2>2. SeesTheOthers(z)
    BY DEF Alone
  <2> QED
    BY <1>1, <2>1, <2>2 DEF SeesTheOthers, Insert
<1>4. \A z \in Sessions : SeesTheOthers(z)'
  BY <1>3 DEF SeesTheOthers
<1> QED
  BY <1>2, <1>4 DEF Alone

\* A session finds its siblings.
LEMMA FindIsAlone ==
    ASSUME Lawful, Alone, NEW s \in Sessions, FindSiblings(s)
    PROVE  Alone'
<1>1. CASE Close(s, "failed")
  BY <1>1, QuietStepIsAlone DEF FindSiblings, Close, Goto, tables, Lawful, Typed
<1>2. CASE ~Close(s, "failed")
  <2>1. /\ UNCHANGED <<model, op, loaded, raced>>
        /\ siblings' = [siblings EXCEPT ![s] = IF op[s].active THEN Active(Affected(s)) \ {op[s].id} ELSE {}]
        /\ pc' = [pc EXCEPT ![s] = "flushing"]
    BY <1>2 DEF FindSiblings, Goto, tables, Affected
  <2>2. \A scope : Active(scope)' = Active(scope)
    BY <2>1 DEF Active, Rows
  <2>3. OneIsActive'
    BY <2>1, <2>2 DEF Alone, OneIsActive
  <2>4. ASSUME NEW z \in Sessions
        PROVE  SeesTheOthers(z)'
    <3>1. CASE z = s
      <4>1. siblings'[s] = IF op[s].active THEN Active(Affected(s)) \ {op[s].id} ELSE {}
        BY <2>1 DEF Lawful, Typed
      <4> QED
        BY <2>1, <2>2, <3>1, <4>1 DEF SeesTheOthers, Affected, Insert
    <3>2. CASE z # s
      <4>1. pc'[z] = pc[z] /\ siblings'[z] = siblings[z]
        BY <2>1, <3>2 DEF Lawful, Typed
      <4>2. SeesTheOthers(z)
        BY DEF Alone
      <4> QED
        BY <2>1, <2>2, <4>1, <4>2 DEF SeesTheOthers, Insert
    <3> QED
      BY <3>1, <3>2
  <2> QED
    BY <2>3, <2>4 DEF Alone
<1> QED
  BY <1>1, <1>2

\* A session switches its siblings off and its own model on, if it is to.
LEMMA CommitIsAlone ==
    ASSUME Lawful, Alone, NEW s \in Sessions, CommitModel(s)
    PROVE  Alone'
<1>1. CASE model' = model
  BY <1>1, QuietStepIsAlone DEF CommitModel, Close, Goto, Lawful, Typed
<1>2. CASE model' # model
  <2>1. /\ Insert(s) \/ loaded[s].scope = op[s].scope
        /\ model' = Flushed(s) /\ pc[s] = "flushing" /\ op[s].kind \in ModelKinds
    BY <1>2 DEF CommitModel, Table, ModelKinds
  <2>2. /\ op' = [op EXCEPT ![s] = Request(@.kind, @.owner)] /\ loaded' = [loaded EXCEPT ![s] = None]
        /\ siblings' = [siblings EXCEPT ![s] = {}] /\ raced' = raced /\ \E stage \in {"done", "failed"} : pc' = [pc EXCEPT ![s] = stage]
    BY DEF CommitModel, Close, Goto
  <2>0. PICK scope : scope = op[s].scope
    OBVIOUS
  <2>3. op[s] \in OpRow /\ scope \in Scopes /\ HoldsModel(s)
    BY <2>0, <2>1 DEF Lawful, Typed, Holds, InHand
  <2>4. \A i \in Ids : model'[i] # model[i] =>
            /\ model'[i] \in ModelRow /\ model'[i].scope = scope
            /\ model[i] # None => model[i].scope = scope
    BY <2>0, <2>1, FlushedModels
  <2>5. \A i \in Ids : model'[i] = IF i = op[s].id THEN Updated(s, model[i])
                                   ELSE IF i \in siblings[s] THEN [model[i] EXCEPT !.active = FALSE]
                                   ELSE model[i]
    BY <2>1 DEF Flushed
  <2>6. \A x \in Scopes : x # scope => Active(x)' = Active(x)
    BY <2>4, SettingsAssumption DEF Active, Rows
  <2>7. ASSUME <<"model", scope>> \notin raced
        PROVE  Active(scope)' \subseteq Active(scope) \/ Active(scope)' \subseteq {op[s].id}
    <3>1. \A i \in siblings[s] : i \in Ids /\ model[i] \in ModelRow
      BY <2>3 DEF HoldsModel
    <3>2. \A i \in siblings[s] : [model[i] EXCEPT !.active = FALSE].active = FALSE
      BY <3>1 DEF ModelRow
    <3>3. ASSUME NEW i \in Active(scope)', i # op[s].id
          PROVE  i \in Active(scope) /\ i \notin siblings[s]
      BY <2>5, <3>2, <3>3 DEF Active, Rows
    <3>4. CASE op[s].active
      <4>1. Active(scope) \ {op[s].id} \subseteq siblings[s]
        BY <2>0, <2>1, <2>7, <3>4 DEF Alone, SeesTheOthers
      <4> QED
        BY <3>3, <4>1
    <3>5. CASE ~op[s].active
      <4> DEFINE row == Updated(s, model[op[s].id])
      <4>1. op[s].kind = "upsert"
        BY <2>1, <2>3, <3>5 DEF HoldsModel, ModelKinds
      <4>2. op[s].active = FALSE
        BY <2>3, <3>5 DEF OpRow
      <4>3. Assigned(s) = [scope |-> op[s].scope, name |-> op[s].name, config |-> s, active |-> FALSE]
        BY <4>1, <4>2 DEF Assigned
      <4>4. row.active = FALSE
        <5>1. CASE Insert(s)
          BY <4>3, <5>1 DEF Updated
        <5>2. CASE ~Insert(s)
          <6>1. /\ loaded[s] \in ModelRow /\ model[op[s].id] \in ModelRow
                /\ model[op[s].id].active = loaded[s].active /\ op[s].name \in Names
            BY <2>0, <2>1, <2>3, <2>7, <4>1, <5>2 DEF HoldsModel
          <6>2. Assigned(s) \in ModelRow
            BY <2>0, <2>3, <4>3, <6>1 DEF ModelRow
          <6>3. row = Over(loaded[s], Assigned(s), model[op[s].id])
            BY <4>1, <5>2 DEF Updated, Over
          <6>4. row.active = IF Assigned(s).active # loaded[s].active THEN Assigned(s).active ELSE model[op[s].id].active
            BY <6>1, <6>2, <6>3, OverModelRow
          <6>5. loaded[s].active \in BOOLEAN /\ Assigned(s).active = FALSE
            BY <4>3, <6>1 DEF ModelRow
          <6> QED
            BY <6>1, <6>4, <6>5
        <5> QED
          BY <5>1, <5>2
      <4>5. op[s].id \notin Active(scope)'
        BY <2>5, <4>4 DEF Active, Rows
      <4> QED
        BY <3>3, <4>5
    <3> QED
      BY <3>4, <3>5
  <2>8. OneIsActive'
    <3> SUFFICES ASSUME NEW x \in Scopes, <<"model", x>> \notin raced, NEW i \in Active(x)', NEW j \in Active(x)'
                 PROVE  i = j
      BY <2>2 DEF OneIsActive
    <3>1. \A a, b \in Active(x) : a = b
      BY DEF Alone, OneIsActive
    <3>2. Active(x)' \subseteq Active(x) \/ Active(x)' \subseteq {op[s].id}
      BY <2>6, <2>7
    <3> QED
      BY <3>1, <3>2
  <2>9. ASSUME NEW z \in Sessions
        PROVE  SeesTheOthers(z)'
    <3>1. CASE z = s
      BY <2>2, <3>1 DEF SeesTheOthers, Lawful, Typed
    <3>2. CASE z # s
      <4>1. pc'[z] = pc[z] /\ op'[z] = op[z] /\ loaded'[z] = loaded[z] /\ siblings'[z] = siblings[z]
        BY <2>2, <3>2 DEF Lawful, Typed
      <4>2. SeesTheOthers(z)
        BY DEF Alone
      <4>3. ASSUME pc[z] = "flushing", op[z].kind \in ModelKinds, <<"model", op[z].scope>> \notin raced
            PROVE  Active(op[z].scope)' = Active(op[z].scope)
        <5>1. op[z].scope \in Scopes
          BY <4>3 DEF Lawful, Holds, InHand
        <5>2. op[z].scope # scope
          BY <2>0, <2>1, <3>2, <4>3 DEF Lawful, RacesAreNoted, InHand, Table, ModelKinds
        <5>3. PICK x : x = op[z].scope
          OBVIOUS
        <5>4. Active(x)' = Active(x)
          BY <2>6, <5>1, <5>2, <5>3
        <5> QED
          BY <4>1, <5>3, <5>4 DEF Active, Rows
      <4> QED
        BY <2>2, <4>1, <4>2, <4>3 DEF SeesTheOthers, Insert
    <3> QED
      BY <3>1, <3>2
  <2> QED
    BY <2>8, <2>9 DEF Alone
<1> QED
  BY <1>1, <1>2

LEMMA StepIsAlone ==
    ASSUME Lawful, Alone, [Next]_vars
    PROVE  Alone'
<1> USE DEF Goto, Lawful, Typed
<1>1. CASE UNCHANGED vars
  BY <1>1, QuietStepIsAlone DEF vars
<1>2. ASSUME NEW s \in Sessions, NEW request, NEW row, Open(s, request, row)
      PROVE  Alone'
  BY <1>2, QuietStepIsAlone DEF Open, tables
<1>3. ASSUME NEW s \in Sessions, LoadModel(s) \/ LoadNamed(s) \/ LoadPolicy(s) \/ LoadFlags(s)
      PROVE  Alone'
  BY <1>2, <1>3 DEF LoadModel, LoadNamed, LoadPolicy, LoadFlags
<1>4. ASSUME NEW s \in Sessions, Resolve(s)
      PROVE  Alone'
  <2>1. /\ UNCHANGED <<model, op, siblings, raced>>
        /\ \A z \in Sessions : pc'[z] = "flushing" => pc[z] = "flushing" /\ loaded'[z] = loaded[z]
    BY <1>4 DEF Resolve, ResolvePipeline, ResolveTenant, ResolveVersion, ResolveFlags, ResolveModel, tables
  <2> QED
    BY <2>1, QuietStepIsAlone
<1>5. ASSUME NEW s \in Sessions, StartFlush(s)
      PROVE  Alone'
  <2>1. op[s].kind \notin ModelKinds
    BY <1>5 DEF StartFlush, Table, ModelKinds
  <2> QED
    BY <1>5, <2>1, QuietStepIsAlone DEF StartFlush, tables
<1>6. ASSUME NEW s \in Sessions, LockNextRow(s)
      PROVE  Alone'
  BY <1>6, QuietStepIsAlone DEF LockNextRow, tables
<1>7. ASSUME NEW s \in Sessions, CommitPolicy(s) \/ CommitFlags(s) \/ Lose(s)
      PROVE  Alone'
  <2>1. model' = model /\ \E stage \in {"done", "failed"} : Close(s, stage)
    BY <1>7 DEF CommitPolicy, CommitFlags, Lose, tables
  <2> QED
    BY <2>1, QuietStepIsAlone DEF Close
<1>8. ASSUME NEW t \in Scopes, Freeze(t)
      PROVE  Alone'
  BY <1>8, QuietStepIsAlone DEF Freeze
<1> QED
  BY <1>1, <1>3, <1>4, <1>5, <1>6, <1>7, <1>8, FindIsAlone, CommitIsAlone DEF Next, Load, Step, Resolve

----------------------------------------------------------------------------
(* What a resolution has read *)

\* What was taken from the tenant's policy, and the version of a row.
Taken(e, tenant, pipeline) ==
    /\ e.a = (IF tenant # None /\ tenant.a # None THEN tenant.a ELSE pipeline.a)
    /\ e.b = (IF tenant # None THEN tenant.b ELSE pipeline.b)
VersionOf(row) == IF row # None THEN row.version ELSE None

Policies == [Scopes -> PolicyRow \cup {None}]

\* Policies as they were committed, one after another: none is ever deleted.
Grown(history) ==
    \A i, j \in 1..Len(history) : i <= j =>
        \A t \in Scopes : history[i][t] # None => history[j][t] # None

\* The settings of a run: content of one entry of the history, version of this
\* or of a later one.
ComesFrom(e, history, t, pipeline) ==
    \E i \in 1..Len(history) :
        /\ Taken(e, history[i][t], pipeline)
        /\ e.due # "version" => \E j \in i..Len(history) : e.version = VersionOf(history[j][t])

\* A session that resolves has noted every policy that was committed since it
\* began, the stored one as the last.
ReadingIsNoted(s) ==
    /\ pc[s] = "idle" => eff[s] = None
    /\ pc[s] = "read" =>
        /\ seen[s] \in Seq(Policies) /\ Len(seen[s]) > 0 /\ Grown(seen[s])
        /\ loaded[s] = seen[s][1][Global] /\ policy = seen[s][Len(seen[s])]
        /\ eff[s] # None =>
            /\ {"a", "b", "version", "due"} \subseteq DOMAIN eff[s]
            /\ ComesFrom(eff[s], seen[s], Owner(s), loaded[s])

ReadingsAreNoted == DOMAIN seen = Sessions /\ \A s \in Sessions : ReadingIsNoted(s)

\* No policy is ever deleted.
LEMMA PoliciesStay ==
    ASSUME Lawful, [Next]_vars
    PROVE  /\ policy' \in Policies
           /\ \A t \in Scopes : policy[t] # None => policy'[t] # None
<1>1. policy' \in Policies
  BY StepKeepsLawful DEF Lawful, Typed, Policies
<1>2. CASE policy' = policy
  BY <1>1, <1>2
<1>3. ASSUME NEW s \in Sessions, policy' = [policy EXCEPT ![op[s].scope] = Updated(s, @)], Insert(s) => policy[op[s].scope] = None,
             pc[s] = "flushing", op[s].kind \in PolicyKinds
      PROVE  \A t \in Scopes : policy[t] # None => policy'[t] # None
  <2>1. Updated(s, policy[op[s].scope]) # None
    BY <1>3, UpdatedPolicy, SettingsAssumption
  <2> QED
    BY <1>3, <2>1 DEF Lawful, Typed
<1>4. ASSUME NEW x \in Scopes, Freeze(x)
      PROVE  \A t \in Scopes : policy[t] # None => policy'[t] # None
  <2>1. policy[x] \in PolicyRow /\ policy' = [policy EXCEPT ![x] = [policy[x] EXCEPT !.frozen = TRUE]]
    BY <1>4 DEF Freeze, Lawful, Typed
  <2>2. [policy[x] EXCEPT !.frozen = TRUE] \in PolicyRow
    BY <2>1 DEF PolicyRow
  <2> QED
    BY <2>1, <2>2, SettingsAssumption DEF Lawful, Typed
<1>5. CASE Next
  BY <1>1, <1>2, <1>3, <1>4, <1>5, WhoWrites
<1> QED
  BY <1>2, <1>5 DEF vars

\* A policy more at the end of a history.
LEMMA HistoryGrows ==
    ASSUME NEW history \in Seq(Policies), Len(history) > 0, Grown(history), NEW new \in Policies,
           \A t \in Scopes : history[Len(history)][t] # None => new[t] # None
    PROVE  LET more == Append(history, new)
           IN  /\ more \in Seq(Policies) /\ Len(more) > 0 /\ Grown(more)
               /\ more[1] = history[1] /\ more[Len(more)] = new
               /\ \A e, t, pipeline : ComesFrom(e, history, t, pipeline) => ComesFrom(e, more, t, pipeline)
<1> DEFINE more == Append(history, new)
<1>1. /\ more \in Seq(Policies) /\ Len(more) = Len(history) + 1 /\ Len(history) \in Nat
      /\ \A i \in 1..Len(history) : more[i] = history[i]
      /\ more[Len(history) + 1] = new
  OBVIOUS
<1> HIDE DEF more
<1>2. Grown(more)
  <2> SUFFICES ASSUME NEW i \in 1..Len(more), NEW j \in 1..Len(more), i <= j, NEW t \in Scopes, more[i][t] # None
               PROVE  more[j][t] # None
    BY DEF Grown
  <2>1. CASE j \in 1..Len(history)
    <3>1. i \in 1..Len(history)
      BY <1>1, <2>1
    <3> QED
      BY <1>1, <2>1, <3>1 DEF Grown
  <2>2. CASE j = Len(history) + 1 /\ i \in 1..Len(history)
    <3>1. Len(history) \in 1..Len(history) /\ i <= Len(history)
      BY <1>1, <2>2
    <3>2. history[Len(history)][t] # None
      BY <1>1, <2>2, <3>1 DEF Grown
    <3> QED
      BY <1>1, <2>2, <3>2
  <2>3. CASE j = Len(history) + 1 /\ i = Len(history) + 1
    BY <2>3
  <2> QED
    BY <1>1, <2>1, <2>2, <2>3
<1>3. ASSUME NEW e, NEW t, NEW pipeline, ComesFrom(e, history, t, pipeline)
      PROVE  ComesFrom(e, more, t, pipeline)
  <2>1. PICK i \in 1..Len(history) :
            /\ Taken(e, history[i][t], pipeline)
            /\ e.due # "version" => \E j \in i..Len(history) : e.version = VersionOf(history[j][t])
    BY <1>3 DEF ComesFrom
  <2>2. i \in 1..Len(more) /\ more[i] = history[i]
    BY <1>1
  <2>3. ASSUME NEW j \in i..Len(history)
        PROVE  j \in i..Len(more) /\ more[j] = history[j]
    BY <1>1
  <2> QED
    BY <2>1, <2>2, <2>3 DEF ComesFrom
<1>4. Len(more) > 0 /\ more[1] = history[1] /\ more[Len(more)] = new
  BY <1>1
<1> QED
  BY <1>1, <1>2, <1>3, <1>4 DEF more

\* Another session's step, with the policies noted.
LEMMA OthersAreNoted ==
    ASSUME Lawful, [Next]_vars, ReadingsAreNoted,
           NEW z \in Sessions, pc'[z] = pc[z], op'[z] = op[z], loaded'[z] = loaded[z], eff'[z] = eff[z],
           \/ policy' = policy /\ seen'[z] = seen[z]
           \/ seen'[z] = Noting[z]
    PROVE  ReadingIsNoted(z)'
<1>1. ReadingIsNoted(z) /\ Owner(z)' = Owner(z)
  BY DEF ReadingsAreNoted, Owner
<1>2. CASE pc[z] = "read" /\ policy' # policy
  <2>1. seen'[z] = Append(seen[z], policy')
    BY <1>2 DEF Noting
  <2>2. /\ seen[z] \in Seq(Policies) /\ Len(seen[z]) > 0 /\ Grown(seen[z])
        /\ loaded[z] = seen[z][1][Global] /\ policy = seen[z][Len(seen[z])]
    BY <1>1, <1>2 DEF ReadingIsNoted
  <2>3. /\ seen'[z] \in Seq(Policies) /\ Len(seen'[z]) > 0 /\ Grown(seen'[z])
        /\ seen'[z][1] = seen[z][1] /\ seen'[z][Len(seen'[z])] = policy'
        /\ \A e, t, pipeline : ComesFrom(e, seen[z], t, pipeline) => ComesFrom(e, seen'[z], t, pipeline)
    BY <2>1, <2>2, PoliciesStay, HistoryGrows
  <2>4. Grown(seen[z])'
    BY <2>3 DEF Grown
  <2>5. ComesFrom(eff[z], seen[z], Owner(z), loaded[z]) => ComesFrom(eff[z], seen[z], Owner(z), loaded[z])'
    <3>1. ComesFrom(eff[z], seen[z], Owner(z), loaded[z]) => ComesFrom(eff[z], seen'[z], Owner(z), loaded[z])
      BY <2>3
    <3> QED
      BY <1>1, <3>1 DEF ComesFrom, Taken, VersionOf
  <2> QED
    BY <1>1, <1>2, <2>2, <2>3, <2>4, <2>5 DEF ReadingIsNoted, Policies, Scopes
<1>3. CASE pc[z] = "read" /\ policy' = policy
  <2>1. seen'[z] = seen[z]
    BY <1>3 DEF Noting
  <2>2. Grown(seen[z])' = Grown(seen[z])
    BY <2>1 DEF Grown
  <2>3. ComesFrom(eff[z], seen[z], Owner(z), loaded[z])' = ComesFrom(eff[z], seen[z], Owner(z), loaded[z])
    BY <1>1, <2>1 DEF ComesFrom, Taken, VersionOf
  <2> QED
    BY <1>1, <1>3, <2>1, <2>2, <2>3 DEF ReadingIsNoted
<1>4. CASE pc[z] # "read"
  BY <1>1, <1>4 DEF ReadingIsNoted
<1> QED
  BY <1>2, <1>3, <1>4

LEMMA ClosedIsNoted ==
    ASSUME Lawful, [Next]_vars, ReadingsAreNoted, NEW s \in Sessions, NEW stage \in {"done", "failed"}, Close(s, stage)
    PROVE  ReadingsAreNoted'
<1>1. /\ pc' = [pc EXCEPT ![s] = stage] /\ op' = [op EXCEPT ![s] = Request(@.kind, @.owner)]
      /\ loaded' = [loaded EXCEPT ![s] = None] /\ eff' = eff /\ seen' = [Noting EXCEPT ![s] = <<>>]
  BY DEF Close, Goto
<1>2. pc'[s] = stage /\ DOMAIN seen' = Sessions
  BY <1>1 DEF Lawful, Typed, Noting
<1>3. ASSUME NEW z \in Sessions, z # s
      PROVE  ReadingIsNoted(z)'
  <2>1. pc'[z] = pc[z] /\ op'[z] = op[z] /\ loaded'[z] = loaded[z] /\ eff'[z] = eff[z] /\ seen'[z] = Noting[z]
    BY <1>1, <1>3 DEF Lawful, Typed, Noting
  <2> QED
    BY <2>1, OthersAreNoted
<1>4. ReadingIsNoted(s)'
  BY <1>2 DEF ReadingIsNoted
<1> QED
  BY <1>2, <1>3, <1>4 DEF ReadingsAreNoted

\* A step that leaves the policies alone and takes no session into a resolution
\* or on with one.
LEMMA QuietStepIsNoted ==
    ASSUME Lawful, [Next]_vars, ReadingsAreNoted, UNCHANGED <<policy, eff, seen>>,
           NEW s \in Sessions, pc[s] # "read", pc'[s] \notin {"idle", "read"},
           \A z \in Sessions : z # s => pc'[z] = pc[z] /\ op'[z] = op[z] /\ loaded'[z] = loaded[z]
    PROVE  ReadingsAreNoted'
<1>1. \A z \in Sessions : z # s => ReadingIsNoted(z)'
  BY OthersAreNoted
<1>2. ReadingIsNoted(s)'
  BY DEF ReadingIsNoted
<1> QED
  BY <1>1, <1>2 DEF ReadingsAreNoted

\* A session that goes on with a resolution, as far as the others are concerned.
LEMMA ResolutionIsItsOwn ==
    ASSUME Lawful, [Next]_vars, ReadingsAreNoted, NEW s \in Sessions, Resolve(s), ReadingIsNoted(s)'
    PROVE  ReadingsAreNoted'
<1>1. UNCHANGED <<policy, op>> /\ DOMAIN seen' = Sessions
  BY DEF Resolve, ResolvePipeline, ResolveTenant, ResolveVersion, ResolveFlags, ResolveModel, ReadingsAreNoted, tables
<1>2. ASSUME NEW z \in Sessions, z # s
      PROVE  ReadingIsNoted(z)'
  <2>1. pc'[z] = pc[z] /\ loaded'[z] = loaded[z] /\ eff'[z] = eff[z] /\ seen'[z] = seen[z]
    BY <1>2 DEF Resolve, ResolvePipeline, ResolveTenant, ResolveVersion, ResolveFlags, ResolveModel, Goto, tables,
                Lawful, Typed, ReadingsAreNoted
  <2> QED
    BY <1>1, <2>1, OthersAreNoted
<1> QED
  BY <1>1, <1>2 DEF ReadingsAreNoted

\* A session that is reading on, with nothing new to note.
LEMMA ReadingOnIsNoted ==
    ASSUME ReadingsAreNoted, NEW s \in Sessions, pc[s] = "read",
           UNCHANGED <<policy, op, loaded, seen, pc>>, {"a", "b", "version", "due"} \subseteq DOMAIN eff'[s],
           ComesFrom(eff'[s], seen[s], Owner(s), loaded[s])
    PROVE  ReadingIsNoted(s)'
<1>1. Owner(s)' = Owner(s) /\ ReadingIsNoted(s)
  BY DEF Owner, ReadingsAreNoted
<1>2. Grown(seen[s])' = Grown(seen[s])
  BY DEF Grown
<1>3. ComesFrom(eff[s], seen[s], Owner(s), loaded[s])'
  BY <1>1 DEF ComesFrom, Taken, VersionOf
<1> QED
  BY <1>1, <1>2, <1>3 DEF ReadingIsNoted

LEMMA ResolutionIsNoted ==
    ASSUME Lawful, [Next]_vars, ReadingsAreNoted, NEW s \in Sessions, Resolve(s)
    PROVE  ReadingsAreNoted'
<1> USE DEF Goto, tables
<1>0. Owner(s) \in Scopes /\ ReadingIsNoted(s) /\ policy \in Policies
  BY DEF Scopes, Owner, Lawful, Typed, OpRow, ReadingsAreNoted, Policies
<1>1. pc[s] = "read" => /\ seen[s] \in Seq(Policies) /\ Len(seen[s]) \in 1..Len(seen[s])
                        /\ policy = seen[s][Len(seen[s])]
  BY <1>0 DEF ReadingIsNoted
<1>2. CASE ResolvePipeline(s)
  <2>1. /\ pc[s] = "idle" /\ pc'[s] = "read" /\ loaded'[s] = policy[Global] /\ eff' = eff /\ policy' = policy
        /\ seen'[s] = <<policy>>
    BY <1>2 DEF ResolvePipeline, Lawful, Typed, ReadingsAreNoted
  <2>2. seen'[s] \in Seq(Policies) /\ Len(seen'[s]) = 1 /\ seen'[s][1] = policy
    BY <1>0, <2>1
  <2>3. Grown(seen[s])'
    BY <2>2 DEF Grown
  <2>4. ReadingIsNoted(s)'
    BY <1>0, <2>1, <2>2, <2>3 DEF ReadingIsNoted, Policies, Scopes
  <2> QED
    BY <2>4, ResolutionIsItsOwn
<1>3. CASE ResolveTenant(s)
  <2> DEFINE e == Merged(policy[Owner(s)], loaded[s])
  <2>1. /\ pc[s] = "read" /\ UNCHANGED <<policy, op, loaded, seen, pc>> /\ eff'[s] = e
    BY <1>3 DEF ResolveTenant, Lawful, Typed
  <2>2. {"a", "b", "version", "due"} \subseteq DOMAIN e /\ Taken(e, policy[Owner(s)], loaded[s]) /\ e.due = "version"
    BY DEF Merged, Taken
  <2> HIDE DEF e
  <2>3. ComesFrom(e, seen[s], Owner(s), loaded[s])
    BY <1>1, <2>1, <2>2 DEF ComesFrom
  <2> QED
    BY <2>1, <2>2, <2>3, ReadingOnIsNoted, ResolutionIsItsOwn
<1>4. CASE ResolveVersion(s)
  <2> DEFINE v == VersionOf(policy[Owner(s)])
  <2>1. /\ pc[s] = "read" /\ UNCHANGED <<policy, op, loaded, seen, pc>> /\ eff[s] # None
        /\ eff'[s] = [eff[s] EXCEPT !.version = v, !.due = "flags"]
    BY <1>4 DEF ResolveVersion, Lawful, Typed, VersionOf
  <2>2. /\ {"a", "b", "version", "due"} \subseteq DOMAIN eff[s]
        /\ ComesFrom(eff[s], seen[s], Owner(s), loaded[s])
    BY <1>0, <2>1 DEF ReadingIsNoted
  <2>3. /\ {"a", "b", "version", "due"} \subseteq DOMAIN eff'[s]
        /\ eff'[s].a = eff[s].a /\ eff'[s].b = eff[s].b /\ eff'[s].version = v
    BY <2>1, <2>2
  <2> HIDE DEF v
  <2>4. PICK i \in 1..Len(seen[s]) : Taken(eff[s], seen[s][i][Owner(s)], loaded[s])
    BY <2>2 DEF ComesFrom
  <2>5. Taken(eff'[s], seen[s][i][Owner(s)], loaded[s])
    BY <2>3, <2>4 DEF Taken
  <2>6. Len(seen[s]) \in i..Len(seen[s]) /\ eff'[s].version = VersionOf(seen[s][Len(seen[s])][Owner(s)])
    BY <1>1, <2>1, <2>3 DEF v
  <2>7. ComesFrom(eff'[s], seen[s], Owner(s), loaded[s])
    BY <2>5, <2>6 DEF ComesFrom
  <2> QED
    BY <2>1, <2>3, <2>7, ReadingOnIsNoted, ResolutionIsItsOwn
<1>5. CASE ResolveFlags(s)
  <2>1. /\ pc[s] = "read" /\ UNCHANGED <<policy, op, loaded, seen, pc>> /\ eff[s] # None /\ eff[s].due = "flags"
        /\ \E f : eff' = [eff EXCEPT ![s] = [eff[s] EXCEPT !.flags = f, !.due = "model"]]
    BY <1>5 DEF ResolveFlags
  <2>2. PICK f : eff'[s] = [eff[s] EXCEPT !.flags = f, !.due = "model"]
    BY <2>1 DEF Lawful, Typed
  <2>3. /\ {"a", "b", "version", "due"} \subseteq DOMAIN eff[s]
        /\ ComesFrom(eff[s], seen[s], Owner(s), loaded[s])
    BY <1>0, <2>1 DEF ReadingIsNoted
  <2>4. /\ {"a", "b", "version", "due"} \subseteq DOMAIN eff'[s]
        /\ eff'[s].a = eff[s].a /\ eff'[s].b = eff[s].b /\ eff'[s].version = eff[s].version
    BY <2>2, <2>3
  <2>5. ComesFrom(eff'[s], seen[s], Owner(s), loaded[s])
    BY <2>1, <2>3, <2>4 DEF ComesFrom, Taken
  <2> QED
    BY <2>1, <2>4, <2>5, ReadingOnIsNoted, ResolutionIsItsOwn
<1>6. CASE ResolveModel(s)
  <2>1. pc'[s] = "done"
    BY <1>6 DEF ResolveModel, Lawful, Typed
  <2>2. ReadingIsNoted(s)'
    BY <2>1 DEF ReadingIsNoted
  <2> QED
    BY <2>2, ResolutionIsItsOwn
<1> QED
  BY <1>2, <1>3, <1>4, <1>5, <1>6 DEF Resolve

LEMMA StepIsNoted ==
    ASSUME Lawful, ReadingsAreNoted, [Next]_vars
    PROVE  ReadingsAreNoted'
<1> USE DEF Goto
<1>1. CASE UNCHANGED vars
  BY <1>1, OthersAreNoted DEF vars, ReadingsAreNoted
<1>2. ASSUME NEW s \in Sessions, NEW request, NEW row, Open(s, request, row)
      PROVE  ReadingsAreNoted'
  BY <1>2, QuietStepIsNoted DEF Open, tables, Lawful, Typed
<1>3. ASSUME NEW s \in Sessions, LoadModel(s) \/ LoadNamed(s) \/ LoadPolicy(s) \/ LoadFlags(s)
      PROVE  ReadingsAreNoted'
  BY <1>2, <1>3 DEF LoadModel, LoadNamed, LoadPolicy, LoadFlags
<1>4. ASSUME NEW s \in Sessions, FindSiblings(s), ~Close(s, "failed")
      PROVE  ReadingsAreNoted'
  BY <1>4, QuietStepIsNoted DEF FindSiblings, tables, Lawful, Typed
<1>5. ASSUME NEW s \in Sessions, StartFlush(s)
      PROVE  ReadingsAreNoted'
  BY <1>5, QuietStepIsNoted DEF StartFlush, tables, Lawful, Typed
<1>6. ASSUME NEW s \in Sessions, LockNextRow(s)
      PROVE  ReadingsAreNoted'
  BY <1>6, OthersAreNoted DEF LockNextRow, tables, ReadingsAreNoted
<1>7. ASSUME NEW s \in Sessions, CommitModel(s) \/ CommitPolicy(s) \/ CommitFlags(s) \/ Lose(s)
      PROVE  ReadingsAreNoted'
  BY <1>7, ClosedIsNoted DEF CommitModel, CommitPolicy, CommitFlags, Lose
<1>8. ASSUME NEW t \in Scopes, Freeze(t)
      PROVE  ReadingsAreNoted'
  <2>1. DOMAIN seen' = Sessions
    BY <1>8 DEF Freeze, Noting
  <2>2. \A z \in Sessions : ReadingIsNoted(z)'
    BY <1>8, OthersAreNoted DEF Freeze
  <2> QED
    BY <2>1, <2>2 DEF ReadingsAreNoted
<1> QED
  BY <1>1, <1>3, <1>4, <1>5, <1>6, <1>7, <1>8, ClosedIsNoted, ResolutionIsNoted DEF Next, Load, Step, Resolve

----------------------------------------------------------------------------

\* What makes the settings consistent.
LawfulSettings == Lawful /\ TypedToo /\ Alone /\ ReadingsAreNoted

LEMMA LawfulSettingsAreConsistent ==
    ASSUME LawfulSettings
    PROVE  SettingsAreConsistent
<1> USE DEF LawfulSettings
<1>1. TypeOK
  BY DEF TypeOK, Lawful, Typed, TypedToo, Stages
<1>2. OneActivePerScope
  <2> SUFFICES ASSUME NEW scope \in Scopes, <<"model", scope>> \notin raced
               PROVE  Cardinality(Active(scope)) <= 1
    BY DEF OneActivePerScope
  <2>1. \A i, j \in Active(scope) : i = j
    BY DEF Alone, OneIsActive
  <2>2. CASE Active(scope) = {}
    BY <2>2, FS_EmptySet
  <2>3. CASE Active(scope) # {}
    <3>1. PICK i : Active(scope) = {i}
      BY <2>1, <2>3
    <3> QED
      BY <3>1, FS_Singleton
  <2> QED
    BY <2>2, <2>3
<1>3. VersionNamesContent
  <2> SUFFICES ASSUME NEW s \in Sessions, pc[s] = "read", eff[s] # None
               PROVE  /\ loaded[s] = seen[s][1][Global]
                      /\ \E i \in DOMAIN seen[s] :
                            LET tenant == seen[s][i][Owner(s)]
                            IN /\ eff[s].a = (IF tenant # None /\ tenant.a # None THEN tenant.a ELSE loaded[s].a)
                               /\ eff[s].b = (IF tenant # None THEN tenant.b ELSE loaded[s].b)
                               /\ eff[s].due # "version" =>
                                    \E j \in i..Len(seen[s]) :
                                        LET row == seen[s][j][Owner(s)]
                                        IN /\ eff[s].version = (IF row # None THEN row.version ELSE None)
                                           /\ tenant # None => row # None
    BY DEF VersionNamesContent
  <2>1. /\ seen[s] \in Seq(Policies) /\ Grown(seen[s]) /\ loaded[s] = seen[s][1][Global]
        /\ ComesFrom(eff[s], seen[s], Owner(s), loaded[s])
    BY DEF ReadingsAreNoted, ReadingIsNoted
  <2>2. PICK i \in 1..Len(seen[s]) :
            /\ Taken(eff[s], seen[s][i][Owner(s)], loaded[s])
            /\ eff[s].due # "version" => \E j \in i..Len(seen[s]) : eff[s].version = VersionOf(seen[s][j][Owner(s)])
    BY <2>1 DEF ComesFrom
  <2>3. Owner(s) \in Scopes /\ DOMAIN seen[s] = 1..Len(seen[s]) /\ Len(seen[s]) \in Nat
    BY <2>1 DEF Owner, Scopes, Lawful, Typed, OpRow
  <2>4. ASSUME NEW j \in i..Len(seen[s])
        PROVE  seen[s][i][Owner(s)] # None => seen[s][j][Owner(s)] # None
    <3>1. j \in 1..Len(seen[s]) /\ i <= j
      BY <2>3
    <3> QED
      BY <2>1, <2>3, <3>1 DEF Grown
  <2> QED
    BY <2>1, <2>2, <2>3, <2>4 DEF Taken, VersionOf
<1> QED
  BY <1>1, <1>2, <1>3 DEF SettingsAreConsistent

\* Stored settings keep their types, a scope has one active model unless
\* changes overlapped, and what a run is governed by is one committed policy of
\* its tenant under the pipeline's, noted with its own version or, if it was
\* changed in between, with that of a later one.
THEOREM ConsistentSettings == Spec => []SettingsAreConsistent
<1>1. Init => LawfulSettings
  <2> SUFFICES ASSUME Init
               PROVE  TypedToo /\ ReadingsAreNoted
    BY InitIsLawful, InitIsAlone DEF LawfulSettings
  <2>1. /\ policy = [t \in Scopes |-> IF t = Global THEN DefaultPolicy ELSE None]
        /\ flags = [t \in Tenants |-> None] /\ pc = [s \in Sessions |-> "idle"]
        /\ siblings = [s \in Sessions |-> {}] /\ held = [s \in Sessions |-> {}]
        /\ eff = [s \in Sessions |-> None] /\ seen = [s \in Sessions |-> <<>>]
    BY DEF Init
  <2>2. DefaultPolicy.version = 0
    BY DEF DefaultPolicy
  <2>3. TypedToo
    BY <2>1, <2>2 DEF TypedToo, InHand
  <2>4. ReadingsAreNoted
    BY <2>1 DEF ReadingsAreNoted, ReadingIsNoted
  <2> QED
    BY <2>3, <2>4
<1>2. LawfulSettings /\ [Next]_vars => LawfulSettings'
  BY StepKeepsLawful, StepKeepsTypes, StepIsAlone, StepIsNoted DEF LawfulSettings
<1> QED
  BY <1>1, <1>2, LawfulSettingsAreConsistent, PTL DEF Spec
=============================================================================
