------------------------ MODULE WorkflowVersions_proofs ------------------------
(***************************************************************************)
(* Proofs about WorkflowVersions, for every set of sessions, workflows and *)
(* operations.                                                             *)
(***************************************************************************)
EXTENDS WorkflowVersions, TLAPS, FiniteSetTheorems

Inserted(s) == newVersion[s] # None

\* No two rows share a name, whether they are committed or not yet: the unique
\* key of the table and the wait for another session's key guard the rows that
\* a commit may bring in later.
NamesAreUnique ==
    /\ newVersion = [s \in Sessions |-> newVersion[s]]
    /\ \A a, b \in versions : a.name = b.name => a = b
    /\ \A s \in Sessions : Inserted(s) => \A row \in versions : row.name # newVersion[s].name
    /\ \A s, t \in Sessions :
        Inserted(s) /\ Inserted(t) /\ s # t => newVersion[s].name # newVersion[t].name

\* Dropping uncommitted rows keeps the names apart.
LEMMA DropKeepsNames ==
    ASSUME NamesAreUnique, NEW s \in Sessions,
           newVersion' = [newVersion EXCEPT ![s] = None], versions' = versions
    PROVE  NamesAreUnique'
BY DEF NamesAreUnique, Inserted

LEMMA InsertKeepsNames ==
    ASSUME NamesAreUnique, NEW s \in Sessions, InsertVersion(s)
    PROVE  NamesAreUnique' /\ versions' = versions
<1>1. versions' = versions
  BY DEF InsertVersion, tables
<1>2. CASE NameTaken(s)
  BY <1>1, <1>2 DEF InsertVersion, NamesAreUnique, Inserted
<1>3. CASE ~NameTaken(s)
  <2>1. PICK t : newVersion' = [newVersion EXCEPT ![s] = [name |-> name[s], threshold |-> t, at |-> began[s]]]
    BY <1>3 DEF InsertVersion
  <2>2. newVersion'[s].name = name[s] /\ \A u \in Sessions \ {s} : newVersion'[u] = newVersion[u]
    BY <2>1 DEF NamesAreUnique
  <2>3. \A row \in versions : row.name # name[s]
    BY <1>3 DEF NameTaken, Named
  <2>4. \A u \in Sessions : Inserted(u) => newVersion[u].name # name[s]
    BY DEF InsertVersion, Delayed, WaitsFor, Inserted
  <2>5. newVersion' = [u \in Sessions |-> newVersion'[u]]
    BY <2>1 DEF NamesAreUnique
  <2> QED
    BY <1>1, <2>2, <2>3, <2>4, <2>5 DEF NamesAreUnique, Inserted
<1> QED
  BY <1>2, <1>3, <1>1

LEMMA CommitKeepsNames ==
    ASSUME NamesAreUnique, NEW s \in Sessions, Commit(s)
    PROVE  NamesAreUnique' /\ versions \subseteq versions'
<1>1. newVersion' = [newVersion EXCEPT ![s] = None]
  BY DEF Commit
<1>2. CASE Inserted(s)
  <2>1. versions' = versions \cup {newVersion[s]}
    BY <1>2 DEF Commit, Inserted
  <2>2. newVersion'[s] = None /\ \A u \in Sessions \ {s} : newVersion'[u] = newVersion[u]
    BY <1>1 DEF NamesAreUnique
  <2>3. \A a, b \in versions' : a.name = b.name => a = b
    BY <1>2, <2>1 DEF NamesAreUnique
  <2>4. \A u \in Sessions : newVersion'[u] # None => \A row \in versions' : row.name # newVersion'[u].name
    BY <1>2, <2>1, <2>2 DEF NamesAreUnique, Inserted
  <2>5. newVersion' = [u \in Sessions |-> newVersion'[u]]
    BY <1>1 DEF NamesAreUnique
  <2> QED
    BY <2>1, <2>2, <2>3, <2>4, <2>5 DEF NamesAreUnique, Inserted
<1>3. CASE ~Inserted(s)
  <2>1. versions' = versions
    BY <1>3 DEF Commit, Inserted
  <2> QED
    BY <1>1, <2>1, DropKeepsNames
<1> QED
  BY <1>2, <1>3

\* Every step keeps the names apart and no row is ever taken away.
LEMMA StepKeepsNames ==
    ASSUME NamesAreUnique, [Next]_vars
    PROVE  NamesAreUnique' /\ versions \subseteq versions'
<1>1. CASE UNCHANGED vars
  BY <1>1 DEF vars, NamesAreUnique, Inserted
<1>2. ASSUME NEW s \in Sessions,
             Begin(s) \/ Refuse(s) \/ ReadFirst(s) \/ ChooseName(s) \/ ReadCurrent(s) \/ CreateWorkflow(s)
      PROVE  versions' = versions /\ newVersion' = newVersion
  BY <1>2 DEF Begin, Refuse, ReadFirst, ChooseName, ReadCurrent, CreateWorkflow, tables, session
<1>3. ASSUME NEW s \in Sessions, Write(s)
      PROVE  /\ versions' = versions
             /\ newVersion' = newVersion \/ newVersion' = [newVersion EXCEPT ![s] = None]
  BY <1>3 DEF Write, tables
<1>4. ASSUME NEW s \in Sessions, Lose(s)
      PROVE  versions' = versions /\ newVersion' = [newVersion EXCEPT ![s] = None]
  BY <1>4 DEF Lose, tables
<1>5. ASSUME versions' = versions, newVersion' = newVersion PROVE NamesAreUnique'
  BY <1>5 DEF NamesAreUnique, Inserted
<1> QED
  BY <1>1, <1>2, <1>3, <1>4, <1>5, DropKeepsNames, InsertKeepsNames, CommitKeepsNames DEF Next, Step

\* A pipeline version that a workflow may be pinned to is never changed or
\* removed, and a name never means two versions, however many sessions create
\* versions at the same time, wait for each other or are lost.
THEOREM VersionsStand == Spec => VersionsAreImmutable
<1>1. Init => NamesAreUnique
  BY DEF Init, NamesAreUnique, Inserted
<1>2. NamesAreUnique /\ [Next]_vars => NamesAreUnique'
  BY StepKeepsNames
<1>3. NamesAreUnique /\ [Next]_vars =>
        [/\ versions \subseteq versions'
         /\ \A a, b \in versions' : a.name = b.name => a = b]_vars
  BY StepKeepsNames DEF NamesAreUnique
<1> QED
  BY <1>1, <1>2, <1>3, PTL DEF Spec, VersionsAreImmutable

----------------------------------------------------------------------------
(* The tables as one consistent whole. *)

HistoryRows ==
    [wf : Workflows, n : Nat \ {0}, pv : VersionRows, source : Names \cup {None},
     template : Sessions \cup {None}, by : OpKinds, current : BOOLEAN]
Requests == [kind : OpKinds, wf : Workflows, target : Names]
Stages == {"idle", "begun", "read", "chosen", "inserted", "current", "written", "done", "failed"}
Active == {"read", "chosen", "inserted", "current", "written"}

Shapes ==
    /\ clock \in Nat /\ began \in [Sessions -> Nat]
    /\ op \in [Sessions -> Requests \cup {None}] /\ pc \in [Sessions -> Stages]
    /\ first = [s \in Sessions |-> first[s]] /\ name \in [Sessions -> Names \cup {None}]
    /\ newVersion \in [Sessions -> VersionRows \cup {None}]
    /\ cur \in [Sessions -> HistoryRows \cup {None}]
    /\ newRow \in [Sessions -> HistoryRows \cup {None}]
    /\ versions \subseteq VersionRows /\ workflows \subseteq Workflows
    /\ history \subseteq HistoryRows

\* A suffix was added to a name that is taken.
Stripped(v) == [v EXCEPT !.suffix = SubSeq(@, 1, Len(@) - 1)]
HasReason(v) == ~IsSemver(v) => Named(Stripped(v)) # {}

\* A row that the table of pipeline versions may hold.
GoodVersion(row) == row.threshold \in 65 .. 95 /\ row.at < clock /\ HasReason(row.name)

VersionTable ==
    /\ \A row \in versions : GoodVersion(row)
    /\ \E row \in versions : \A other \in versions : other.at <= row.at
    /\ \E row \in versions : \A other \in versions : other.name.patch <= row.name.patch

Follows(row, pred) ==
    /\ pred.wf = row.wf /\ pred.n = row.n - 1
    /\ row.source = pred.pv.name
    /\ row.by = "optimize_prompt" => row.pv = pred.pv
    /\ row.by # "optimize_prompt" => row.template = pred.template

\* The one current row of a workflow is its last.
IsTop(top, w) ==
    /\ top.wf = w /\ top.current
    /\ \A other \in history : other.wf = w => other.n <= top.n /\ (other.current => other = top)

HistoryTable ==
    /\ \A row \in history : row.wf \in workflows /\ row.pv \in versions
    /\ \A a, b \in history : a.wf = b.wf /\ a.n = b.n => a = b
    /\ \A row \in history : \A k \in 1 .. row.n : \E r \in history : r.wf = row.wf /\ r.n = k
    /\ \A w \in workflows : \E top \in history : IsTop(top, w)
    /\ \A row \in history : row.n = 1 \/ \E pred \in history : Follows(row, pred)

\* What session s read as the current row is a row of the history, except that
\* it may have ceased to be the current one.
StillThere(s) ==
    \E row \in history :
        /\ row.wf = Wf(s) /\ row.n = cur[s].n /\ row.pv = cur[s].pv
        /\ row.template = cur[s].template

\* An uncommitted row fits the end of its workflow's history, since nobody else
\* can append to it.
Fits(s) ==
    \/ newRow[s].n = 1 /\ newRow[s].wf \notin workflows
    \/ \E pred \in history : pred.current /\ Follows(newRow[s], pred)

Pending(s) ==
    /\ pc[s] = "written" /\ newRow[s].wf = Wf(s) /\ newRow[s].current
    /\ newRow[s].pv \in versions \/ (newVersion[s] # None /\ newRow[s].pv = newVersion[s])
    /\ Fits(s)

\* What session s holds while it is open.
Session(s) ==
    /\ began[s] < clock
    /\ pc[s] # "idle" => op[s] \in Requests /\ (Kind(s) = "create_version" => IsSemver(op[s].target))
    /\ pc[s] \in {"read", "chosen"} /\ Kind(s) # "create_version" => first[s].pv \in versions
    /\ pc[s] = "chosen" => name[s] \in Names /\ HasReason(name[s]) /\ Kind(s) \in Makers
    /\ newVersion[s] # None => GoodVersion(newVersion[s])
    /\ pc[s] \in Active /\ Kind(s) \in Movers => Wf(s) \in workflows
    /\ pc[s] \in {"inserted", "current"} /\ Kind(s) = "harden" => newVersion[s] # None
    /\ pc[s] = "current" =>
        /\ Kind(s) \in Movers /\ cur[s] \in HistoryRows /\ StillThere(s)
        /\ Kind(s) = "upgrade" => Named(op[s].target) # {}
    /\ newRow[s] # None => Pending(s)

\* At most one session holds an uncommitted row of a workflow.
OneWriter ==
    \A s, t \in Sessions :
        newRow[s] # None /\ newRow[t] # None /\ s # t => newRow[s].wf # newRow[t].wf

TablesInv ==
    Shapes /\ VersionTable /\ HistoryTable /\ (\A s \in Sessions : Session(s)) /\ OneWriter

\* One session moves and nothing is committed: the rest follows.
LEMMA SessionMoves ==
    ASSUME TablesInv, NEW s \in Sessions, UNCHANGED tables,
           clock' \in Nat, clock <= clock', Shapes', Session(s)', OneWriter',
           \A t \in Sessions \ {s} :
               /\ op'[t] = op[t] /\ pc'[t] = pc[t] /\ first'[t] = first[t] /\ name'[t] = name[t]
               /\ newVersion'[t] = newVersion[t] /\ cur'[t] = cur[t]
               /\ newRow'[t] = newRow[t] /\ began'[t] = began[t]
    PROVE  TablesInv'
<1>1. VersionTable'
  <2>1. \A row \in versions : row.at < clock'
    BY SMT DEF TablesInv, VersionTable, GoodVersion, Shapes, VersionRows
  <2>2. \A row \in versions : GoodVersion(row)'
    BY <2>1 DEF TablesInv, VersionTable, GoodVersion, HasReason, Named, tables
  <2> QED
    BY <2>2 DEF TablesInv, VersionTable, tables
<1>2. HistoryTable'
  BY DEF TablesInv, HistoryTable, IsTop, tables
<1>3. ASSUME NEW t \in Sessions \ {s} PROVE Session(t)'
  <2>1. began'[t] < clock'
    BY SMT DEF TablesInv, Session, Shapes
  <2>2. ASSUME newVersion[t] # None PROVE GoodVersion(newVersion[t])'
    <3>1. GoodVersion(newVersion[t]) /\ newVersion[t] \in VersionRows
      BY <2>2 DEF TablesInv, Session, Shapes
    <3>2. newVersion'[t].at < clock'
      BY <3>1, SMT DEF GoodVersion, VersionRows, TablesInv, Shapes
    <3> QED
      BY <3>1, <3>2 DEF GoodVersion, HasReason, Named, tables
  <2>3. pc[t] = "chosen" => HasReason(name[t])'
    BY DEF TablesInv, Session, HasReason, Named, tables
  <2>4. pc[t] = "current" => StillThere(t)' /\ (Kind(t) = "upgrade" => (Named(op[t].target) # {})')
    BY DEF TablesInv, Session, StillThere, Named, Kind, Wf, tables
  <2>5. newRow[t] # None => Pending(t)'
    BY DEF TablesInv, Session, Pending, Fits, Wf, tables
  <2> QED
    BY <2>1, <2>2, <2>3, <2>4, <2>5 DEF TablesInv, Session, Kind, Wf, tables
<1> QED
  BY <1>1, <1>2, <1>3 DEF TablesInv

\* The reads find a row.
LEMMA CurrentExists ==
    ASSUME TablesInv, NEW w \in workflows
    PROVE  Current(w) \in history /\ Current(w).wf = w
<1>1. PICK top \in history : IsTop(top, w)
  BY DEF TablesInv, HistoryTable
<1> DEFINE rows == {row \in history : row.wf = w}
           marked == {row \in rows : row.current}
<1>2. marked = {top}
  BY <1>1 DEF IsTop
<1>3. top.n <= top.n
  BY <1>1, SMT DEF TablesInv, Shapes, HistoryRows
<1>4. \E row \in marked : \A other \in marked : other.n <= row.n
  BY <1>2, <1>3
<1>5. Current(w) = CHOOSE row \in marked : \A other \in marked : other.n <= row.n
  BY <1>2 DEF Current
<1>6. Current(w) \in marked
  BY <1>4, <1>5
<1> QED
  BY <1>6

LEMMA LatestExist ==
    ASSUME TablesInv
    PROVE  LatestCreated \in versions /\ LatestSemver \in versions
BY DEF TablesInv, VersionTable, LatestCreated, LatestSemver

LEMMA BeginKeepsTables ==
    ASSUME TablesInv, NEW s \in Sessions, Begin(s)
    PROVE  TablesInv'
<1>1. PICK kind \in Ops, w \in Workflows, target \in {row.name : row \in versions} \cup {Semver(MaxPatch)} :
        /\ kind = "create_version" => IsSemver(target)
        /\ op' = [op EXCEPT ![s] = [kind |-> kind, wf |-> w, target |-> target]]
  BY DEF Begin
<1>2. target \in Names
  <2>1. \A row \in versions : row.name \in Names
    BY DEF TablesInv, Shapes, VersionRows
  <2>2. <<>> \in Seq(SuffixWords)
    OBVIOUS
  <2>3. Semver(MaxPatch) \in Names
    BY <2>2, OpsAssumption DEF Names, Semver
  <2> QED
    BY <1>1, <2>1, <2>3
<1>3. [kind |-> kind, wf |-> w, target |-> target] \in Requests
  BY <1>2, OpsAssumption DEF Requests
<1>4. /\ UNCHANGED <<tables, session>> /\ began' = [began EXCEPT ![s] = clock]
      /\ clock' = clock + 1 /\ pc' = [pc EXCEPT ![s] = "begun"] /\ pc[s] = "idle"
  BY DEF Begin, Goto
<1>5. Shapes'
  BY <1>1, <1>3, <1>4 DEF TablesInv, Shapes, tables, session, Stages
<1>6. newRow[s] = None
  BY <1>4 DEF TablesInv, Session, Pending
<1>7. Session(s)'
  <2>1. began'[s] < clock' /\ pc'[s] = "begun" /\ op'[s] = [kind |-> kind, wf |-> w, target |-> target]
    BY <1>1, <1>4, SMT DEF TablesInv, Shapes
  <2>2. newVersion[s] # None => GoodVersion(newVersion[s])'
    <3>1. newVersion[s] # None => GoodVersion(newVersion[s]) /\ newVersion[s] \in VersionRows
      BY DEF TablesInv, Session, Shapes
    <3>2. newVersion[s] # None => newVersion[s].at < clock'
      BY <3>1, <1>4, SMT DEF GoodVersion, VersionRows, TablesInv, Shapes
    <3> QED
      BY <3>1, <3>2, <1>4 DEF GoodVersion, HasReason, Named, tables, session
  <2> QED
    BY <1>1, <1>3, <1>4, <1>6, <2>1, <2>2 DEF Session, Kind, session, Active
<1>8. OneWriter' /\ clock' \in Nat /\ clock <= clock'
  BY <1>4, SMT DEF TablesInv, OneWriter, session, Shapes
<1> QED
  BY <1>1, <1>4, <1>5, <1>7, <1>8, SessionMoves DEF TablesInv, Shapes, session

LEMMA RefuseKeepsTables ==
    ASSUME TablesInv, NEW s \in Sessions, Refuse(s)
    PROVE  TablesInv'
<1>1. /\ UNCHANGED <<tables, op, session, began, clock>>
      /\ pc' = [pc EXCEPT ![s] = "failed"] /\ pc[s] = "begun"
  BY DEF Refuse, Goto
<1>2. Shapes'
  BY <1>1 DEF TablesInv, Shapes, tables, session, Stages
<1>3. newRow[s] = None /\ pc'[s] = "failed"
  BY <1>1 DEF TablesInv, Session, Pending, Shapes
<1>4. newVersion[s] # None => GoodVersion(newVersion[s])'
  BY <1>1 DEF TablesInv, Session, GoodVersion, HasReason, Named, tables, session
<1>5. Session(s)'
  BY <1>1, <1>3, <1>4 DEF TablesInv, Session, Kind, session, Active
<1>6. OneWriter' /\ clock' \in Nat /\ clock <= clock'
  BY <1>1, SMT DEF TablesInv, OneWriter, session, Shapes
<1> QED
  BY <1>1, <1>2, <1>5, <1>6, SessionMoves DEF TablesInv, Shapes, session

LEMMA ReadFirstKeepsTables ==
    ASSUME TablesInv, NEW s \in Sessions, ReadFirst(s)
    PROVE  TablesInv'
<1>1. /\ UNCHANGED <<tables, op, name, newVersion, cur, newRow, began, clock>>
      /\ pc' = [pc EXCEPT ![s] = "read"] /\ pc[s] = "begun"
  BY DEF ReadFirst, Goto
<1>2. PICK row : first' = [first EXCEPT ![s] = row]
  BY DEF ReadFirst
<1>3. first'[s] = row /\ first' = [t \in Sessions |-> first'[t]] /\ \A t \in Sessions \ {s} : first'[t] = first[t]
  BY <1>2 DEF TablesInv, Shapes
<1>4. Shapes'
  BY <1>1, <1>3 DEF TablesInv, Shapes, tables, Stages
<1>5. newRow[s] = None /\ pc'[s] = "read"
  BY <1>1 DEF TablesInv, Session, Pending, Shapes
<1>6. first'[s].pv \in versions
  <2>1. CASE Kind(s) \in {"harden", "optimize_prompt"} /\ Wf(s) \in workflows /\ first' = [first EXCEPT ![s] = Current(Wf(s))]
    BY <2>1, <1>3, CurrentExists DEF TablesInv, Shapes, HistoryTable
  <2>2. CASE first' = [first EXCEPT ![s] = [pv |-> LatestCreated]]
    BY <2>2, LatestExist DEF TablesInv, Shapes
  <2>3. CASE first' = [first EXCEPT ![s] = [pv |-> LatestSemver]]
    BY <2>3, LatestExist DEF TablesInv, Shapes
  <2> QED
    BY <2>1, <2>2, <2>3 DEF ReadFirst
<1>7. Kind(s) \in Movers => Wf(s) \in workflows
  BY DEF ReadFirst, Movers
<1>8. newVersion[s] # None => GoodVersion(newVersion[s])'
  BY <1>1 DEF TablesInv, Session, GoodVersion, HasReason, Named, tables
<1>9. Session(s)'
  BY <1>1, <1>5, <1>6, <1>7, <1>8 DEF TablesInv, Session, Kind, Wf, tables
<1>10. OneWriter' /\ clock' \in Nat /\ clock <= clock'
  BY <1>1, SMT DEF TablesInv, OneWriter, Shapes
<1> QED
  BY <1>1, <1>3, <1>4, <1>9, <1>10, SessionMoves DEF TablesInv, Shapes

\* A reason stays, since versions are only added.
LEMMA HasReasonStays ==
    ASSUME NEW v, HasReason(v), versions \subseteq versions'
    PROVE  HasReason(v)'
BY DEF HasReason, Named

\* A sequence without its last element.
LEMMA AppendStripped ==
    ASSUME NEW v \in Names, NEW e \in SuffixWords
    PROVE  /\ [v EXCEPT !.suffix = Append(@, e)] \in Names
           /\ Stripped([v EXCEPT !.suffix = Append(@, e)]) = v
<1> DEFINE x == v.suffix
           y == Append(v.suffix, e)
           w == [v EXCEPT !.suffix = Append(@, e)]
<1>1. x \in Seq(SuffixWords) /\ v.patch \in Nat /\ v = [patch |-> v.patch, suffix |-> x]
  BY DEF Names
<1>2. y \in Seq(SuffixWords) /\ Len(y) = Len(x) + 1 /\ Len(x) \in Nat
  BY <1>1
<1>3. SubSeq(y, 1, Len(y) - 1) = x
  BY <1>1, <1>2
<1>4. w = [patch |-> v.patch, suffix |-> y]
  BY <1>1
<1>5. Stripped(w) = [patch |-> v.patch, suffix |-> x]
  <2>1. w.suffix = y /\ w.patch = v.patch
    BY <1>4
  <2>2. SubSeq(w.suffix, 1, Len(w.suffix) - 1) = x
    BY <1>3, <2>1
  <2>3. Stripped(w) = [w EXCEPT !.suffix = x]
    BY ONLY <2>2, Zenon DEF Stripped
  <2> QED
    BY <1>4, <2>3
<1> QED
  BY <1>1, <1>2, <1>4, <1>5 DEF Names

\* The name a job chooses is new, or says why it is not.
LEMMA FreeNameHasReason ==
    ASSUME TablesInv, NEW row \in versions, NEW word \in SuffixWords, NEW spare \in SuffixWords
    PROVE  FreeName(row.name, word, spare) \in Names /\ HasReason(FreeName(row.name, word, spare))
<1> DEFINE v == row.name
           b == Bumped(v, word)
<1>1. v \in Names
  BY DEF TablesInv, Shapes, VersionRows
<1>2. b \in Names /\ HasReason(b)
  <2>1. CASE IsSemver(v)
    <3>1. <<>> \in Seq(SuffixWords)
      OBVIOUS
    <3>2. v.patch + 1 \in Nat
      BY <1>1 DEF Names
    <3> QED
      BY <2>1, <3>1, <3>2 DEF Bumped, Semver, Names, HasReason, IsSemver
  <2>2. CASE ~IsSemver(v)
    BY <1>1, <2>2, AppendStripped DEF Bumped, HasReason, Named
  <2> QED
    BY <2>1, <2>2
<1>3. CASE Named(b) = {}
  BY <1>2, <1>3 DEF FreeName
<1>4. CASE Named(b) # {}
  <2>1. FreeName(v, word, spare) = [b EXCEPT !.suffix = Append(@, spare)]
    BY <1>4 DEF FreeName
  <2> QED
    BY <1>2, <1>4, <2>1, AppendStripped DEF HasReason
<1> QED
  BY <1>3, <1>4

LEMMA ChooseNameKeepsTables ==
    ASSUME TablesInv, NEW s \in Sessions, ChooseName(s)
    PROVE  TablesInv'
<1>1. /\ UNCHANGED <<tables, op, first, newVersion, cur, newRow, began, clock>>
      /\ pc' = [pc EXCEPT ![s] = "chosen"] /\ pc[s] \in {"begun", "read"}
  BY DEF ChooseName, Goto
<1>2. PICK v \in Names : HasReason(v) /\ name' = [name EXCEPT ![s] = v] /\ Kind(s) \in Makers
  <2>1. CASE pc[s] = "begun" /\ Kind(s) = "create_version" /\ name' = [name EXCEPT ![s] = op[s].target]
    <3>1. op[s] \in Requests /\ IsSemver(op[s].target)
      BY <2>1 DEF TablesInv, Session
    <3> QED
      BY <2>1, <3>1 DEF Requests, HasReason, Makers
  <2>2. CASE pc[s] = "read" /\ Kind(s) = "harden" /\ name' = [name EXCEPT ![s] = FreeName(first[s].pv.name, "harden", "h")]
    <3>1. first[s].pv \in versions
      BY <2>2 DEF TablesInv, Session
    <3>2. "harden" \in SuffixWords /\ "h" \in SuffixWords
      BY DEF SuffixWords
    <3>3. /\ FreeName(first[s].pv.name, "harden", "h") \in Names
          /\ HasReason(FreeName(first[s].pv.name, "harden", "h"))
      BY <3>1, <3>2, FreeNameHasReason, Zenon
    <3> QED
      BY <2>2, <3>3 DEF Makers
  <2>3. CASE pc[s] = "read" /\ Kind(s) = "optimize_pipeline" /\ name' = [name EXCEPT ![s] = FreeName(first[s].pv.name, "auto", "b")]
    <3>1. first[s].pv \in versions
      BY <2>3 DEF TablesInv, Session
    <3>2. "auto" \in SuffixWords /\ "b" \in SuffixWords
      BY DEF SuffixWords
    <3>3. /\ FreeName(first[s].pv.name, "auto", "b") \in Names
          /\ HasReason(FreeName(first[s].pv.name, "auto", "b"))
      BY <3>1, <3>2, FreeNameHasReason, Zenon
    <3> QED
      BY <2>3, <3>3 DEF Makers
  <2> QED
    BY <2>1, <2>2, <2>3 DEF ChooseName
<1>3. name'[s] = v /\ \A t \in Sessions \ {s} : name'[t] = name[t]
  BY <1>2 DEF TablesInv, Shapes
<1>4. Shapes'
  BY <1>1, <1>2 DEF TablesInv, Shapes, tables, Stages
<1>5. newRow[s] = None /\ pc'[s] = "chosen"
  BY <1>1 DEF TablesInv, Session, Pending, Shapes
<1>6. Kind(s) # "create_version" => first[s].pv \in versions
  <2>1. Kind(s) # "create_version" => pc[s] = "read"
    BY DEF ChooseName
  <2> QED
    BY <2>1 DEF TablesInv, Session
<1>7. Kind(s) \in Movers => Wf(s) \in workflows
  <2>1. Kind(s) \in Movers => pc[s] = "read"
    BY DEF ChooseName, Movers
  <2> QED
    BY <2>1 DEF TablesInv, Session, Active
<1>8. newVersion[s] # None => GoodVersion(newVersion[s])'
  BY <1>1 DEF TablesInv, Session, GoodVersion, HasReason, Named, tables
<1>9. HasReason(v)'
  BY <1>1, <1>2, HasReasonStays DEF tables
<1>10. Session(s)'
  BY <1>1, <1>2, <1>3, <1>5, <1>6, <1>7, <1>8, <1>9 DEF TablesInv, Session, Kind, Wf, tables
<1>11. OneWriter' /\ clock' \in Nat /\ clock <= clock'
  BY <1>1, SMT DEF TablesInv, OneWriter, Shapes
<1> QED
  BY <1>1, <1>3, <1>4, <1>10, <1>11, SessionMoves DEF TablesInv, Shapes

LEMMA ReadCurrentKeepsTables ==
    ASSUME TablesInv, NEW s \in Sessions, ReadCurrent(s)
    PROVE  TablesInv'
<1>1. /\ UNCHANGED <<tables, op, first, name, newVersion, newRow, began, clock>>
      /\ pc' = [pc EXCEPT ![s] = "current"] /\ cur' = [cur EXCEPT ![s] = Current(Wf(s))]
  BY DEF ReadCurrent, Goto
<1>2. pc[s] \in {"begun", "read", "inserted"} /\ Kind(s) \in Movers
  BY DEF ReadCurrent, Movers
<1>3. Wf(s) \in workflows
  BY <1>2 DEF ReadCurrent, TablesInv, Session, Active
<1>4. Current(Wf(s)) \in history /\ Current(Wf(s)).wf = Wf(s)
  BY <1>3, CurrentExists
<1>5. Current(Wf(s)) \in HistoryRows
  BY <1>4 DEF TablesInv, Shapes
<1>6. cur'[s] = Current(Wf(s)) /\ pc'[s] = "current" /\ \A t \in Sessions \ {s} : cur'[t] = cur[t]
  BY <1>1 DEF TablesInv, Shapes
<1>7. Shapes'
  BY <1>1, <1>5 DEF TablesInv, Shapes, tables, Stages
<1>8. newRow[s] = None
  BY <1>2 DEF TablesInv, Session, Pending
<1>9. StillThere(s)'
  BY <1>1, <1>4, <1>6 DEF StillThere, Wf, tables
<1>10. (Kind(s) = "harden" => newVersion[s] # None) /\ (Kind(s) = "upgrade" => Named(op[s].target) # {})
  <2>1. /\ Kind(s) = "harden" => pc[s] = "inserted"
        /\ Kind(s) = "upgrade" => Named(op[s].target) # {}
    BY DEF ReadCurrent
  <2> QED
    BY <2>1 DEF TablesInv, Session
<1>11. newVersion[s] # None => GoodVersion(newVersion[s])'
  BY <1>1 DEF TablesInv, Session, GoodVersion, HasReason, Named, tables
<1>12. (Named(op[s].target) # {})' <=> Named(op[s].target) # {}
  BY <1>1 DEF Named, tables
<1>13. Session(s)'
  BY <1>1, <1>2, <1>3, <1>5, <1>6, <1>8, <1>9, <1>10, <1>11, <1>12
     DEF TablesInv, Session, Kind, Wf, tables
<1>14. OneWriter' /\ clock' \in Nat /\ clock <= clock'
  BY <1>1, SMT DEF TablesInv, OneWriter, Shapes
<1> QED
  BY <1>1, <1>6, <1>7, <1>13, <1>14, SessionMoves DEF TablesInv, Shapes

LEMMA LoseKeepsTables ==
    ASSUME TablesInv, NEW s \in Sessions, Lose(s)
    PROVE  TablesInv'
<1>1. /\ UNCHANGED <<tables, op, first, name, cur, began, clock>>
      /\ pc' = [pc EXCEPT ![s] = "failed"] /\ pc[s] # "idle"
      /\ newRow' = [newRow EXCEPT ![s] = None] /\ newVersion' = [newVersion EXCEPT ![s] = None]
  BY DEF Lose, Goto
<1>2. /\ pc'[s] = "failed" /\ newRow'[s] = None /\ newVersion'[s] = None
      /\ \A t \in Sessions \ {s} : newRow'[t] = newRow[t] /\ newVersion'[t] = newVersion[t]
  BY <1>1 DEF TablesInv, Shapes
<1>3. Shapes'
  BY <1>1 DEF TablesInv, Shapes, tables, Stages
<1>4. Session(s)'
  BY <1>1, <1>2 DEF TablesInv, Session, Kind, Active
<1>5. OneWriter' /\ clock' \in Nat /\ clock <= clock'
  <2>1. OneWriter'
    BY <1>2 DEF TablesInv, OneWriter
  <2> QED
    BY <1>1, <2>1, SMT DEF TablesInv, Shapes
<1> QED
  BY <1>1, <1>2, <1>3, <1>4, <1>5, SessionMoves DEF TablesInv, Shapes

\* The threshold stays a percentage between 65 and 95.
LEMMA ThresholdsAreBounded ==
    ASSUME TablesInv, NEW s \in Sessions, Kind(s) \in Makers,
           Kind(s) # "create_version" => first[s].pv \in versions, NEW t \in Thresholds(s)
    PROVE  t \in 65 .. 95
<1>1. CASE Kind(s) = "create_version"
  BY <1>1, SMT DEF Thresholds
<1>2. CASE Kind(s) = "optimize_pipeline"
  <2>1. t \in {85, 75, 65}
    BY <1>2 DEF Thresholds
  <2> QED
    BY <2>1, SMT
<1>3. CASE Kind(s) = "harden"
  <2> DEFINE old == first[s].pv.threshold
  <2>1. old \in 65 .. 95
    BY <1>3 DEF TablesInv, VersionTable, GoodVersion
  <2>2. t = Min({95, old + 10})
    BY <1>3 DEF Thresholds
  <2>3. PICK x \in {95, old + 10} : \A y \in {95, old + 10} : x <= y
    <3>1. 95 <= old + 10 \/ old + 10 <= 95
      BY <2>1, SMT
    <3> QED
      BY <2>1, <3>1, SMT
  <2>4. t \in {95, old + 10} /\ \A y \in {95, old + 10} : t <= y
    BY <2>2, <2>3, Zenon DEF Min
  <2> QED
    BY <2>1, <2>4, SMT
<1> QED
  BY <1>1, <1>2, <1>3 DEF Makers

LEMMA InsertVersionKeepsTables ==
    ASSUME TablesInv, NEW s \in Sessions, InsertVersion(s)
    PROVE  TablesInv'
<1>1. /\ UNCHANGED <<tables, op, first, name, cur, newRow, began, clock>> /\ pc[s] = "chosen"
  BY DEF InsertVersion
<1>2. newRow[s] = None
  BY <1>1 DEF TablesInv, Session, Pending
<1>3. OneWriter' /\ clock' \in Nat /\ clock <= clock'
  BY <1>1, SMT DEF TablesInv, OneWriter, Shapes
<1>4. CASE NameTaken(s)
  <2>1. pc' = [pc EXCEPT ![s] = "failed"] /\ newVersion' = newVersion
    BY <1>4 DEF InsertVersion, Goto
  <2>2. Shapes' /\ pc'[s] = "failed"
    BY <1>1, <2>1 DEF TablesInv, Shapes, tables, Stages
  <2>3. newVersion[s] # None => GoodVersion(newVersion[s])'
    BY <1>1, <2>1 DEF TablesInv, Session, GoodVersion, HasReason, Named, tables
  <2>4. Session(s)'
    BY <1>1, <1>2, <2>1, <2>2, <2>3 DEF TablesInv, Session, Kind, Active
  <2> QED
    BY <1>1, <1>3, <2>1, <2>2, <2>4, SessionMoves DEF TablesInv, Shapes
<1>5. CASE ~NameTaken(s)
  <2>1. PICK t \in Thresholds(s) :
          newVersion' = [newVersion EXCEPT ![s] = [name |-> name[s], threshold |-> t, at |-> began[s]]]
    BY <1>5 DEF InsertVersion
  <2>2. pc' = [pc EXCEPT ![s] = "inserted"]
    BY <1>5 DEF InsertVersion, Goto
  <2>3. /\ name[s] \in Names /\ HasReason(name[s]) /\ began[s] < clock
        /\ Kind(s) \in Makers /\ (Kind(s) # "create_version" => first[s].pv \in versions)
    BY <1>1 DEF TablesInv, Session
  <2>4. t \in 65 .. 95
    BY <2>3, ThresholdsAreBounded
  <2> DEFINE row == [name |-> name[s], threshold |-> t, at |-> began[s]]
  <2>5. row \in VersionRows /\ row # None
    <3>1. t \in Nat /\ began[s] \in Nat
      BY <2>4, SMT DEF TablesInv, Shapes
    <3>2. row \in VersionRows
      BY <2>3, <3>1 DEF VersionRows
    <3> QED
      BY <3>2, OpsAssumption
  <2>6. GoodVersion(row)'
    <3>1. row.name = name[s] /\ row.threshold = t /\ row.at = began[s]
      OBVIOUS
    <3>2. HasReason(row.name)'
      BY <1>1, <2>3, <3>1, HasReasonStays DEF tables
    <3> QED
      BY <1>1, <2>3, <2>4, <3>1, <3>2 DEF GoodVersion
  <2>7. newVersion'[s] = row /\ pc'[s] = "inserted" /\ \A u \in Sessions \ {s} : newVersion'[u] = newVersion[u]
    BY <2>1, <2>2 DEF TablesInv, Shapes
  <2>8. Shapes'
    BY <1>1, <2>1, <2>2, <2>5 DEF TablesInv, Shapes, tables, Stages
  <2>9. Kind(s) \in Movers => Wf(s) \in workflows
    BY <1>1 DEF TablesInv, Session, Active
  <2>10. GoodVersion(newVersion[s])'
    BY <1>1, <2>6, <2>7 DEF GoodVersion, HasReason, Named
  <2>11. Session(s)'
    BY <1>1, <1>2, <2>5, <2>7, <2>9, <2>10 DEF TablesInv, Session, Kind, Wf, tables
  <2> QED
    BY <1>1, <1>3, <2>2, <2>7, <2>8, <2>11, SessionMoves DEF TablesInv, Shapes
<1> QED
  BY <1>4, <1>5

\* The version a mover pins its workflow to is there, or comes with its commit.
LEMMA TargetExists ==
    ASSUME TablesInv, NEW s \in Sessions, pc[s] = "current"
    PROVE  /\ Target(s) \in VersionRows
           /\ Target(s) \in versions \/ (newVersion[s] # None /\ Target(s) = newVersion[s])
<1>1. Kind(s) \in Movers /\ StillThere(s)
  BY DEF TablesInv, Session
<1>2. CASE Kind(s) = "upgrade"
  <2>1. \E row \in versions : row.name = op[s].target
    BY <1>2 DEF TablesInv, Session, Named
  <2>2. Target(s) = CHOOSE row \in versions : row.name = op[s].target
    BY <1>2 DEF Target
  <2> QED
    BY <2>1, <2>2 DEF TablesInv, Shapes
<1>3. CASE Kind(s) = "harden"
  <2>1. Target(s) = newVersion[s]
    BY <1>3 DEF Target
  <2>2. newVersion[s] # None
    BY <1>3 DEF TablesInv, Session
  <2> QED
    BY <2>1, <2>2 DEF TablesInv, Shapes
<1>4. CASE Kind(s) = "optimize_prompt"
  <2>1. Target(s) = cur[s].pv
    BY <1>4 DEF Target
  <2>2. cur[s].pv \in versions
    BY <1>1 DEF StillThere, TablesInv, HistoryTable
  <2> QED
    BY <2>1, <2>2 DEF TablesInv, Shapes
<1> QED
  BY <1>1, <1>2, <1>3, <1>4 DEF Movers

\* If the next number is free, what was read is still the end of the history.
LEMMA ReadIsLast ==
    ASSUME TablesInv, NEW s \in Sessions, pc[s] = "current", ~NumberTaken(s)
    PROVE  \E pred \in history :
               /\ pred.current /\ pred.wf = Wf(s) /\ pred.n = cur[s].n
               /\ pred.pv = cur[s].pv /\ pred.template = cur[s].template
<1>1. Wf(s) \in workflows /\ cur[s] \in HistoryRows /\ StillThere(s)
  BY DEF TablesInv, Session, Active
<1>2. PICK row \in history :
        row.wf = Wf(s) /\ row.n = cur[s].n /\ row.pv = cur[s].pv /\ row.template = cur[s].template
  BY <1>1 DEF StillThere
<1>3. PICK top \in history : IsTop(top, Wf(s))
  BY <1>1 DEF TablesInv, HistoryTable
<1>4. top.n \in Nat \ {0} /\ row.n \in Nat \ {0} /\ row.n <= top.n
  BY <1>2, <1>3 DEF IsTop, TablesInv, Shapes, HistoryRows
<1>5. ~(row.n + 1 <= top.n)
  <2>1. ASSUME row.n + 1 <= top.n PROVE FALSE
    <3>1. row.n + 1 \in 1 .. top.n
      BY <1>4, <2>1, SMT
    <3>2. \E r \in history : r.wf = Wf(s) /\ r.n = row.n + 1
      BY <1>3, <3>1 DEF TablesInv, HistoryTable, IsTop
    <3> QED
      BY <1>2, <3>2 DEF NumberTaken, NextNumber
  <2> QED
    BY <2>1
<1>6. row.n = top.n
  BY <1>4, <1>5, SMT
<1>7. row = top
  BY <1>2, <1>3, <1>6 DEF IsTop, TablesInv, HistoryTable
<1> QED
  BY <1>2, <1>3, <1>7 DEF IsTop

\* A session that now holds a row of its workflow, while nobody else did.
LEMMA WritesAlone ==
    ASSUME TablesInv, NEW s \in Sessions, NEW row \in HistoryRows, row.wf = Wf(s), op' = op,
           newRow' = [newRow EXCEPT ![s] = row],
           \A other \in Sessions : newRow[other] # None => newRow[other].wf # Wf(s)
    PROVE  OneWriter'
BY DEF TablesInv, Shapes, OneWriter

LEMMA WriteKeepsTables ==
    ASSUME TablesInv, NEW s \in Sessions, Write(s)
    PROVE  TablesInv'
<1>1. /\ UNCHANGED <<tables, op, first, name, cur, began, clock>> /\ pc[s] = "current"
      /\ \A other \in Sessions : newRow[other] # None => newRow[other].wf # Wf(s)
  BY DEF Write, Delayed, WaitsFor
<1>2. newRow[s] = None /\ Kind(s) \in Movers /\ cur[s] \in HistoryRows /\ Wf(s) \in workflows
  BY <1>1 DEF TablesInv, Session, Pending, Active
<1>3. clock' \in Nat /\ clock <= clock'
  BY <1>1, SMT DEF TablesInv, Shapes
<1>4. CASE NumberTaken(s)
  <2>1. /\ pc' = [pc EXCEPT ![s] = "failed"] /\ newRow' = newRow
        /\ newVersion' = [newVersion EXCEPT ![s] = None]
    BY <1>4 DEF Write, Goto
  <2>2. /\ Shapes' /\ pc'[s] = "failed" /\ newVersion'[s] = None
        /\ \A t \in Sessions \ {s} : newVersion'[t] = newVersion[t]
    BY <1>1, <2>1 DEF TablesInv, Shapes, tables, Stages
  <2>3. Session(s)'
    BY <1>1, <1>2, <2>1, <2>2 DEF TablesInv, Session, Kind, Active
  <2>4. OneWriter'
    BY <2>1 DEF TablesInv, OneWriter
  <2> QED
    BY <1>1, <1>3, <2>1, <2>2, <2>3, <2>4, SessionMoves DEF TablesInv, Shapes
<1>5. CASE ~NumberTaken(s)
  <2> DEFINE row == [wf |-> Wf(s), n |-> NextNumber(s), pv |-> Target(s), source |-> cur[s].pv.name,
                     template |-> Template(s), by |-> Kind(s), current |-> TRUE]
  <2>1. /\ newRow' = [newRow EXCEPT ![s] = row] /\ newVersion' = newVersion
        /\ pc' = [pc EXCEPT ![s] = "written"]
    BY <1>5, Zenon DEF Write, Goto
  <2>2. /\ Target(s) \in VersionRows
        /\ Target(s) \in versions \/ (newVersion[s] # None /\ Target(s) = newVersion[s])
    BY <1>1, TargetExists
  <2>3. row \in HistoryRows
    <3>1. Wf(s) \in Workflows /\ Kind(s) \in OpKinds
      BY <1>2 DEF TablesInv, Shapes, Movers, OpKinds
    <3>2. NextNumber(s) \in Nat \ {0} /\ cur[s].pv.name \in Names /\ Template(s) \in Sessions \cup {None}
      BY <1>2 DEF HistoryRows, VersionRows, NextNumber, Template
    <3> QED
      BY <2>2, <3>1, <3>2 DEF HistoryRows
  <2>4. \E pred \in history : pred.current /\ Follows(row, pred)
    <3>1. PICK pred \in history :
            /\ pred.current /\ pred.wf = Wf(s) /\ pred.n = cur[s].n
            /\ pred.pv = cur[s].pv /\ pred.template = cur[s].template
      BY <1>1, <1>5, ReadIsLast
    <3>2. pred.n = row.n - 1
      BY <1>2, <3>1 DEF HistoryRows, NextNumber
    <3>3. row.by = "optimize_prompt" => row.pv = pred.pv
      BY <3>1 DEF Target
    <3>4. row.by # "optimize_prompt" => row.template = pred.template
      BY <3>1 DEF Template
    <3> QED
      BY <3>1, <3>2, <3>3, <3>4 DEF Follows
  <2>5. newRow'[s] = row /\ pc'[s] = "written" /\ \A t \in Sessions \ {s} : newRow'[t] = newRow[t]
    BY <2>1 DEF TablesInv, Shapes
  <2>6. Shapes'
    BY <1>1, <2>1, <2>3 DEF TablesInv, Shapes, tables, Stages
  <2>7. OneWriter'
    BY <1>1, <2>1, <2>3, WritesAlone
  <2>8. Pending(s)'
    <3>1. Fits(s)'
      BY <1>1, <2>4, <2>5 DEF Fits, tables
    <3> QED
      BY <1>1, <2>1, <2>2, <2>5, <3>1 DEF Pending, Wf, tables
  <2>9. newVersion[s] # None => GoodVersion(newVersion[s])'
    BY <1>1, <2>1 DEF TablesInv, Session, GoodVersion, HasReason, Named, tables
  <2>10. Session(s)'
    BY <1>1, <1>2, <2>1, <2>5, <2>8, <2>9 DEF TablesInv, Session, Kind, Wf, tables
  <2> QED
    BY <1>1, <1>3, <2>1, <2>5, <2>6, <2>7, <2>10, SessionMoves DEF TablesInv, Shapes
<1> QED
  BY <1>4, <1>5

LEMMA CreateWorkflowKeepsTables ==
    ASSUME TablesInv, NEW s \in Sessions, CreateWorkflow(s)
    PROVE  TablesInv'
<1>1. /\ UNCHANGED <<tables, op, first, name, newVersion, cur, began, clock>>
      /\ pc[s] = "read" /\ Kind(s) = "create_workflow"
      /\ \A other \in Sessions : newRow[other] # None => newRow[other].wf # Wf(s)
  BY DEF CreateWorkflow, Delayed, WaitsFor
<1>2. newRow[s] = None /\ first[s].pv \in versions /\ op[s] \in Requests
  BY <1>1 DEF TablesInv, Session, Pending
<1>3. clock' \in Nat /\ clock <= clock'
  BY <1>1, SMT DEF TablesInv, Shapes
<1>4. newVersion[s] # None => GoodVersion(newVersion[s])'
  BY <1>1 DEF TablesInv, Session, GoodVersion, HasReason, Named, tables
<1>5. CASE Wf(s) \in workflows
  <2>1. pc' = [pc EXCEPT ![s] = "failed"] /\ newRow' = newRow
    BY <1>5 DEF CreateWorkflow, Goto
  <2>2. Shapes' /\ pc'[s] = "failed"
    BY <1>1, <2>1 DEF TablesInv, Shapes, tables, Stages
  <2>3. Session(s)'
    BY <1>1, <1>2, <1>4, <2>1, <2>2 DEF TablesInv, Session, Kind, Active
  <2>4. OneWriter'
    BY <2>1 DEF TablesInv, OneWriter
  <2> QED
    BY <1>1, <1>3, <2>1, <2>2, <2>3, <2>4, SessionMoves DEF TablesInv, Shapes
<1>6. CASE Wf(s) \notin workflows
  <2> DEFINE row == FirstRow(Wf(s), first[s].pv)
  <2>1. pc' = [pc EXCEPT ![s] = "written"] /\ newRow' = [newRow EXCEPT ![s] = row]
    BY <1>6 DEF CreateWorkflow, Goto
  <2>2. row \in HistoryRows
    BY <1>2 DEF FirstRow, HistoryRows, Requests, Wf, TablesInv, Shapes, OpKinds
  <2>3. row.wf = Wf(s) /\ row.n = 1 /\ row.pv = first[s].pv /\ row.current
    BY DEF FirstRow
  <2>4. newRow'[s] = row /\ pc'[s] = "written" /\ \A t \in Sessions \ {s} : newRow'[t] = newRow[t]
    BY <2>1 DEF TablesInv, Shapes
  <2>5. Shapes'
    BY <1>1, <2>1, <2>2 DEF TablesInv, Shapes, tables, Stages
  <2>6. OneWriter'
    BY <1>1, <2>1, <2>2, <2>3, WritesAlone
  <2>7. Pending(s)'
    BY <1>1, <1>2, <1>6, <2>3, <2>4 DEF Pending, Fits, Wf, tables
  <2>8. Session(s)'
    BY <1>1, <1>2, <1>4, <2>4, <2>7 DEF TablesInv, Session, Kind, Wf, tables, Movers
  <2> QED
    BY <1>1, <1>3, <2>1, <2>4, <2>5, <2>6, <2>8, SessionMoves DEF TablesInv, Shapes
<1> QED
  BY <1>5, <1>6

\* What a commit makes of the rows that are there.
Put(old, row) == IF old.wf = row.wf THEN [old EXCEPT !.current = FALSE] ELSE old

LEMMA PutChangesOnlyTheFlag ==
    ASSUME NEW old \in HistoryRows, NEW row \in HistoryRows
    PROVE  /\ Put(old, row) \in HistoryRows
           /\ Put(old, row).wf = old.wf /\ Put(old, row).n = old.n /\ Put(old, row).pv = old.pv
           /\ Put(old, row).source = old.source /\ Put(old, row).template = old.template
           /\ Put(old, row).by = old.by
           /\ Put(old, row).current = (old.current /\ old.wf # row.wf)
BY DEF Put, HistoryRows

\* Appending a row that fits keeps the history of every workflow one chain.
LEMMA AppendKeepsHistory ==
    ASSUME TablesInv, NEW s \in Sessions, newRow[s] # None,
           history' = Appended(newRow[s]), workflows' = workflows \cup {Wf(s)},
           versions \subseteq versions', newRow[s].pv \in versions'
    PROVE  HistoryTable' /\ history' \subseteq HistoryRows
<1> DEFINE row == newRow[s]
           put(old) == Put(old, row)
<1>1. row \in HistoryRows /\ row.wf = Wf(s) /\ row.current /\ Fits(s)
  BY DEF TablesInv, Shapes, Session, Pending
<1>2. history' = {put(old) : old \in history} \cup {row}
  BY DEF Appended, Put
<1>3. \A old \in history :
        /\ put(old) \in HistoryRows
        /\ put(old).wf = old.wf /\ put(old).n = old.n /\ put(old).pv = old.pv
        /\ put(old).source = old.source /\ put(old).template = old.template /\ put(old).by = old.by
        /\ put(old).current = (old.current /\ old.wf # row.wf)
  BY <1>1, PutChangesOnlyTheFlag DEF TablesInv, Shapes
<1> HIDE DEF put, row
<1>4. history' \subseteq HistoryRows
  BY <1>1, <1>2, <1>3
<1>5. \A r \in history' : r.wf \in workflows' /\ r.pv \in versions'
  BY <1>1, <1>2, <1>3 DEF TablesInv, HistoryTable, row
<1>6. \A old \in history : old.wf = row.wf => old.n < row.n
  <2>1. CASE row.n = 1 /\ row.wf \notin workflows
    BY <2>1 DEF TablesInv, HistoryTable
  <2>2. CASE \E pred \in history : pred.current /\ Follows(row, pred)
    <3>1. PICK pred \in history : pred.current /\ Follows(row, pred)
      BY <2>2
    <3>2. PICK top \in history : IsTop(top, row.wf)
      BY <3>1 DEF TablesInv, HistoryTable, Follows
    <3>3. pred = top /\ pred.n = row.n - 1
      BY <3>1, <3>2 DEF IsTop, Follows
    <3> QED
      BY <1>1, <3>2, <3>3, SMT DEF IsTop, TablesInv, Shapes, HistoryRows
  <2> QED
    BY <1>1, <2>1, <2>2 DEF Fits, row
<1>7. \A a, b \in history' : a.wf = b.wf /\ a.n = b.n => a = b
  <2>1. ASSUME NEW a \in history, NEW b \in history, put(a).wf = put(b).wf, put(a).n = put(b).n
        PROVE  put(a) = put(b)
    BY <1>3, <2>1 DEF TablesInv, HistoryTable
  <2>2. ASSUME NEW a \in history, put(a).wf = row.wf PROVE put(a).n # row.n
    BY <1>1, <1>3, <1>6, <2>2, SMT DEF HistoryRows
  <2> QED
    BY <1>2, <2>1, <2>2
<1>8. ASSUME NEW r \in history', NEW k \in 1 .. r.n
      PROVE  \E q \in history' : q.wf = r.wf /\ q.n = k
  <2>1. ASSUME NEW old \in history, k \in 1 .. old.n
        PROVE  \E q \in history' : q.wf = old.wf /\ q.n = k
    <3>1. PICK q \in history : q.wf = old.wf /\ q.n = k
      BY <2>1 DEF TablesInv, HistoryTable
    <3>2. put(q) \in history' /\ put(q).wf = old.wf /\ put(q).n = k
      BY <1>2, <1>3, <3>1
    <3> QED
      BY <3>2
  <2>2. ASSUME k \in 1 .. row.n PROVE \E q \in history' : q.wf = row.wf /\ q.n = k
    <3>1. CASE k = row.n
      BY <1>2, <3>1
    <3>2. CASE k # row.n
      <4>1. row.n # 1
        BY <2>2, <3>2, SMT
      <4>2. PICK pred \in history : pred.current /\ Follows(row, pred)
        BY <1>1, <4>1 DEF Fits, row
      <4>3. pred.n = row.n - 1 /\ pred.wf = row.wf
        BY <4>2 DEF Follows
      <4>4. k \in 1 .. pred.n
        BY <1>1, <2>2, <3>2, <4>3, SMT DEF HistoryRows
      <4> QED
        BY <2>1, <4>3, <4>4
    <3> QED
      BY <3>1, <3>2
  <2>3. CASE r = row
    BY <2>2, <2>3
  <2>4. ASSUME NEW old \in history, r = put(old) PROVE \E q \in history' : q.wf = r.wf /\ q.n = k
    <3>1. r.n = old.n /\ r.wf = old.wf
      BY <1>3, <2>4
    <3> QED
      BY <2>1, <3>1
  <2> QED
    BY <1>2, <2>3, <2>4
<1>9. ASSUME NEW w \in workflows' PROVE \E top \in history' : IsTop(top, w)'
  <2>1. CASE w = row.wf
    <3>1. \A other \in history' : other.wf = w => other.n <= row.n /\ (other.current => other = row)
      <4>1. ASSUME NEW old \in history, put(old).wf = w PROVE put(old).n <= row.n /\ ~put(old).current
        BY <1>1, <1>3, <1>6, <2>1, <4>1, SMT DEF HistoryRows
      <4>2. row.n <= row.n
        BY <1>1, SMT DEF HistoryRows
      <4> QED
        BY <1>2, <4>1, <4>2
    <3>2. row \in history' /\ row.current /\ row.wf = w
      BY <1>1, <1>2, <2>1
    <3> QED
      BY <3>1, <3>2, Zenon DEF IsTop
  <2>2. CASE w # row.wf
    <3>1. PICK top \in history : IsTop(top, w)
      BY <1>1, <2>2 DEF TablesInv, HistoryTable
    <3>2. put(top) \in history' /\ put(top).wf = w /\ put(top).current
      BY <1>2, <1>3, <2>2, <3>1 DEF IsTop
    <3>3. ASSUME NEW old \in history, put(old).wf = w
          PROVE  put(old).n <= put(top).n /\ (put(old).current => put(old) = put(top))
      BY <1>3, <2>2, <3>1, <3>3 DEF IsTop
    <3>4. \A other \in history' : other.wf = w => other.n <= put(top).n /\ (other.current => other = put(top))
      BY <1>2, <2>2, <3>3
    <3> QED
      BY <3>2, <3>4, Zenon DEF IsTop
  <2> QED
    BY <2>1, <2>2
<1>10. ASSUME NEW r \in history' PROVE r.n = 1 \/ \E pred \in history' : Follows(r, pred)
  <2>1. ASSUME NEW a \in history, Follows(row, a) PROVE Follows(row, put(a))
    BY <1>3, <2>1 DEF Follows
  <2>2. ASSUME NEW a \in history, NEW b \in history, Follows(b, a) PROVE Follows(put(b), put(a))
    BY <1>3, <2>2 DEF Follows
  <2>3. CASE r = row
    BY <1>1, <1>2, <2>1, <2>3 DEF Fits, row
  <2>4. ASSUME NEW b \in history, r = put(b) PROVE r.n = 1 \/ \E pred \in history' : Follows(r, pred)
    <3>1. b.n = 1 \/ \E a \in history : Follows(b, a)
      BY DEF TablesInv, HistoryTable
    <3> QED
      BY <1>2, <1>3, <2>2, <2>4, <3>1
  <2> QED
    BY <1>2, <2>3, <2>4
<1> QED
  BY <1>4, <1>5, <1>7, <1>8, <1>9, <1>10, Zenon DEF HistoryTable

\* Adding a good row keeps the table of versions.
LEMMA AddKeepsVersions ==
    ASSUME TablesInv, NEW s \in Sessions, clock' = clock,
           versions' = IF newVersion[s] # None THEN versions \cup {newVersion[s]} ELSE versions
    PROVE  VersionTable' /\ versions' \subseteq VersionRows
<1>1. \A row \in versions : GoodVersion(row)'
  <2>1. versions \subseteq versions'
    OBVIOUS
  <2> QED
    BY <2>1, HasReasonStays DEF TablesInv, VersionTable, GoodVersion, HasReason, Named
<1>2. CASE newVersion[s] = None
  BY <1>2, <1>1 DEF TablesInv, VersionTable, Shapes
<1>3. CASE newVersion[s] # None
  <2>1. PICK new : new = newVersion[s] /\ new \in VersionRows /\ GoodVersion(new) /\ versions' = versions \cup {new}
    BY <1>3 DEF TablesInv, Shapes, Session
  <2>2. GoodVersion(new)'
    BY <2>1 DEF GoodVersion, HasReason, Named
  <2>3. \E row \in versions' : \A other \in versions' : other.at <= row.at
    <3>1. PICK row \in versions : \A other \in versions : other.at <= row.at
      BY DEF TablesInv, VersionTable
    <3>2. new.at \in Nat /\ \A other \in versions : other.at \in Nat
      BY <2>1 DEF TablesInv, Shapes, VersionRows
    <3>3. CASE new.at <= row.at
      BY <2>1, <3>1, <3>3
    <3>4. CASE ~(new.at <= row.at)
      <4>1. \A other \in versions' : other.at <= new.at
        BY <2>1, <3>1, <3>2, <3>4, SMT
      <4> QED
        BY <2>1, <4>1
    <3> QED
      BY <3>3, <3>4
  <2>4. \E row \in versions' : \A other \in versions' : other.name.patch <= row.name.patch
    <3>1. PICK row \in versions : \A other \in versions : other.name.patch <= row.name.patch
      BY DEF TablesInv, VersionTable
    <3>2. new.name.patch \in Nat /\ \A other \in versions : other.name.patch \in Nat
      BY <2>1 DEF TablesInv, Shapes, VersionRows, Names
    <3>3. CASE new.name.patch <= row.name.patch
      BY <2>1, <3>1, <3>3
    <3>4. CASE ~(new.name.patch <= row.name.patch)
      <4>1. \A other \in versions' : other.name.patch <= new.name.patch
        BY <2>1, <3>1, <3>2, <3>4, SMT
      <4> QED
        BY <2>1, <4>1
    <3> QED
      BY <3>3, <3>4
  <2>5. \A row \in versions' : GoodVersion(row)'
    BY <1>1, <2>1, <2>2
  <2>6. versions' \subseteq VersionRows
    BY <2>1 DEF TablesInv, Shapes
  <2> QED
    BY <2>3, <2>4, <2>5, <2>6 DEF VersionTable
<1> QED
  BY <1>2, <1>3

\* Another session keeps what it holds when session s commits.
LEMMA OthersSurviveCommit ==
    ASSUME TablesInv, NEW s \in Sessions, NEW t \in Sessions \ {s}, Commit(s)
    PROVE  Session(t)'
<1>1. /\ UNCHANGED <<op, first, name, cur, began, clock>>
      /\ newRow' = [newRow EXCEPT ![s] = None] /\ newVersion' = [newVersion EXCEPT ![s] = None]
      /\ pc' = [pc EXCEPT ![s] = "done"] /\ versions \subseteq versions'
  BY DEF Commit, Goto
<1>2. newRow'[t] = newRow[t] /\ newVersion'[t] = newVersion[t] /\ pc'[t] = pc[t]
  BY <1>1 DEF TablesInv, Shapes
<1>3. workflows \subseteq workflows'
  BY DEF Commit
<1>4. newVersion[t] # None => GoodVersion(newVersion[t])'
  BY <1>1, <1>2 DEF TablesInv, Session, GoodVersion, HasReason, Named
<1>5. pc[t] = "chosen" => HasReason(name[t])'
  BY <1>1 DEF TablesInv, Session, HasReason, Named
<1>6. pc[t] = "current" => StillThere(t)'
  <2>1. CASE newRow[s] = None
    BY <1>1, <2>1 DEF Commit, TablesInv, Session, StillThere, Wf
  <2>2. CASE newRow[s] # None /\ pc[t] = "current"
    <3>1. PICK row \in history : /\ row.wf = Wf(t) /\ row.n = cur[t].n /\ row.pv = cur[t].pv
                                 /\ row.template = cur[t].template
      BY <2>2 DEF TablesInv, Session, StillThere
    <3>2. row \in HistoryRows /\ newRow[s] \in HistoryRows
      BY <2>2 DEF TablesInv, Shapes
    <3>3. Put(row, newRow[s]) \in history'
      BY <2>2 DEF Commit, Appended, Put
    <3>4. /\ Put(row, newRow[s]).wf = row.wf /\ Put(row, newRow[s]).n = row.n
          /\ Put(row, newRow[s]).pv = row.pv /\ Put(row, newRow[s]).template = row.template
      BY <3>2, PutChangesOnlyTheFlag
    <3> QED
      BY <1>1, <3>1, <3>3, <3>4 DEF StillThere, Wf
  <2> QED
    BY <2>1, <2>2
<1>7. newRow[t] # None => Pending(t)'
  <2>1. ASSUME newRow[t] # None PROVE Fits(t)'
    <3>1. Fits(t)
      BY <2>1 DEF TablesInv, Session, Pending
    <3>2. CASE newRow[s] = None
      BY <1>2, <3>1, <3>2 DEF Commit, Fits
    <3>3. CASE newRow[s] # None
      <4>1. newRow[t].wf # newRow[s].wf /\ newRow[s].wf = Wf(s)
        BY <2>1, <3>3 DEF TablesInv, OneWriter, Session, Pending
      <4>2. workflows' = workflows \cup {Wf(s)} /\ history' = Appended(newRow[s])
        BY <3>3 DEF Commit
      <4>3. ASSUME NEW pred \in history, Follows(newRow[t], pred) PROVE pred \in history'
        BY <4>1, <4>2, <4>3 DEF Appended, Follows
      <4> QED
        BY <1>2, <3>1, <4>1, <4>2, <4>3 DEF Fits
    <3> QED
      BY <3>2, <3>3
  <2> QED
    BY <1>1, <1>2, <2>1 DEF TablesInv, Session, Pending, Wf
<1>8. (Named(op[t].target) # {}) => (Named(op[t].target) # {})'
  BY <1>1 DEF Named
<1> QED
  BY <1>1, <1>2, <1>3, <1>4, <1>5, <1>6, <1>7, <1>8 DEF TablesInv, Session, Kind, Wf

LEMMA CommitKeepsTables ==
    ASSUME TablesInv, NEW s \in Sessions, Commit(s)
    PROVE  TablesInv'
<1>1. /\ UNCHANGED <<op, first, name, cur, began, clock>>
      /\ newRow' = [newRow EXCEPT ![s] = None] /\ newVersion' = [newVersion EXCEPT ![s] = None]
      /\ pc' = [pc EXCEPT ![s] = "done"] /\ pc[s] \in {"written", "inserted"}
      /\ versions' = IF newVersion[s] # None THEN versions \cup {newVersion[s]} ELSE versions
  BY DEF Commit, Goto
<1>2. VersionTable' /\ versions' \subseteq VersionRows /\ versions \subseteq versions'
  BY <1>1, AddKeepsVersions
<1>3. HistoryTable' /\ history' \subseteq HistoryRows /\ workflows' \subseteq Workflows
  <2>1. CASE newRow[s] = None
    <3>1. history' = history /\ workflows' = workflows
      BY <2>1 DEF Commit
    <3> QED
      BY <1>2, <3>1 DEF TablesInv, HistoryTable, IsTop, Shapes
  <2>2. CASE newRow[s] # None
    <3>1. history' = Appended(newRow[s]) /\ workflows' = workflows \cup {Wf(s)}
      BY <2>2 DEF Commit
    <3>2. newRow[s].pv \in versions'
      BY <1>1, <1>2, <2>2 DEF TablesInv, Session, Pending
    <3>3. Wf(s) \in Workflows
      BY <1>1 DEF TablesInv, Session, Requests, Wf
    <3> QED
      BY <1>2, <2>2, <3>1, <3>2, <3>3, AppendKeepsHistory DEF TablesInv, Shapes
  <2> QED
    BY <2>1, <2>2
<1>4. /\ newRow'[s] = None /\ newVersion'[s] = None /\ pc'[s] = "done"
      /\ \A t \in Sessions \ {s} : newRow'[t] = newRow[t]
  BY <1>1 DEF TablesInv, Shapes
<1>5. Shapes'
  BY <1>1, <1>2, <1>3 DEF TablesInv, Shapes, Stages
<1>6. Session(s)'
  BY <1>1, <1>4 DEF TablesInv, Session, Kind, Active
<1>7. OneWriter'
  BY <1>4 DEF TablesInv, OneWriter
<1> QED
  BY <1>2, <1>3, <1>5, <1>6, <1>7, OthersSurviveCommit DEF TablesInv

LEMMA InitTables == Init => TablesInv
<1> SUFFICES ASSUME Init PROVE TablesInv
  OBVIOUS
<1>1. <<>> \in Seq(SuffixWords)
  OBVIOUS
<1>2. FirstVersion \in VersionRows /\ FirstVersion.name = Semver(0) /\ FirstVersion.threshold = 70 /\ FirstVersion.at = 0
  BY <1>1 DEF FirstVersion, VersionRows, Names, Semver
<1>3. \A w \in Existing :
        /\ FirstRow(w, FirstVersion) \in HistoryRows /\ FirstRow(w, FirstVersion).wf = w
        /\ FirstRow(w, FirstVersion).n = 1 /\ FirstRow(w, FirstVersion).pv = FirstVersion
        /\ FirstRow(w, FirstVersion).current
  BY <1>2, OpsAssumption DEF FirstRow, HistoryRows, OpKinds
<1>4. Shapes
  BY <1>2, <1>3, OpsAssumption DEF Init, Shapes, Stages
<1>5. VersionTable
  <2>1. GoodVersion(FirstVersion)
    BY <1>2, SMT DEF Init, GoodVersion, HasReason, IsSemver, Semver
  <2>2. FirstVersion.at <= FirstVersion.at /\ FirstVersion.name.patch <= FirstVersion.name.patch
    BY <1>2, SMT DEF Semver
  <2> QED
    BY <2>1, <2>2 DEF Init, VersionTable
<1>6. HistoryTable
  <2> DEFINE R(w) == FirstRow(w, FirstVersion)
  <2>1. history = {R(w) : w \in Existing} /\ workflows = Existing /\ versions = {FirstVersion}
    BY DEF Init
  <2> HIDE DEF R
  <2>2. \A w \in Existing : R(w).wf = w /\ R(w).n = 1 /\ R(w).pv = FirstVersion /\ R(w).current
    BY <1>3 DEF R
  <2>3. \A row \in history : \A k \in 1 .. row.n : k = 1 /\ row.n = 1
    BY <2>1, <2>2, SMT
  <2>4. \A w \in workflows : IsTop(R(w), w) /\ R(w) \in history
    BY <2>1, <2>2, SMT DEF IsTop
  <2> QED
    BY <2>1, <2>2, <2>3, <2>4 DEF HistoryTable
<1>7. \A s \in Sessions : Session(s)
  BY SMT DEF Init, Session, Active
<1>8. OneWriter
  BY DEF Init, OneWriter
<1> QED
  BY <1>4, <1>5, <1>6, <1>7, <1>8 DEF TablesInv

LEMMA StepKeepsTables == TablesInv /\ [Next]_vars => TablesInv'
<1> SUFFICES ASSUME TablesInv, [Next]_vars PROVE TablesInv'
  OBVIOUS
<1>1. CASE UNCHANGED vars
  BY <1>1 DEF vars, TablesInv, Shapes, VersionTable, GoodVersion, HasReason, Named, HistoryTable, IsTop,
              Session, Kind, Wf, StillThere, Pending, Fits, OneWriter
<1>2. CASE Next
  BY <1>2, BeginKeepsTables, RefuseKeepsTables, ReadFirstKeepsTables, ChooseNameKeepsTables,
     InsertVersionKeepsTables, ReadCurrentKeepsTables, WriteKeepsTables, CreateWorkflowKeepsTables,
     CommitKeepsTables, LoseKeepsTables DEF Next, Step
<1> QED
  BY <1>1, <1>2

LEMMA InvImpliesConsistent == TablesInv => TablesAreConsistent
<1> SUFFICES ASSUME TablesInv PROVE TablesAreConsistent
  OBVIOUS
<1>1. TypeOK
  BY DEF TablesInv, TypeOK, Shapes, VersionTable, GoodVersion, HistoryTable, VersionRows, Names, HistoryRows,
         Session, Pending
<1>2. ASSUME NEW w \in workflows
      PROVE  LET rows == {row \in history : row.wf = w}
             IN /\ Cardinality({row \in rows : row.current}) = 1
                /\ \A row \in rows : row.current <=> \A other \in rows : other.n <= row.n
  <2>1. PICK top \in history : IsTop(top, w)
    BY DEF TablesInv, HistoryTable
  <2> DEFINE rows == {row \in history : row.wf = w}
  <2>2. {row \in rows : row.current} = {top}
    BY <2>1 DEF IsTop
  <2>3. Cardinality({top}) = 1
    BY FS_Singleton
  <2>4. ASSUME NEW row \in rows PROVE row.current <=> \A other \in rows : other.n <= row.n
    <3>1. CASE row = top
      BY <2>1, <3>1 DEF IsTop
    <3>2. CASE row # top
      <4>1. ~row.current /\ row.n <= top.n /\ row.n # top.n /\ row.n \in Nat /\ top.n \in Nat
        BY <2>1, <3>2 DEF IsTop, TablesInv, HistoryTable, Shapes, HistoryRows
      <4>2. ~(top.n <= row.n)
        BY <4>1, SMT
      <4> QED
        BY <2>1, <4>1, <4>2 DEF IsTop
    <3> QED
      BY <3>1, <3>2
  <2> QED
    BY <2>2, <2>3, <2>4
<1>3. HistoryIsChain
  BY DEF TablesInv, HistoryTable, HistoryIsChain, Follows
<1>4. SuffixesHaveAReason
  BY DEF TablesInv, VersionTable, GoodVersion, HasReason, Stripped, SuffixesHaveAReason
<1> QED
  BY <1>1, <1>2, <1>3, <1>4 DEF OneCurrentVersion, TablesAreConsistent

\* Whatever sessions overlap, wait for each other or are lost, readers find one
\* current version of every workflow, its newest, at the end of a chain without
\* gaps whose rows say truly what they were made from; every pinned pipeline
\* version exists, and a name has a suffix only if the plain name was taken.
THEOREM TablesStayConsistent == Spec => []TablesAreConsistent
BY InitTables, StepKeepsTables, InvImpliesConsistent, PTL DEF Spec

----------------------------------------------------------------------------
(* The order of the locks *)

\* The key of a version name is held from the INSERT to the end of the session,
\* never by a session that has a pipeline version to insert or a workflow to create.
KeysAreHeldLate ==
    \A s \in Sessions : newVersion[s] # None => pc[s] \in {"inserted", "current", "written"}

LEMMA InitHoldsNoKey == Init => KeysAreHeldLate
BY DEF Init, KeysAreHeldLate

LEMMA StepHoldsKeysLate == TablesInv /\ KeysAreHeldLate /\ [Next]_vars => KeysAreHeldLate'
<1> SUFFICES ASSUME TablesInv, KeysAreHeldLate, [Next]_vars PROVE KeysAreHeldLate'
  OBVIOUS
<1>1. CASE UNCHANGED vars
  BY <1>1 DEF KeysAreHeldLate, vars
<1>2. ASSUME NEW s \in Sessions, Begin(s) \/ Refuse(s) \/ ReadFirst(s) \/ ChooseName(s) \/ CreateWorkflow(s)
      PROVE  KeysAreHeldLate'
  <2>1. newVersion' = newVersion /\ pc[s] \in {"idle", "begun", "read"}
    BY <1>2 DEF Begin, Refuse, ReadFirst, ChooseName, CreateWorkflow, session
  <2>2. \A t \in Sessions \ {s} : pc'[t] = pc[t]
    BY <1>2 DEF Begin, Refuse, ReadFirst, ChooseName, CreateWorkflow, Goto, TablesInv, Shapes
  <2> QED
    BY <2>1, <2>2 DEF KeysAreHeldLate
<1>3. ASSUME NEW s \in Sessions, InsertVersion(s) PROVE KeysAreHeldLate'
  <2>1. newVersion' = newVersion \/ pc' = [pc EXCEPT ![s] = "inserted"]
    BY <1>3 DEF InsertVersion, Goto
  <2>2. \A t \in Sessions \ {s} : pc'[t] = pc[t] /\ newVersion'[t] = newVersion[t]
    BY <1>3 DEF InsertVersion, Goto, TablesInv, Shapes
  <2>3. pc[s] = "chosen"
    BY <1>3 DEF InsertVersion
  <2>4. newVersion'[s] # None => pc'[s] = "inserted"
    BY <2>1, <2>3 DEF KeysAreHeldLate, TablesInv, Shapes
  <2> QED
    BY <2>2, <2>4 DEF KeysAreHeldLate
<1>4. ASSUME NEW s \in Sessions, ReadCurrent(s) PROVE KeysAreHeldLate'
  BY <1>4 DEF ReadCurrent, Goto, KeysAreHeldLate, TablesInv, Shapes
<1>5. ASSUME NEW s \in Sessions, Write(s) PROVE KeysAreHeldLate'
  <2>1. \/ newVersion' = [newVersion EXCEPT ![s] = None] /\ pc' = [pc EXCEPT ![s] = "failed"]
        \/ newVersion' = newVersion /\ pc' = [pc EXCEPT ![s] = "written"]
    BY <1>5 DEF Write, Goto
  <2> QED
    BY <2>1 DEF KeysAreHeldLate, TablesInv, Shapes
<1>6. ASSUME NEW s \in Sessions, Commit(s) \/ Lose(s) PROVE KeysAreHeldLate'
  <2>1. /\ newVersion' = [newVersion EXCEPT ![s] = None]
        /\ \A t \in Sessions \ {s} : pc'[t] = pc[t]
    BY <1>6 DEF Commit, Lose, Goto, TablesInv, Shapes
  <2> QED
    BY <2>1 DEF KeysAreHeldLate, TablesInv, Shapes
<1>7. CASE Next
  BY <1>7, <1>2, <1>3, <1>4, <1>5, <1>6 DEF Next, Step
<1> QED
  BY <1>1, <1>7

\* Whoever holds a row of a workflow has nothing left to do but to commit, and
\* whoever holds the key of a name waits for rows of workflows only.
LEMMA LocksAreOrdered ==
    ASSUME TablesInv, KeysAreHeldLate, NEW s \in Sessions, NEW t \in Sessions, WaitsFor(s, t)
    PROVE  \/ \A u \in Sessions : ~WaitsFor(t, u)
           \/ \A u \in Sessions : WaitsFor(t, u) => \A v \in Sessions : ~WaitsFor(u, v)
<1>1. ASSUME NEW u \in Sessions, newRow[u] # None PROVE \A v \in Sessions : ~WaitsFor(u, v)
  BY <1>1 DEF TablesInv, Session, Pending, WaitsFor
<1>2. CASE newRow[t] # None
  BY <1>1, <1>2
<1>3. CASE newRow[t] = None
  <2>1. newVersion[t] # None
    BY <1>3 DEF WaitsFor
  <2>2. ASSUME NEW u \in Sessions, WaitsFor(t, u) PROVE newRow[u] # None
    BY <2>1, <2>2 DEF KeysAreHeldLate, WaitsFor
  <2> QED
    BY <1>1, <2>2
<1> QED
  BY <1>2, <1>3

LEMMA OrderedLocksHaveNoCircle == TablesInv /\ KeysAreHeldLate => NoCircle
<1> SUFFICES ASSUME TablesInv, KeysAreHeldLate,
                    NEW group \in SUBSET Sessions, NEW s \in group,
                    \A member \in group : \E other \in group : WaitsFor(member, other)
             PROVE  FALSE
  BY DEF NoCircle
<1>1. PICK t \in group : WaitsFor(s, t)
  OBVIOUS
<1>2. PICK u \in group : WaitsFor(t, u)
  OBVIOUS
<1>3. PICK v \in group : WaitsFor(u, v)
  OBVIOUS
<1> QED
  BY <1>1, <1>2, <1>3, LocksAreOrdered

\* Sessions never wait for each other in a circle, for every number of sessions
\* and workflows: a hardening may hold the key of a version name while it waits
\* for the rows of its workflow, but whoever holds those rows waits for nobody.
THEOREM NobodyWaitsInACircle == Spec => []NoCircle
<1>1. Init => TablesInv /\ KeysAreHeldLate
  BY InitTables, InitHoldsNoKey
<1>2. TablesInv /\ KeysAreHeldLate /\ [Next]_vars => TablesInv' /\ KeysAreHeldLate'
  BY StepKeepsTables, StepHoldsKeysLate
<1> QED
  BY <1>1, <1>2, OrderedLocksHaveNoCircle, PTL DEF Spec
=============================================================================
