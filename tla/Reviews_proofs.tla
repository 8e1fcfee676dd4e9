----------------------------- MODULE Reviews_proofs -----------------------------
(***************************************************************************)
(* Proofs about Reviews, for every set of tasks and requests, every SLA,   *)
(* page size, clock and number of paging clients; and about what a listing *)
(* may show, for every table of keys and every request.                    *)
(***************************************************************************)
EXTENDS Reviews, Access, FiniteSetTheorems, TLAPS

Stages == {"idle", "loaded", "decided", "flushed", "executed", "done", "failed"}

\* The stages in which a request holds a row, and those in which it locks it.
Busy == {"loaded", "decided", "flushed", "executed"}
Locking == {"flushed", "executed"}

Time == 0 .. MaxTime

\* The types the proofs need.
Typed ==
    /\ now \in Time /\ birth \in [Tasks -> Time \cup {None}]
    /\ row \in [Tasks -> Row \cup {None}]
    /\ pc \in [Requests -> Stages]
    /\ ask \in [Requests -> [task : Tasks, decision : Decisions] \cup {None}]
    /\ loaded \in [Requests -> Row \cup {None}]
    /\ decidedAt \in [Requests -> Time \cup {None}]

\* A request that is busy has loaded a row that is still there.
SessionsHoldRows ==
    \A r \in Requests : pc[r] \in Busy =>
        /\ ask[r] \in [task : Tasks, decision : Decisions]
        /\ loaded[r] \in Row
        /\ row[ask[r].task] \in Row

\* The row lock of the database: one holder per task.
OneHolder ==
    \A r, s \in Requests :
        pc[r] \in Locking /\ pc[s] \in Locking /\ ask[r].task = ask[s].task => r = s

Locked == Typed /\ SessionsHoldRows /\ OneHolder

----------------------------------------------------------------------------

\* A request that moves on, without a lock it did not have.
LEMMA MoveKeepsLocked ==
    ASSUME Locked, NEW r \in Requests, NEW stage \in Stages, Goto(r, stage),
           UNCHANGED <<now, birth, row, ask, loaded>>,
           decidedAt' = decidedAt \/ decidedAt' = [decidedAt EXCEPT ![r] = now],
           stage \in Busy => pc[r] \in Busy,
           stage \in Locking => pc[r] \in Locking
    PROVE  Locked'
<1>1. pc'[r] = stage /\ \A s \in Requests \ {r} : pc'[s] = pc[s]
  BY DEF Locked, Typed, Goto
<1>2. Typed'
  BY DEF Locked, Typed, Goto
<1>3. SessionsHoldRows'
  BY <1>1 DEF Locked, SessionsHoldRows
<1>4. OneHolder'
  BY <1>1 DEF Locked, OneHolder
<1> QED
  BY <1>2, <1>3, <1>4 DEF Locked

LEMMA LoadKeepsLocked ==
    ASSUME Locked, NEW r \in Requests, Load(r)
    PROVE  Locked'
<1>1. PICK t \in Rows, decision \in Decisions :
        /\ ask' = [ask EXCEPT ![r] = [task |-> t, decision |-> decision]]
        /\ loaded' = [loaded EXCEPT ![r] = row[t]]
  BY DEF Load
<1>2. pc' = [pc EXCEPT ![r] = "loaded"] /\ UNCHANGED <<now, birth, row, decidedAt>>
  BY DEF Load, Goto
<1>3. t \in Tasks /\ row[t] \in Row
  BY DEF Rows, Locked, Typed
<1>4. [task |-> t, decision |-> decision] \in [task : Tasks, decision : Decisions]
  BY <1>3
<1>5. pc'[r] = "loaded" /\ ask'[r] = [task |-> t, decision |-> decision] /\ loaded'[r] = row[t]
  BY <1>1, <1>2 DEF Locked, Typed
<1>6. \A s \in Requests \ {r} : pc'[s] = pc[s] /\ ask'[s] = ask[s] /\ loaded'[s] = loaded[s]
  BY <1>1, <1>2 DEF Locked, Typed
<1>7. Typed'
  BY <1>1, <1>2, <1>3, <1>4 DEF Locked, Typed, Stages
<1>8. SessionsHoldRows'
  BY <1>2, <1>3, <1>4, <1>5, <1>6 DEF Locked, SessionsHoldRows
<1>9. OneHolder'
  BY <1>5, <1>6 DEF Locked, OneHolder, Locking
<1> QED
  BY <1>7, <1>8, <1>9 DEF Locked

\* The only way to a lock: nobody else has it.
LEMMA FlushKeepsLocked ==
    ASSUME Locked, NEW r \in Requests, Flush(r)
    PROVE  Locked'
<1>1. pc'[r] = "flushed" /\ \A s \in Requests \ {r} : pc'[s] = pc[s]
  BY DEF Flush, Goto, Locked, Typed
<1>2. pc[r] = "decided" /\ UNCHANGED <<now, birth, row, ask, loaded, decidedAt>>
  BY DEF Flush
<1>3. \A s \in Requests : ~(pc[s] \in Locking /\ ask[s].task = ask[r].task)
  BY DEF Flush, Holders, Locking
<1>4. Typed'
  BY <1>2 DEF Flush, Goto, Locked, Typed, Stages
<1>5. SessionsHoldRows'
  BY <1>1, <1>2 DEF Locked, SessionsHoldRows, Busy
<1>6. OneHolder'
  BY <1>1, <1>2, <1>3 DEF Locked, OneHolder
<1> QED
  BY <1>4, <1>5, <1>6 DEF Locked

\* What an UPDATE leaves is a row.
LEMMA UpdatedIsRow ==
    ASSUME Locked, NEW r \in Requests, pc[r] \in Busy
    PROVE  Updated(r) \in Row
<1> DEFINE x == loaded[r]
<1> DEFINE y == row[ask[r].task]
<1> DEFINE z == Decided(r)
<1>1. x \in Row /\ y \in Row /\ ask[r].decision \in Decisions
  BY DEF Locked, SessionsHoldRows
<1>2. decidedAt[r] \in Time \cup {None} /\ Reviewer[r] \in Reviewers
  BY DEF Locked, Typed, Reviewers
<1>3. z \in Row
  BY <1>1, <1>2 DEF Decided, Row, Time
<1>4. Updated(r) = [c \in DOMAIN x |-> IF z[c] # x[c] THEN z[c] ELSE y[c]]
  BY DEF Updated
<1> HIDE DEF x, y, z
<1>5. DOMAIN x = {"status", "reviewer", "decidedAt", "due", "sla", "breachAt"}
  BY <1>1 DEF Row
<1>6. Updated(r) =
        [status |-> IF z.status # x.status THEN z.status ELSE y.status,
         reviewer |-> IF z.reviewer # x.reviewer THEN z.reviewer ELSE y.reviewer,
         decidedAt |-> IF z.decidedAt # x.decidedAt THEN z.decidedAt ELSE y.decidedAt,
         due |-> IF z.due # x.due THEN z.due ELSE y.due,
         sla |-> IF z.sla # x.sla THEN z.sla ELSE y.sla,
         breachAt |-> IF z.breachAt # x.breachAt THEN z.breachAt ELSE y.breachAt]
  BY <1>4, <1>5
<1> QED
  BY <1>1, <1>3, <1>6 DEF Row

\* The UPDATE of the locked row.
LEMMA CommitKeepsLocked ==
    ASSUME Locked, NEW r \in Requests, Commit(r)
    PROVE  Locked'
<1>1. pc'[r] = "done" /\ \A s \in Requests \ {r} : pc'[s] = pc[s]
  BY DEF Commit, Goto, Locked, Typed
<1>2. pc[r] \in Busy /\ row' = [row EXCEPT ![ask[r].task] = Updated(r)]
  BY DEF Commit, Busy
<1>3. UNCHANGED <<now, birth, ask, loaded, decidedAt>>
  BY DEF Commit
<1>4. ask[r].task \in Tasks /\ Updated(r) \in Row
  BY <1>2, UpdatedIsRow DEF Locked, SessionsHoldRows
<1>5. Typed'
  BY <1>2, <1>3, <1>4 DEF Commit, Goto, Locked, Typed, Stages
<1>6. SessionsHoldRows'
  BY <1>1, <1>2, <1>3, <1>4 DEF Locked, Typed, SessionsHoldRows, Busy
<1>7. OneHolder'
  BY <1>1, <1>3 DEF Locked, OneHolder, Locking
<1> QED
  BY <1>5, <1>6, <1>7 DEF Locked

LEMMA OpenKeepsLocked ==
    ASSUME Locked, NEW t \in Tasks, OpenTask(t)
    PROVE  Locked'
<1>1. PICK called \in birth[t] .. now :
        row' = [row EXCEPT ![t] =
            [status |-> "open", reviewer |-> None, decidedAt |-> None,
             due |-> IF Sla = None THEN None ELSE called + Sla,
             sla |-> IF Sla = None THEN None ELSE "ok", breachAt |-> None]]
  BY DEF OpenTask
<1>2. called \in Nat
  BY DEF OpenTask, Locked, Typed, Time
<1>3. PICK new \in Row : row' = [row EXCEPT ![t] = new]
  <2> DEFINE due == IF Sla = None THEN None ELSE called + Sla
  <2> DEFINE sla == IF Sla = None THEN None ELSE "ok"
  <2>1. due \in Nat \cup {None} /\ sla \in {"ok", "breached", None}
    BY <1>2, ReviewsAssumption
  <2> HIDE DEF due, sla
  <2>2. [status |-> "open", reviewer |-> None, decidedAt |-> None, due |-> due, sla |-> sla, breachAt |-> None] \in Row
    BY <2>1 DEF Row
  <2> QED
    BY <1>1, <2>2 DEF due, sla
<1>4. UNCHANGED <<now, birth, pc, ask, loaded, decidedAt>>
  BY DEF OpenTask, requests
<1>5. Typed' /\ OneHolder'
  BY <1>3, <1>4 DEF Locked, Typed, OneHolder
<1>6. SessionsHoldRows'
  BY <1>3, <1>4 DEF Locked, Typed, SessionsHoldRows
<1> QED
  BY <1>5, <1>6 DEF Locked

----------------------------------------------------------------------------

\* Every step keeps one holder per row.
LEMMA StepKeepsLocked ==
    ASSUME Locked, [Next]_vars
    PROVE  Locked'
<1>1. CASE UNCHANGED <<row, pc, ask, loaded, decidedAt>> /\ now' \in Time /\ birth' \in [Tasks -> Time \cup {None}]
  BY <1>1 DEF Locked, Typed, SessionsHoldRows, OneHolder
<1>2. ASSUME UNCHANGED vars \/ \E w \in Walks : Start(w) \/ Page(w)
      PROVE  Locked'
  BY <1>1, <1>2 DEF vars, requests, Start, Page, Locked, Typed
<1>3. CASE Tick
  BY <1>1, <1>3, ReviewsAssumption DEF Tick, requests, Locked, Typed, Time
<1>4. ASSUME NEW t \in Tasks, BeginRun(t)
      PROVE  Locked'
  BY <1>1, <1>4 DEF BeginRun, requests, Locked, Typed
<1>5. ASSUME NEW r \in Requests, Refuse(r) \/ Lose(r) \/ Decide(r) \/ ExecutePostApproval(r)
      PROVE  Locked'
  <2>1. PICK stage \in {"failed", "decided", "executed"} :
          /\ Goto(r, stage)
          /\ stage = "decided" => pc[r] = "loaded"
          /\ stage = "executed" => pc[r] = "flushed"
    BY <1>5 DEF Refuse, Lose, Decide, ExecutePostApproval
  <2>2. /\ UNCHANGED <<now, birth, row, ask, loaded>>
        /\ decidedAt' = decidedAt \/ decidedAt' = [decidedAt EXCEPT ![r] = now]
    BY <1>5 DEF Refuse, Lose, Decide, ExecutePostApproval
  <2> QED
    BY <2>1, <2>2, MoveKeepsLocked DEF Busy, Locking, Stages
<1> QED
  BY <1>2, <1>3, <1>4, <1>5, LoadKeepsLocked, FlushKeepsLocked, CommitKeepsLocked, OpenKeepsLocked
  DEF Next, Step

----------------------------------------------------------------------------

\* Only a commit ends a request, and only commits change a row that is there.
LEMMA OnlyCommitsWrite ==
    ASSUME Locked, [Next]_vars, NEW r \in Requests
    PROVE  /\ pc[r] # "done" /\ pc'[r] = "done" => Commit(r)
           /\ \A t \in Tasks : row[t] \in Row /\ row'[t] # row[t] =>
                \E s \in Requests : Commit(s) /\ ask[s].task = t
<1>1. ASSUME UNCHANGED vars \/ Tick \/ (\E t \in Tasks : BeginRun(t)) \/ \E w \in Walks : Start(w) \/ Page(w)
      PROVE  row' = row /\ pc' = pc
  BY <1>1 DEF Tick, vars, requests, BeginRun, Start, Page
<1>2. ASSUME NEW t \in Tasks, OpenTask(t)
      PROVE  pc' = pc /\ row[t] \notin Row /\ \A u \in Tasks \ {t} : row'[u] = row[u]
  <2>1. pc' = pc /\ row[t] = None
    BY <1>2 DEF OpenTask, requests
  <2>2. \E new : row' = [row EXCEPT ![t] = new]
    BY <1>2 DEF OpenTask
  <2> QED
    BY <2>1, <2>2, ReviewsAssumption DEF Locked, Typed
<1>3. ASSUME NEW s \in Requests, Load(s) \/ Refuse(s) \/ Lose(s) \/ Decide(s) \/ Flush(s) \/ ExecutePostApproval(s)
      PROVE  row' = row /\ pc'[s] # "done" /\ \A q \in Requests \ {s} : pc'[q] = pc[q]
  <2>1. row' = row /\ \E stage \in {"loaded", "failed", "decided", "flushed", "executed"} : Goto(s, stage)
    BY <1>3 DEF Load, Refuse, Lose, Decide, Flush, ExecutePostApproval
  <2> QED
    BY <2>1 DEF Goto, Locked, Typed
<1>4. ASSUME NEW s \in Requests, Commit(s)
      PROVE  /\ \A q \in Requests \ {s} : pc'[q] = pc[q]
             /\ \A t \in Tasks \ {ask[s].task} : row'[t] = row[t]
  BY <1>4 DEF Commit, Goto, Locked, Typed
<1> QED
  BY <1>1, <1>2, <1>3, <1>4 DEF Next, Step

\* What the commit of a request that saw the row as it still is writes.
LEMMA FreshCommitIsWhole ==
    ASSUME Locked, NEW r \in Requests, Commit(r), row[ask[r].task] = loaded[r]
    PROVE  LET x == row'[ask[r].task]
           IN x.status = ask[r].decision /\ x.reviewer = Reviewer[r] /\ x.decidedAt = decidedAt[r]
<1>1. pc[r] \in Busy /\ row' = [row EXCEPT ![ask[r].task] = Updated(r)]
  BY DEF Commit, Busy
<1>2. ask[r].task \in Tasks /\ loaded[r] \in Row
  BY <1>1 DEF Locked, SessionsHoldRows
<1>3. row'[ask[r].task] = Updated(r)
  BY <1>1, <1>2 DEF Locked, Typed
<1>4. /\ Decided(r).status = ask[r].decision
      /\ Decided(r).reviewer = Reviewer[r]
      /\ Decided(r).decidedAt = decidedAt[r]
  BY <1>2 DEF Decided, Row
<1>5. \A c \in {"status", "reviewer", "decidedAt"} : Updated(r)[c] = Decided(r)[c]
  BY <1>2 DEF Updated, Row
<1> QED
  BY <1>3, <1>4, <1>5

\* Whichever requests overlap, a decision on an unchanged row is stored whole,
\* and a row whose post-approval steps are running is nobody else's to decide.
THEOREM WholeDecisions == Spec => DecisionsAreWhole
<1>1. Init => Locked
  BY ReviewsAssumption
  DEF Init, Locked, Typed, SessionsHoldRows, OneHolder, Busy, Locking, Stages, Time
<1>2. Locked /\ [Next]_vars => Locked'
  BY StepKeepsLocked
<1>3. Locked /\ [Next]_vars =>
        [\A r \in Requests : FreshDecisionIsWhole(r) /\ ExecutionIsExclusive(r)]_vars
  <2> SUFFICES ASSUME Locked, [Next]_vars, NEW r \in Requests
               PROVE  FreshDecisionIsWhole(r) /\ ExecutionIsExclusive(r)
    OBVIOUS
  <2>1. FreshDecisionIsWhole(r)
    BY OnlyCommitsWrite, FreshCommitIsWhole DEF FreshDecisionIsWhole
  <2>2. ExecutionIsExclusive(r)
    <3> SUFFICES ASSUME pc[r] \in Locking, row'[ask[r].task] # row[ask[r].task]
                 PROVE  pc'[r] = "done"
      BY DEF ExecutionIsExclusive, Locking
    <3>1. ask[r].task \in Tasks /\ row[ask[r].task] \in Row
      BY DEF Locked, SessionsHoldRows, Busy, Locking
    <3>2. PICK s \in Requests : Commit(s) /\ ask[s].task = ask[r].task
      BY <3>1, OnlyCommitsWrite
    <3>3. pc[s] \in Locking /\ pc' = [pc EXCEPT ![s] = "done"]
      BY <3>2 DEF Commit, Goto, Locking
    <3>4. s = r
      BY <3>2, <3>3 DEF Locked, OneHolder
    <3> QED
      BY <3>3, <3>4 DEF Locked, Typed
  <2> QED
    BY <2>1, <2>2
<1> QED
  BY <1>1, <1>2, <1>3, PTL DEF Spec, DecisionsAreWhole
----------------------------------------------------------------------------
(* What the queue and the summaries show *)

\* What a row is on its own, stored or loaded: open without, or decided with a
\* reviewer and a time; marked as breached with a time that was too late, and
\* never decided late without the mark.
Fitting(x) ==
    /\ x.status = "open" <=> x.reviewer = None
    /\ x.status = "open" <=> x.decidedAt = None
    /\ x.sla = "breached" <=> x.breachAt # None
    /\ x.due # None /\ x.decidedAt # None /\ x.decidedAt > x.due => x.sla = "breached"
    /\ x.sla = "breached" => x.status # "open" /\ x.due # None /\ x.breachAt > x.due

\* What an update keeps of a row.
Follows(y, x) ==
    /\ y.due = x.due
    /\ x.status # "open" => y.status # "open"
    /\ x.sla = "breached" => y.sla = "breached"

RowsFit == \A t \in Rows : Fitting(row[t])

\* What a request has loaded is an earlier state of the row.
CopiesAreOlder ==
    \A r \in Requests : pc[r] \in Busy => Fitting(loaded[r]) /\ Follows(row[ask[r].task], loaded[r])

\* Who has decided knows what, and the time.
DecidersAreKnown ==
    \A r \in Requests :
        /\ pc[r] = "done" => ask[r] \in [task : Tasks, decision : Decisions]
        /\ pc[r] \in {"decided", "flushed", "executed", "done"} => decidedAt[r] \in Time

Made(t) == {r \in Requests : pc[r] = "done" /\ ask[r].task = t}

\* The columns of a row are those of decisions that were committed.
RowsAreSigned ==
    \A t \in Tasks :
        /\ row[t] = None => Made(t) = {}
        /\ row[t] # None =>
            /\ row[t].status = "open" <=> Made(t) = {}
            /\ row[t].status # "open" =>
                /\ \E r \in Made(t) : row[t].status = ask[r].decision
                /\ \E r \in Made(t) : row[t].reviewer = Reviewer[r]
                /\ \E r \in Made(t) : row[t].decidedAt = decidedAt[r]

\* The log holds the decisions that were committed.
LogIsTrue ==
    /\ log \in Seq(Requests) /\ executed \subseteq Requests
    /\ \A r \in Requests : pc[r] = "done" <=> \E i \in DOMAIN log : log[i] = r

Decidedly == RowsFit /\ CopiesAreOlder /\ DecidersAreKnown /\ RowsAreSigned /\ LogIsTrue

Shown(x) == {x.shown[i] : i \in DOMAIN x.shown}

\* Where a walk stands: it has shown tasks up to its anchor, each once, and what
\* it still owes comes after the anchor.
WalkFits(x) ==
    /\ x.due \subseteq {t \in Rows : Matches(x.filter, row[t])}
    /\ Shown(x) \subseteq Rows
    /\ IsInjective(x.shown)
    /\ ~x.open => x.due \subseteq Shown(x)
    /\ x.open /\ x.anchor = None => x.shown = <<>>
    /\ x.open /\ x.anchor # None =>
        /\ x.anchor \in Rows
        /\ \A t \in Shown(x) : t = x.anchor \/ Precedes(t, x.anchor)
        /\ \A t \in x.due : t \in Shown(x) \/ Precedes(x.anchor, t)

WalkType ==
    [filter : Filters \cup {"all"}, anchor : Tasks \cup {None}, shown : Seq(Tasks), due : SUBSET Tasks, open : BOOLEAN]

Walking ==
    /\ \A t \in Rows : birth[t] \in Time
    /\ walk \in [Walks -> WalkType]
    /\ \A w \in Walks : WalkFits(walk[w])

----------------------------------------------------------------------------
(* Orders and sums *)

\* The order of the queue is total on tasks that have a birth.
LEMMA PrecedesIsTotal ==
    ASSUME NEW S, S \subseteq Tasks, \A t \in S : birth[t] \in Time
    PROVE  /\ \A a, b \in S : Precedes(a, b) \/ Precedes(b, a) \/ a = b
           /\ \A a \in S : ~Precedes(a, a)
           /\ \A a, b, c \in S : Precedes(a, b) /\ Precedes(b, c) => Precedes(a, c)
BY ReviewsAssumption DEF Precedes, Time

\* Every position is taken by exactly one task, in the order of the queue.
LEMMA InOrderIsExact ==
    ASSUME NEW S, S \subseteq Tasks, \A t \in S : birth[t] \in Time
    PROVE  /\ IsFiniteSet(S) /\ Cardinality(S) \in Nat
           /\ InOrder(S) \in [1 .. Cardinality(S) -> S]
           /\ \A t \in S : \E i \in 1 .. Cardinality(S) : InOrder(S)[i] = t
           /\ \A i, j \in 1 .. Cardinality(S) : i < j => Precedes(InOrder(S)[i], InOrder(S)[j])
<1> DEFINE n == Cardinality(S)
<1> DEFINE before(a) == {b \in S : Precedes(b, a)}
<1> DEFINE rank == [a \in S |-> Cardinality(before(a)) + 1]
<1>1. IsFiniteSet(S) /\ n \in Nat
  BY ReviewsAssumption, FS_Subset, FS_CardinalityType
<1>2. ASSUME NEW a \in S
      PROVE  rank[a] \in 1 .. n
  <2>1. before(a) \in SUBSET S /\ before(a) # S
    BY PrecedesIsTotal
  <2>2. Cardinality(before(a)) \in Nat /\ Cardinality(before(a)) <= n /\ Cardinality(before(a)) # n
    BY <1>1, <2>1, FS_Subset, FS_CardinalityType
  <2> QED
    BY <1>1, <2>2
<1>3. ASSUME NEW a \in S, NEW b \in S, Precedes(a, b)
      PROVE  rank[a] < rank[b]
  <2>1. before(a) \in SUBSET before(b) /\ before(a) # before(b) /\ before(b) \in SUBSET S
    BY <1>3, PrecedesIsTotal
  <2>2. IsFiniteSet(before(b)) /\ IsFiniteSet(before(a))
    BY <1>1, <2>1, FS_Subset
  <2>3. Cardinality(before(a)) \in Nat /\ Cardinality(before(b)) \in Nat
    BY <2>2, FS_CardinalityType
  <2>4. Cardinality(before(a)) <= Cardinality(before(b)) /\ Cardinality(before(a)) # Cardinality(before(b))
    BY <2>1, <2>2, FS_Subset
  <2> QED
    BY <2>3, <2>4
<1>4. rank \in [S -> 1 .. n]
  BY <1>2
<1> HIDE DEF rank
<1>5. \A a, b \in S : rank[a] = rank[b] => a = b
  BY <1>2, <1>3, <1>1, PrecedesIsTotal
<1>6. rank \in Injection(S, 1 .. n)
  BY <1>4, <1>5 DEF Injection, IsInjective
<1>7. IsFiniteSet(1 .. n) /\ Cardinality(1 .. n) = n
  BY <1>1, FS_Interval
<1>8. rank \in Surjection(S, 1 .. n)
  BY <1>6, <1>7, FS_Injection
<1>9. \A i \in 1 .. n : \E a \in S : rank[a] = i
  BY <1>8 DEF Surjection
<1>10. \A a \in S : \A i \in 1 .. n : Cardinality(before(a)) = i - 1 <=> rank[a] = i
  <2> SUFFICES ASSUME NEW a \in S, NEW i \in 1 .. n
               PROVE  Cardinality(before(a)) = i - 1 <=> rank[a] = i
    OBVIOUS
  <2>1. IsFiniteSet(before(a))
    BY <1>1, FS_Subset
  <2>2. Cardinality(before(a)) \in Nat
    BY <2>1, FS_CardinalityType
  <2>3. rank[a] = Cardinality(before(a)) + 1
    BY DEF rank
  <2> QED
    BY <1>1, <2>2, <2>3
<1>11. \A i \in 1 .. n : \E a \in S : Cardinality(before(a)) = i - 1
  BY <1>9, <1>10
<1>12. InOrder(S) = [i \in 1 .. n |-> CHOOSE a \in S : Cardinality(before(a)) = i - 1]
  BY DEF InOrder
<1>13. \A i \in 1 .. n : InOrder(S)[i] \in S /\ Cardinality(before(InOrder(S)[i])) = i - 1
  BY <1>11, <1>12
<1>14. InOrder(S) \in [1 .. n -> S]
  BY <1>12, <1>13
<1>15. \A i \in 1 .. n : rank[InOrder(S)[i]] = i
  BY <1>10, <1>13
<1> DEFINE q == InOrder(S)
<1> HIDE DEF q, n, before
<1>16. ASSUME NEW t \in S
       PROVE  \E i \in 1 .. n : q[i] = t
  BY <1>4, <1>5, <1>13, <1>15 DEF q
<1>17. ASSUME NEW i \in 1 .. n, NEW j \in 1 .. n, i < j
       PROVE  Precedes(q[i], q[j])
  <2>1. q[i] \in S /\ q[j] \in S /\ rank[q[i]] = i /\ rank[q[j]] = j
    BY <1>13, <1>15 DEF q
  <2>2. ~(rank[q[j]] < rank[q[i]]) /\ q[i] # q[j]
    BY <1>1, <1>17, <2>1
  <2> QED
    BY <1>3, <2>1, <2>2, PrecedesIsTotal
<1> QED
  BY <1>1, <1>14, <1>16, <1>17 DEF q, n

\* Every thing in T has an owner in S, and an amount is how many one owns.
Divided(T, S, owner, amount) ==
    /\ IsFiniteSet(T) /\ IsFiniteSet(S)
    /\ \A t \in T : owner[t] \in S
    /\ \A v \in S : amount[v] = Cardinality({t \in T : owner[t] = v})

\* The recursion of a sum over owners has one solution: how many things are owned.
LEMMA TotalCountsTheOwned ==
    ASSUME NEW T, NEW S, NEW owner, NEW amount, Divided(T, S, owner, amount)
    PROVE  Total(amount, S) = Cardinality(T)
<1>1. /\ IsFiniteSet(T) /\ IsFiniteSet(S)
      /\ \A t \in T : owner[t] \in S
      /\ \A v \in S : amount[v] = Cardinality({t \in T : owner[t] = v})
  BY DEF Divided
<1> DEFINE pick(s) == CHOOSE x \in s : TRUE
<1> DEFINE Body(g) == [s \in SUBSET S |-> IF s = {} THEN 0 ELSE amount[pick(s)] + g[s \ {pick(s)}]]
<1> DEFINE owned(s) == {t \in T : owner[t] \in s}
<1> DEFINE count == [s \in SUBSET S |-> Cardinality(owned(s))]
<1> DEFINE sum == CHOOSE g : g = Body(g)
<1>2. Total(amount, S) = sum[S]
  BY DEF Total, MapThenSumSet, MapThenFoldSet
<1>3. ASSUME NEW s \in SUBSET S
      PROVE  count[s] = IF s = {} THEN 0 ELSE amount[pick(s)] + count[s \ {pick(s)}]
  <2>1. CASE s = {}
    <3>1. owned(s) = {}
      BY <2>1
    <3> QED
      BY <2>1, <3>1, FS_EmptySet
  <2>2. CASE s # {}
    <3>1. PICK x : x = pick(s)
      OBVIOUS
    <3>2. x \in s /\ s \ {x} \in SUBSET S
      BY <2>2, <3>1
    <3> DEFINE mine == {t \in T : owner[t] = x}
    <3> DEFINE others == owned(s \ {x})
    <3>3. owned(s) = mine \cup others /\ mine \cap others = {}
      BY <3>2
    <3>4. IsFiniteSet(mine) /\ IsFiniteSet(others)
      BY <1>1, FS_Subset
    <3>5. amount[x] = Cardinality(mine)
      BY <1>1, <3>2
    <3>6. count[s] = Cardinality(owned(s)) /\ count[s \ {x}] = Cardinality(others)
      BY <3>2
    <3> HIDE DEF mine, others, owned, count
    <3>7. Cardinality(mine \cup others) = Cardinality(mine) + Cardinality(others) - Cardinality(mine \cap others)
      BY <3>4, FS_Union
    <3>8. Cardinality(mine \cap others) = 0
      BY <3>3, FS_EmptySet
    <3>9. Cardinality(mine) \in Nat /\ Cardinality(others) \in Nat
      BY <3>4, FS_CardinalityType
    <3>10. count[s] = amount[x] + count[s \ {x}]
      BY <3>3, <3>5, <3>6, <3>7, <3>8, <3>9
    <3> QED
      BY <2>2, <3>1, <3>10
  <2> QED
    BY <2>1, <2>2
<1>4. count = Body(count)
  BY <1>3
<1>5. count[S] = Cardinality(T)
  <2>1. owned(S) = T
    BY <1>1
  <2> QED
    BY <2>1
<1> HIDE DEF count
<1>6. sum = Body(sum)
  BY <1>4
<1> HIDE DEF sum
<1>7. \A s \in SUBSET S : sum[s] = IF s = {} THEN 0 ELSE amount[pick(s)] + sum[s \ {pick(s)}]
  BY <1>6
<1> DEFINE Bad == {s \in SUBSET S : sum[s] # count[s]}
<1>8. Bad = {}
  <2> SUFFICES ASSUME Bad # {}
               PROVE  FALSE
    OBVIOUS
  <2>1. Bad \subseteq FiniteSubsetsOf(S)
    BY <1>1, FS_Subset DEF FiniteSubsetsOf
  <2>2. IsWellFoundedOn(StrictSubsetOrdering(S), FiniteSubsetsOf(S))
    BY FS_StrictSubsetOrderingWellFounded
  <2>3. PICK s \in Bad : \A t \in Bad : ~(<<t, s>> \in StrictSubsetOrdering(S))
    BY <2>1, <2>2, WFMin
  <2>4. s \in SUBSET S /\ s # {}
    BY <1>3, <1>7
  <2>5. PICK x : x = pick(s)
    OBVIOUS
  <2>6. x \in s
    BY <2>4, <2>5
  <2>7. s \ {x} \in SUBSET S /\ <<s \ {x}, s>> \in StrictSubsetOrdering(S)
    BY <2>4, <2>6 DEF StrictSubsetOrdering
  <2>8. sum[s \ {x}] = count[s \ {x}]
    BY <2>3, <2>7
  <2>9. count[s] = amount[x] + count[s \ {x}]
    BY <1>3, <2>4, <2>5
  <2>10. sum[s] = amount[x] + sum[s \ {x}]
    BY <1>7, <2>4, <2>5
  <2> QED
    BY <2>8, <2>9, <2>10
<1> QED
  BY <1>2, <1>5, <1>8

\* The metrics agree because every row is either open or decided by one reviewer.
LEMMA FittingRowsAddUp ==
    ASSUME Typed, RowsFit
    PROVE  LoadsAddUp
<1> DEFINE opened == {t \in Rows : row[t].status = "open"}
<1> DEFINE decided == {t \in Rows : row[t].status \in Decisions /\ row[t].decidedAt # None}
<1> DEFINE breached == {t \in Rows : row[t].sla = "breached"}
<1> DEFINE owner == [t \in Rows |-> row[t].reviewer]
<1>1. \A t \in Rows : row[t] \in Row /\ Fitting(row[t])
  BY DEF Typed, RowsFit, Rows
<1>2. IsFiniteSet(Rows) /\ IsFiniteSet(opened) /\ IsFiniteSet(decided) /\ IsFiniteSet(breached)
  <2>1. Rows \in SUBSET Tasks /\ IsFiniteSet(Tasks)
    BY ReviewsAssumption DEF Rows
  <2>2. opened \in SUBSET Tasks /\ decided \in SUBSET Tasks /\ breached \in SUBSET Tasks
    BY <2>1
  <2> QED
    BY <2>1, <2>2, FS_Subset
<1>3. /\ Summary(Rows).total = Cardinality(Rows)
      /\ Summary(Rows).open = Cardinality(opened)
      /\ Summary(Rows).decided = Cardinality(decided)
      /\ Summary(Rows).breached = Cardinality(breached)
  BY DEF Summary
<1>4. \A t \in decided \cup breached : owner[t] \in Reviewers
  <2> SUFFICES ASSUME NEW t \in decided \cup breached
               PROVE  owner[t] \in Reviewers
    OBVIOUS
  <2>1. t \in Rows /\ row[t].status # "open"
    BY <1>1 DEF Fitting, Decisions
  <2>2. row[t].reviewer \in Reviewers
    BY <1>1, <2>1 DEF Fitting, Row
  <2> QED
    BY <2>1, <2>2
<1>5. \A v \in Reviewers :
        /\ ReviewerLoad(v).decided = Cardinality({t \in decided : owner[t] = v})
        /\ ReviewerLoad(v).breached = Cardinality({t \in breached : owner[t] = v})
  <2> SUFFICES ASSUME NEW v \in Reviewers
               PROVE  /\ ReviewerLoad(v).decided = Cardinality({t \in decided : owner[t] = v})
                      /\ ReviewerLoad(v).breached = Cardinality({t \in breached : owner[t] = v})
    OBVIOUS
  <2> DEFINE mine == {t \in Rows : row[t].reviewer = v}
  <2>1. {t \in decided : owner[t] = v} = {t \in mine : row[t].status \in Decisions /\ row[t].decidedAt # None}
    OBVIOUS
  <2>2. {t \in breached : owner[t] = v} = {t \in mine : row[t].sla = "breached"}
    OBVIOUS
  <2>3. /\ ReviewerLoad(v).decided = Cardinality({t \in mine : row[t].status \in Decisions /\ row[t].decidedAt # None})
        /\ ReviewerLoad(v).breached = Cardinality({t \in mine : row[t].sla = "breached"})
    BY DEF ReviewerLoad, Summary
  <2> QED
    BY <2>1, <2>2, <2>3
<1>6. Rows = opened \cup decided /\ opened \cap decided = {}
  <2>1. \A t \in Rows : row[t].status \in {"open"} \cup Decisions
    BY <1>1 DEF Row
  <2> QED
    BY <1>1, <2>1 DEF Fitting, Decisions
<1> DEFINE loadsD == [v \in Reviewers |-> ReviewerLoad(v).decided]
<1> DEFINE loadsB == [v \in Reviewers |-> ReviewerLoad(v).breached]
<1> HIDE DEF opened, decided, breached, owner
<1>7. \A v \in Reviewers :
        /\ loadsD[v] = Cardinality({t \in decided : owner[t] = v})
        /\ loadsB[v] = Cardinality({t \in breached : owner[t] = v})
  BY <1>5
<1>8. \A t \in decided \cup breached : owner[t] \in Reviewers
  BY <1>4
<1> HIDE DEF loadsD, loadsB
<1>9. Divided(decided, Reviewers, owner, loadsD) /\ Divided(breached, Reviewers, owner, loadsB)
  BY <1>2, <1>7, <1>8, ReviewsAssumption DEF Divided
<1>10. Total(loadsD, Reviewers) = Cardinality(decided) /\ Total(loadsB, Reviewers) = Cardinality(breached)
  BY <1>9, TotalCountsTheOwned
<1>11. Cardinality(opened \cup decided) = Cardinality(opened) + Cardinality(decided)
  <2>1. Cardinality(opened \cup decided) = Cardinality(opened) + Cardinality(decided) - Cardinality(opened \cap decided)
    BY <1>2, FS_Union
  <2>2. Cardinality(opened) \in Nat /\ Cardinality(decided) \in Nat /\ Cardinality({}) = 0
    BY <1>2, FS_CardinalityType, FS_EmptySet
  <2>3. Cardinality(opened \cap decided) = 0
    BY <1>6, <2>2
  <2> QED
    BY <2>1, <2>2, <2>3
<1>12. /\ Summary(Rows).total = Summary(Rows).open + Summary(Rows).decided
       /\ Summary(Rows).decided = Total(loadsD, Reviewers)
       /\ Summary(Rows).breached = Total(loadsB, Reviewers)
  BY <1>3, <1>6, <1>10, <1>11
<1> QED
  BY <1>12 DEF LoadsAddUp, loadsD, loadsB

----------------------------------------------------------------------------
(* Decisions *)

\* A column of an updated row is that of the decision, or that of the row as it
\* is, which then has been decided before.
Mixes(z, y, decision, reviewer, time) ==
    /\ z.status # "open"
    /\ z.status = decision \/ (y.status # "open" /\ z.status = y.status)
    /\ z.reviewer = reviewer \/ (y.status # "open" /\ z.reviewer = y.reviewer)
    /\ z.decidedAt = time \/ (y.status # "open" /\ z.decidedAt = y.decidedAt)

LEMMA UpdateMixesDecisions ==
    ASSUME Locked, Decidedly, NEW r \in Requests, pc[r] \in Locking
    PROVE  /\ Fitting(Updated(r)) /\ Follows(Updated(r), row[ask[r].task])
           /\ Mixes(Updated(r), row[ask[r].task], ask[r].decision, Reviewer[r], decidedAt[r])
<1> DEFINE x == loaded[r]
<1> DEFINE y == row[ask[r].task]
<1> DEFINE z == Updated(r)
<1> DEFINE late == x.due # None /\ decidedAt[r] > x.due
<1>1. x \in Row /\ y \in Row /\ ask[r] \in [task : Tasks, decision : Decisions]
  BY DEF Locked, SessionsHoldRows, Busy, Locking
<1>2. Fitting(x) /\ Follows(y, x)
  BY DEF Decidedly, CopiesAreOlder, Busy, Locking
<1>3. Fitting(y)
  <2>1. ask[r].task \in Rows
    BY <1>1, ReviewsAssumption DEF Rows
  <2> QED
    BY <2>1 DEF Decidedly, RowsFit
<1>4. decidedAt[r] \in Time
  BY DEF Decidedly, DecidersAreKnown, Locking
<1>5. Decided(r) =
        [status |-> ask[r].decision, reviewer |-> Reviewer[r], decidedAt |-> decidedAt[r], due |-> x.due,
         sla |-> IF late THEN "breached" ELSE x.sla, breachAt |-> IF late THEN decidedAt[r] ELSE x.breachAt]
  <2>1. Late(r) <=> late
    BY DEF Late
  <2>2. Decided(r) =
          [x EXCEPT !.status = ask[r].decision, !.reviewer = Reviewer[r], !.decidedAt = decidedAt[r],
                    !.sla = IF late THEN "breached" ELSE x.sla,
                    !.breachAt = IF late THEN decidedAt[r] ELSE x.breachAt]
    <3> HIDE DEF late
    <3> QED
      BY <1>1, <2>1 DEF Decided, Row
  <2> HIDE DEF x, late
  <2> QED
    BY <1>1, <2>2 DEF Row
<1>6. z = [c \in DOMAIN x |-> IF Decided(r)[c] # x[c] THEN Decided(r)[c] ELSE y[c]]
  BY DEF Updated
<1>7. DOMAIN x = {"status", "reviewer", "decidedAt", "due", "sla", "breachAt"}
  BY <1>1 DEF Row
<1> HIDE DEF x, y, z, late
<1>8. /\ z.status = IF ask[r].decision # x.status THEN ask[r].decision ELSE y.status
      /\ z.reviewer = IF Reviewer[r] # x.reviewer THEN Reviewer[r] ELSE y.reviewer
      /\ z.decidedAt = IF decidedAt[r] # x.decidedAt THEN decidedAt[r] ELSE y.decidedAt
      /\ z.due = y.due
      /\ z.sla = IF late /\ x.sla # "breached" THEN "breached" ELSE y.sla
      /\ z.breachAt = IF late /\ decidedAt[r] # x.breachAt THEN decidedAt[r] ELSE y.breachAt
  BY <1>5, <1>6, <1>7
<1>9. ask[r].decision # "open" /\ Reviewer[r] # None /\ decidedAt[r] # None /\ decidedAt[r] \in Nat
  BY <1>1, <1>4, ReviewsAssumption DEF Decisions, Reviewers, Time
<1>10. y.due = x.due /\ y.due \in Nat \cup {None} /\ y.decidedAt \in Nat \cup {None} /\ y.breachAt \in Nat \cup {None}
  BY <1>1, <1>2, ReviewsAssumption DEF Follows, Row
<1>11. late <=> y.due # None /\ decidedAt[r] > y.due
  BY <1>10 DEF late
<1>12. Mixes(z, y, ask[r].decision, Reviewer[r], decidedAt[r])
  BY <1>2, <1>8, <1>9 DEF Mixes, Fitting, Follows
<1>13. z.status # "open" /\ z.reviewer # None /\ z.decidedAt # None
  BY <1>3, <1>9, <1>12 DEF Mixes, Fitting
<1>14. z.sla = "breached" <=> z.breachAt # None
  BY <1>2, <1>3, <1>8, <1>9 DEF Fitting, Follows
<1>15. y.sla = "breached" => z.sla = "breached"
  BY <1>8
<1>16. z.due # None /\ z.decidedAt > z.due => z.sla = "breached"
  <2>1. CASE late
    BY <1>2, <1>8, <2>1 DEF Follows
  <2>2. CASE ~late
    BY <1>3, <1>8, <1>9, <1>10, <1>11, <1>13, <2>2 DEF Fitting
  <2> QED
    BY <2>1, <2>2
<1>17. z.sla = "breached" => z.due # None /\ z.breachAt > z.due
  <2>1. CASE late /\ decidedAt[r] # x.breachAt
    BY <1>8, <1>11, <2>1
  <2>2. CASE late /\ decidedAt[r] = x.breachAt
    <3>1. y.sla = "breached" /\ z.breachAt = y.breachAt
      BY <1>2, <1>8, <1>9, <2>2 DEF Fitting, Follows
    <3> QED
      BY <1>3, <1>8, <3>1 DEF Fitting
  <2>3. CASE ~late
    BY <1>3, <1>8, <2>3 DEF Fitting
  <2> QED
    BY <2>1, <2>2, <2>3
<1>18. Fitting(z)
  BY <1>13, <1>14, <1>16, <1>17 DEF Fitting
<1>19. Follows(z, y)
  BY <1>8, <1>13, <1>15 DEF Follows
<1> QED
  BY <1>12, <1>18, <1>19 DEF y, z

\* A request at work: others, rows and log stay, and it does not end.
LEMMA WorkKeepsDecidedly ==
    ASSUME Locked, Decidedly, NEW r \in Requests, pc[r] # "done",
           NEW stage \in Stages \ {"done"}, pc' = [pc EXCEPT ![r] = stage],
           UNCHANGED <<row, log>>, executed' \subseteq Requests,
           \A s \in Requests \ {r} : ask'[s] = ask[s] /\ loaded'[s] = loaded[s] /\ decidedAt'[s] = decidedAt[s],
           stage \in Busy => Fitting(loaded'[r]) /\ Follows(row[ask'[r].task], loaded'[r]),
           stage \in {"decided", "flushed", "executed"} => decidedAt'[r] \in Time
    PROVE  Decidedly'
<1>1. pc'[r] = stage /\ \A s \in Requests \ {r} : pc'[s] = pc[s]
  BY DEF Locked, Typed
<1>2. RowsFit'
  BY DEF Decidedly, RowsFit, Rows, Fitting
<1>3. CopiesAreOlder'
  <2> SUFFICES ASSUME NEW s \in Requests, pc'[s] \in Busy
               PROVE  Fitting(loaded'[s]) /\ Follows(row[ask'[s].task], loaded'[s])
    BY DEF CopiesAreOlder, Fitting, Follows
  <2>1. CASE s = r
    BY <1>1, <2>1
  <2>2. CASE s # r
    BY <1>1, <2>2 DEF Decidedly, CopiesAreOlder
  <2> QED
    BY <2>1, <2>2
<1>4. DecidersAreKnown'
  BY <1>1 DEF Decidedly, DecidersAreKnown
<1>5. \A t \in Tasks : Made(t)' = Made(t) /\ Made(t) \subseteq Requests \ {r}
  BY <1>1 DEF Made
<1>6. RowsAreSigned'
  BY <1>5 DEF Decidedly, RowsAreSigned
<1>7. LogIsTrue'
  BY <1>1 DEF Decidedly, LogIsTrue
<1> QED
  BY <1>2, <1>3, <1>4, <1>6, <1>7 DEF Decidedly

LEMMA LoadKeepsDecidedly ==
    ASSUME Locked, Decidedly, NEW r \in Requests, Load(r)
    PROVE  Decidedly'
<1>1. PICK t \in Rows, decision \in Decisions :
        /\ ask' = [ask EXCEPT ![r] = [task |-> t, decision |-> decision]]
        /\ loaded' = [loaded EXCEPT ![r] = row[t]]
  BY DEF Load
<1>2. pc[r] = "idle" /\ pc' = [pc EXCEPT ![r] = "loaded"] /\ UNCHANGED <<row, decidedAt, executed, log>>
  BY DEF Load, Goto
<1>3. ask'[r].task = t /\ loaded'[r] = row[t]
  BY <1>1 DEF Locked, Typed
<1>4. \A s \in Requests \ {r} : ask'[s] = ask[s] /\ loaded'[s] = loaded[s] /\ decidedAt'[s] = decidedAt[s]
  BY <1>1, <1>2 DEF Locked, Typed
<1>5. Fitting(loaded'[r]) /\ Follows(row[ask'[r].task], loaded'[r])
  <2>1. Fitting(row[t])
    BY DEF Decidedly, RowsFit
  <2>2. Follows(row[t], row[t])
    BY DEF Follows
  <2> QED
    BY <1>3, <2>1, <2>2
<1>6. executed' \subseteq Requests
  BY <1>2 DEF Decidedly, LogIsTrue
<1> QED
  BY <1>2, <1>4, <1>5, <1>6, WorkKeepsDecidedly DEF Stages

LEMMA HandlersKeepDecidedly ==
    ASSUME Locked, Decidedly, NEW r \in Requests,
           Decide(r) \/ Refuse(r) \/ Lose(r) \/ Flush(r) \/ ExecutePostApproval(r)
    PROVE  Decidedly'
<1>1. PICK stage \in {"decided", "failed", "flushed", "executed"} :
        /\ pc' = [pc EXCEPT ![r] = stage]
        /\ stage = "decided" => pc[r] = "loaded" /\ decidedAt' = [decidedAt EXCEPT ![r] = now]
        /\ stage # "decided" => decidedAt' = decidedAt
        /\ stage = "flushed" => pc[r] = "decided"
        /\ stage = "executed" => pc[r] = "flushed"
  BY DEF Decide, Refuse, Lose, Flush, ExecutePostApproval, Goto
<1>2. pc[r] # "done" /\ UNCHANGED <<row, ask, loaded, log>> /\ executed' \subseteq executed \cup {r}
  BY DEF Decide, Refuse, Lose, Flush, ExecutePostApproval
<1>3. \A s \in Requests \ {r} : ask'[s] = ask[s] /\ loaded'[s] = loaded[s] /\ decidedAt'[s] = decidedAt[s]
  BY <1>1, <1>2 DEF Locked, Typed
<1>4. stage \in Busy => Fitting(loaded'[r]) /\ Follows(row[ask'[r].task], loaded'[r])
  BY <1>1, <1>2 DEF Decidedly, CopiesAreOlder, Busy
<1>5. stage \in {"decided", "flushed", "executed"} => decidedAt'[r] \in Time
  BY <1>1 DEF Decidedly, DecidersAreKnown, Locked, Typed
<1>6. executed' \subseteq Requests
  BY <1>2 DEF Decidedly, LogIsTrue
<1>7. stage \in Stages \ {"done"}
  BY DEF Stages
<1>8. UNCHANGED <<row, log>>
  BY <1>2
<1> QED
  BY <1>1, <1>2, <1>3, <1>4, <1>5, <1>6, <1>7, <1>8, WorkKeepsDecidedly

LEMMA CommitKeepsDecidedly ==
    ASSUME Locked, Decidedly, NEW r \in Requests, Commit(r)
    PROVE  Decidedly'
<1> DEFINE task == ask[r].task
<1> DEFINE z == Updated(r)
<1>1. pc[r] \in Locking /\ row' = [row EXCEPT ![task] = z] /\ log' = Append(log, r)
  BY DEF Commit, Locking
<1>2. UNCHANGED <<ask, loaded, decidedAt, executed>>
  BY DEF Commit
<1>3. pc'[r] = "done" /\ \A s \in Requests \ {r} : pc'[s] = pc[s]
  BY DEF Commit, Goto, Locked, Typed
<1>4. ask[r] \in [task : Tasks, decision : Decisions] /\ row[task] \in Row /\ task \in Rows /\ z \in Row
  BY <1>1, UpdatedIsRow, ReviewsAssumption DEF Locked, SessionsHoldRows, Rows, Busy, Locking
<1>5. Fitting(z) /\ Follows(z, row[task]) /\ Mixes(z, row[task], ask[r].decision, Reviewer[r], decidedAt[r])
  BY <1>1, UpdateMixesDecisions
<1>6. row'[task] = z /\ (\A t \in Tasks \ {task} : row'[t] = row[t]) /\ Rows' = Rows
  BY <1>1, <1>4, ReviewsAssumption DEF Locked, Typed, Rows
<1> HIDE DEF z
<1>7. RowsFit'
  <2> SUFFICES ASSUME NEW t \in Rows
               PROVE  Fitting(row'[t])
    BY <1>6 DEF RowsFit, Fitting
  <2> QED
    BY <1>5, <1>6 DEF Decidedly, RowsFit, Rows
<1>8. CopiesAreOlder'
  <2> SUFFICES ASSUME NEW s \in Requests, pc'[s] \in Busy
               PROVE  Fitting(loaded[s]) /\ Follows(row'[ask[s].task], loaded[s])
    BY <1>2 DEF CopiesAreOlder, Fitting, Follows
  <2>1. pc[s] \in Busy /\ ask[s].task \in Tasks
    BY <1>3 DEF Busy, Locked, SessionsHoldRows
  <2>2. Fitting(loaded[s]) /\ Follows(row[ask[s].task], loaded[s])
    BY <2>1 DEF Decidedly, CopiesAreOlder
  <2>3. CASE ask[s].task = task
    BY <1>5, <1>6, <2>2, <2>3 DEF Follows
  <2>4. CASE ask[s].task # task
    BY <1>6, <2>1, <2>2, <2>4
  <2> QED
    BY <2>2, <2>3, <2>4
<1>9. DecidersAreKnown'
  BY <1>1, <1>2, <1>3, <1>4 DEF Decidedly, DecidersAreKnown, Locking
<1>10. \A t \in Tasks : Made(t)' = IF t = task THEN Made(t) \cup {r} ELSE Made(t)
  BY <1>1, <1>2, <1>3 DEF Made, Locking
<1>11. RowsAreSigned'
  <2> SUFFICES ASSUME NEW t \in Tasks
               PROVE  /\ row'[t] = None => Made(t)' = {}
                      /\ row'[t] # None =>
                          /\ row'[t].status = "open" <=> Made(t)' = {}
                          /\ row'[t].status # "open" =>
                              /\ \E s \in Made(t)' : row'[t].status = ask[s].decision
                              /\ \E s \in Made(t)' : row'[t].reviewer = Reviewer[s]
                              /\ \E s \in Made(t)' : row'[t].decidedAt = decidedAt[s]
    BY <1>2 DEF RowsAreSigned
  <2>1. CASE t # task
    BY <1>6, <1>10, <2>1 DEF Decidedly, RowsAreSigned
  <2>2. CASE t = task
    <3>1. Made(t)' = Made(t) \cup {r} /\ row'[t] = z /\ z # None /\ row[t] # None
      BY <1>4, <1>6, <1>10, <2>2, ReviewsAssumption
    <3>2. row[t].status # "open" =>
            /\ \E s \in Made(t) : row[t].status = ask[s].decision
            /\ \E s \in Made(t) : row[t].reviewer = Reviewer[s]
            /\ \E s \in Made(t) : row[t].decidedAt = decidedAt[s]
      BY <3>1 DEF Decidedly, RowsAreSigned
    <3>3. Mixes(z, row[t], ask[r].decision, Reviewer[r], decidedAt[r])
      BY <1>5, <2>2
    <3>4. z.status # "open"
      BY <3>3 DEF Mixes
    <3>5. \E s \in Made(t) \cup {r} : z.status = ask[s].decision
      BY <3>2, <3>3 DEF Mixes
    <3>6. \E s \in Made(t) \cup {r} : z.reviewer = Reviewer[s]
      BY <3>2, <3>3 DEF Mixes
    <3>7. \E s \in Made(t) \cup {r} : z.decidedAt = decidedAt[s]
      BY <3>2, <3>3 DEF Mixes
    <3> QED
      BY <3>1, <3>4, <3>5, <3>6, <3>7
  <2> QED
    BY <2>1, <2>2
<1>12. LogIsTrue'
  <2>1. log \in Seq(Requests) /\ executed \subseteq Requests
    BY DEF Decidedly, LogIsTrue
  <2>2. log' \in Seq(Requests) /\ DOMAIN log' = DOMAIN log \cup {Len(log) + 1}
    BY <1>1, <2>1
  <2>3. log'[Len(log) + 1] = r /\ \A i \in DOMAIN log : log'[i] = log[i]
    BY <1>1, <2>1
  <2>4. \A s \in Requests : pc'[s] = "done" <=> \E i \in DOMAIN log' : log'[i] = s
    BY <1>3, <2>2, <2>3 DEF Decidedly, LogIsTrue
  <2> QED
    BY <1>2, <2>1, <2>2, <2>4 DEF LogIsTrue
<1> QED
  BY <1>7, <1>8, <1>9, <1>11, <1>12 DEF Decidedly

\* A new row fits, and nobody has decided on it.
LEMMA OpenKeepsDecidedly ==
    ASSUME Locked, Decidedly, NEW t \in Tasks, OpenTask(t)
    PROVE  Decidedly'
<1>1. PICK new : row' = [row EXCEPT ![t] = new] /\ new \in Row /\ new.status = "open" /\ Fitting(new)
  <2>1. PICK called \in birth[t] .. now :
          row' = [row EXCEPT ![t] =
              [status |-> "open", reviewer |-> None, decidedAt |-> None,
               due |-> IF Sla = None THEN None ELSE called + Sla,
               sla |-> IF Sla = None THEN None ELSE "ok", breachAt |-> None]]
    BY DEF OpenTask
  <2>2. called \in Nat
    BY DEF OpenTask, Locked, Typed, Time
  <2> DEFINE due == IF Sla = None THEN None ELSE called + Sla
  <2> DEFINE sla == IF Sla = None THEN None ELSE "ok"
  <2> DEFINE new == [status |-> "open", reviewer |-> None, decidedAt |-> None, due |-> due, sla |-> sla, breachAt |-> None]
  <2>3. due \in Nat \cup {None} /\ sla \in {"ok", None} /\ sla # "breached"
    BY <2>2, ReviewsAssumption
  <2>4. row' = [row EXCEPT ![t] = new]
    BY <2>1
  <2> HIDE DEF due, sla
  <2>5. new \in Row
    BY <2>3 DEF Row
  <2>6. new.status = "open" /\ Fitting(new)
    BY <2>3 DEF Fitting
  <2> HIDE DEF new
  <2> QED
    BY <2>4, <2>5, <2>6
<1>2. row[t] = None /\ UNCHANGED <<pc, ask, loaded, decidedAt, executed, log>>
  BY DEF OpenTask, requests
<1>3. row'[t] = new /\ (\A u \in Tasks \ {t} : row'[u] = row[u]) /\ Rows' = Rows \cup {t}
  BY <1>1, ReviewsAssumption DEF Locked, Typed, Rows
<1>4. RowsFit'
  <2> SUFFICES ASSUME NEW u \in Rows \cup {t}
               PROVE  Fitting(row'[u])
    BY <1>3 DEF RowsFit, Fitting
  <2> QED
    BY <1>1, <1>3 DEF Decidedly, RowsFit, Rows
<1>5. CopiesAreOlder'
  <2> SUFFICES ASSUME NEW s \in Requests, pc[s] \in Busy
               PROVE  Fitting(loaded[s]) /\ Follows(row'[ask[s].task], loaded[s])
    BY <1>2 DEF CopiesAreOlder, Fitting, Follows
  <2>1. ask[s].task \in Tasks \ {t}
    BY <1>2, ReviewsAssumption DEF Locked, SessionsHoldRows
  <2> QED
    BY <1>3, <2>1 DEF Decidedly, CopiesAreOlder
<1>6. DecidersAreKnown' /\ LogIsTrue'
  BY <1>2 DEF Decidedly, DecidersAreKnown, LogIsTrue
<1>7. \A u \in Tasks : Made(u)' = Made(u)
  BY <1>2 DEF Made
<1>8. Made(t) = {}
  BY <1>2 DEF Decidedly, RowsAreSigned
<1>9. RowsAreSigned'
  <2> SUFFICES ASSUME NEW u \in Tasks
               PROVE  /\ row'[u] = None => Made(u) = {}
                      /\ row'[u] # None =>
                          /\ row'[u].status = "open" <=> Made(u) = {}
                          /\ row'[u].status # "open" =>
                              /\ \E s \in Made(u) : row'[u].status = ask[s].decision
                              /\ \E s \in Made(u) : row'[u].reviewer = Reviewer[s]
                              /\ \E s \in Made(u) : row'[u].decidedAt = decidedAt[s]
    BY <1>2, <1>7 DEF RowsAreSigned
  <2>1. CASE u = t
    BY <1>1, <1>3, <1>8, <2>1
  <2>2. CASE u # t
    BY <1>3, <2>2 DEF Decidedly, RowsAreSigned
  <2> QED
    BY <2>1, <2>2
<1> QED
  BY <1>4, <1>5, <1>6, <1>9 DEF Decidedly

LEMMA StepKeepsDecidedly ==
    ASSUME Locked, Decidedly, [Next]_vars
    PROVE  Decidedly'
<1>1. ASSUME UNCHANGED <<row, requests>>
      PROVE  Decidedly'
  BY <1>1 DEF requests, Decidedly, RowsFit, Rows, CopiesAreOlder, DecidersAreKnown, RowsAreSigned, Made, LogIsTrue, Fitting, Follows
<1>2. ASSUME UNCHANGED vars \/ Tick \/ (\E t \in Tasks : BeginRun(t)) \/ \E w \in Walks : Start(w) \/ Page(w)
      PROVE  UNCHANGED <<row, requests>>
  BY <1>2 DEF vars, requests, Tick, BeginRun, Start, Page
<1> QED
  BY <1>1, <1>2, LoadKeepsDecidedly, HandlersKeepDecidedly, CommitKeepsDecidedly, OpenKeepsDecidedly DEF Next, Step

----------------------------------------------------------------------------
(* Walks *)

\* Steps that leave the walks alone: rows are added, never taken away.
LEMMA RowsMayCome ==
    ASSUME Walking, walk' = walk, Rows \subseteq Rows',
           \A t \in Rows : row'[t] = row[t] /\ birth'[t] = birth[t],
           \A t \in Rows' : birth'[t] \in Time
    PROVE  Walking'
<1>1. ASSUME NEW w \in Walks
      PROVE  WalkFits(walk[w])'
  <2> DEFINE x == walk[w]
  <2>1. WalkFits(x)
    BY DEF Walking
  <2>2. x' = x
    OBVIOUS
  <2>3. x.due \subseteq {t \in Rows' : Matches(x.filter, row'[t])}
    BY <2>1 DEF WalkFits
  <2>4. \A t, u \in Rows : Precedes(t, u)' <=> Precedes(t, u)
    BY DEF Precedes
  <2>5. Shown(x) \subseteq Rows /\ x.due \subseteq Rows
    BY <2>1 DEF WalkFits
  <2>6. x.open /\ x.anchor # None =>
          /\ x.anchor \in Rows
          /\ \A t \in Shown(x) : t = x.anchor \/ Precedes(t, x.anchor)'
          /\ \A t \in x.due : t \in Shown(x) \/ Precedes(x.anchor, t)'
    BY <2>1, <2>4, <2>5 DEF WalkFits
  <2>7. Shown(x)' = Shown(x)
    BY DEF Shown
  <2> HIDE DEF x
  <2> QED
    BY <2>1, <2>2, <2>3, <2>5, <2>6, <2>7 DEF WalkFits, x, Precedes, Shown
<1> QED
  BY <1>1 DEF Walking, WalkType

LEMMA CommitKeepsWalking ==
    ASSUME Locked, Walking, NEW r \in Requests, Commit(r)
    PROVE  Walking'
<1>1. walk' = [w \in Walks |-> [walk[w] EXCEPT !.due = {t \in @ : Matches(walk[w].filter, row'[t])}]] /\ birth' = birth
  BY DEF Commit, StillDue
<1>2. Rows' = Rows
  <2>1. pc[r] \in Busy /\ row' = [row EXCEPT ![ask[r].task] = Updated(r)]
    BY DEF Commit, Busy
  <2>2. Updated(r) # None /\ row[ask[r].task] # None
    BY <2>1, UpdatedIsRow, ReviewsAssumption DEF Locked, SessionsHoldRows
  <2> QED
    BY <2>1, <2>2 DEF Rows, Locked, Typed
<1>3. ASSUME NEW w \in Walks
      PROVE  walk'[w] \in WalkType /\ WalkFits(walk[w])'
  <2>1. PICK x : x = walk[w]
    OBVIOUS
  <2>2. PICK y : y = walk'[w]
    OBVIOUS
  <2> DEFINE due == {t \in x.due : Matches(x.filter, row'[t])}
  <2>3. x \in WalkType /\ WalkFits(x)
    BY <2>1 DEF Walking
  <2>4. y = [x EXCEPT !.due = due]
    BY <1>1, <2>1, <2>2
  <2>5. due \subseteq x.due
    OBVIOUS
  <2>6. due \subseteq {t \in Rows : Matches(x.filter, row'[t])}
    BY <2>3 DEF WalkFits
  <2> HIDE DEF due
  <2>7. y \in WalkType
    BY <2>3, <2>4, <2>5 DEF WalkType
  <2>8. y.filter = x.filter /\ y.anchor = x.anchor /\ y.shown = x.shown /\ y.due = due /\ y.open = x.open
    BY <2>3, <2>4 DEF WalkType
  <2>9. Shown(y) = Shown(x)
    BY <2>8 DEF Shown
  <2>10. /\ y.due \subseteq {t \in Rows : Matches(y.filter, row'[t])}
         /\ Shown(y) \subseteq Rows
         /\ IsInjective(y.shown)
         /\ ~y.open => y.due \subseteq Shown(y)
         /\ y.open /\ y.anchor = None => y.shown = <<>>
         /\ y.open /\ y.anchor # None =>
              /\ y.anchor \in Rows
              /\ \A t \in Shown(y) : t = y.anchor \/ Precedes(t, y.anchor)
              /\ \A t \in y.due : t \in Shown(y) \/ Precedes(y.anchor, t)
    BY <2>3, <2>5, <2>6, <2>8, <2>9 DEF WalkFits
  <2>11. \A t, u : Precedes(t, u)' <=> Precedes(t, u)
    BY <1>1 DEF Precedes
  <2>12. /\ y.due \subseteq {t \in Rows' : Matches(y.filter, row'[t])}
         /\ Shown(y) \subseteq Rows'
         /\ IsInjective(y.shown)
         /\ ~y.open => y.due \subseteq Shown(y)
         /\ y.open /\ y.anchor = None => y.shown = <<>>
         /\ y.open /\ y.anchor # None =>
              /\ y.anchor \in Rows'
              /\ \A t \in Shown(y) : t = y.anchor \/ Precedes(t, y.anchor)'
              /\ \A t \in y.due : t \in Shown(y) \/ Precedes(y.anchor, t)'
    BY <1>2, <2>10, <2>11
  <2>13. WalkFits(walk[w])'
    BY <2>2, <2>12 DEF WalkFits, Shown, Precedes
  <2> QED
    BY <2>2, <2>7, <2>13
<1> QED
  BY <1>1, <1>2, <1>3 DEF Walking, WalkType

LEMMA StartKeepsWalking ==
    ASSUME Walking, NEW w \in Walks, Start(w)
    PROVE  Walking'
<1>1. PICK filter \in Filters :
        walk' = [walk EXCEPT ![w] =
            [NoWalk EXCEPT !.filter = filter, !.open = TRUE, !.due = {t \in Rows : Matches(filter, row[t])}]]
  BY DEF Start
<1>2. UNCHANGED <<row, birth>>
  BY DEF Start
<1> DEFINE due == {t \in Rows : Matches(filter, row[t])}
<1> DEFINE y == [filter |-> filter, anchor |-> None, shown |-> <<>>, due |-> due, open |-> TRUE]
<1>3. walk' = [walk EXCEPT ![w] = y]
  <2> HIDE DEF due
  <2>1. [NoWalk EXCEPT !.filter = filter, !.open = TRUE, !.due = due] = y
    <3>1. NoWalk \in WalkType /\ NoWalk.anchor = None /\ NoWalk.shown = <<>>
      BY DEF NoWalk, WalkType
    <3>2. PICK a : a = [NoWalk EXCEPT !.filter = filter]
      OBVIOUS
    <3>3. PICK b : b = [a EXCEPT !.open = TRUE]
      OBVIOUS
    <3>4. PICK c : c = [b EXCEPT !.due = due]
      OBVIOUS
    <3>5. a \in WalkType /\ a.filter = filter /\ a.anchor = None /\ a.shown = <<>>
      BY <3>1, <3>2 DEF WalkType
    <3>6. b \in WalkType /\ b.filter = filter /\ b.anchor = None /\ b.shown = <<>> /\ b.open = TRUE
      BY <3>3, <3>5 DEF WalkType
    <3>7. c \in WalkType /\ c.filter = filter /\ c.anchor = None /\ c.shown = <<>> /\ c.open = TRUE /\ c.due = due
      BY <3>4, <3>6 DEF WalkType, due, Rows
    <3>8. c = y
      BY <3>7 DEF WalkType
    <3> QED
      BY <3>2, <3>3, <3>4, <3>8
  <2>2. walk' = [walk EXCEPT ![w] = [NoWalk EXCEPT !.filter = filter, !.open = TRUE, !.due = due]]
    BY <1>1 DEF due
  <2> HIDE DEF y
  <2> QED
    BY <2>1, <2>2
<1>4. due \subseteq Tasks
  BY DEF Rows
<1>5. y \in WalkType
  BY <1>4 DEF WalkType
<1>6. walk'[w] = y /\ walk' \in [Walks -> WalkType] /\ \A v \in Walks \ {w} : walk'[v] = walk[v]
  BY <1>3, <1>5 DEF Walking
<1>7. Shown(y) = {}
  BY DEF Shown
<1>8. IsInjective(<<>>)
  BY DEF IsInjective
<1>9. WalkFits(y)
  BY <1>7, <1>8 DEF WalkFits
<1> HIDE DEF y
<1>10. \A v \in Walks : WalkFits(walk'[v])
  BY <1>6, <1>9 DEF Walking
<1>11. \A v \in Walks : WalkFits(walk[v])'
  BY <1>2, <1>10 DEF WalkFits, Shown, Rows, Precedes
<1> QED
  BY <1>2, <1>6, <1>11 DEF Walking, Rows, WalkType

LEMMA LengthsAdd ==
    ASSUME NEW S, NEW s \in Seq(S), NEW t \in Seq(S)
    PROVE  Len(s \o t) = Len(s) + Len(t)
OBVIOUS

\* A page is the beginning of what comes after the anchor: what is shown stays
\* without repetition, and nothing that is owed is left behind.
LEMMA PageGoesOn ==
    ASSUME \A t \in Rows : birth[t] \in Time,
           NEW x \in WalkType, WalkFits(x), x.open,
           NEW rest, rest \subseteq Rows, \A t \in rest : After(t, x.anchor),
           \A t \in Rows : Matches(x.filter, row[t]) /\ After(t, x.anchor) => t \in rest,
           NEW n \in Nat, NEW sorted \in [1 .. n -> rest],
           \A t \in rest : \E i \in 1 .. n : sorted[i] = t,
           \A i, j \in 1 .. n : i < j => Precedes(sorted[i], sorted[j]),
           NEW m \in 0 .. n, m < n => m >= 1,
           NEW page \in Seq(rest), Len(page) = m, \A i \in 1 .. m : page[i] = sorted[i],
           NEW y \in WalkType, y.filter = x.filter, y.due = x.due, y.open = (m < n),
           y.shown = x.shown \o page, m < n => y.anchor = sorted[m]
    PROVE  WalkFits(y)
<1> DEFINE more == m < n
<1>1. rest \subseteq Tasks /\ Rows \subseteq Tasks
  BY DEF Rows
<1>2. m \in Nat /\ m <= n /\ \A i \in 1 .. m : i \in 1 .. n
  OBVIOUS
<1> DEFINE l == Len(x.shown)
<1>3. x.shown \in Seq(Tasks) /\ page \in Seq(Tasks) /\ l \in Nat
  BY <1>1 DEF WalkType
<1>4. Len(y.shown) = l + m /\ DOMAIN y.shown = 1 .. l + m /\ DOMAIN x.shown = 1 .. l
  <2>1. Len(x.shown \o page) = l + m
    <3>1. PICK s \in Seq(Tasks) : s = x.shown
      BY <1>3
    <3>2. Len(s \o page) = Len(s) + Len(page)
      BY <1>3, LengthsAdd
    <3> QED
      BY <3>1, <3>2
  <2>2. y.shown \in Seq(Tasks)
    BY DEF WalkType
  <2>3. DOMAIN y.shown = 1 .. Len(y.shown) /\ DOMAIN x.shown = 1 .. l
    BY <1>3, <2>2
  <2> HIDE DEF l
  <2> QED
    BY <2>1, <2>3
<1>5. \A i \in 1 .. l : y.shown[i] = x.shown[i]
  BY <1>2, <1>3
<1>6. \A i \in 1 .. m : y.shown[l + i] = page[i] /\ page[i] \in rest
  BY <1>2, <1>3
<1> HIDE DEF l
<1>7. Shown(x) \subseteq Rows /\ (x.anchor = None => x.shown = <<>>)
  BY DEF WalkFits
<1>8. \A t : t \in Shown(y) <=> t \in Shown(x) \/ \E i \in 1 .. m : t = page[i]
  <2>1. \A i \in 1 .. l : i \in 1 .. l + m
    BY <1>2, <1>3
  <2>2. \A i \in 1 .. m : l + i \in 1 .. l + m
    BY <1>2, <1>3
  <2>3. \A i \in 1 .. l + m : i \in 1 .. l \/ \E k \in 1 .. m : i = l + k
    <3> SUFFICES ASSUME NEW i \in 1 .. l + m, i \notin 1 .. l
                 PROVE  \E k \in 1 .. m : i = l + k
      OBVIOUS
    <3>1. i - l \in 1 .. m /\ i = l + (i - l)
      BY <1>2, <1>3
    <3> QED
      BY <3>1
  <2> DEFINE shown == y.shown
  <2> DEFINE before == x.shown
  <2>4. /\ Shown(y) = {shown[i] : i \in 1 .. l + m} /\ Shown(x) = {before[i] : i \in 1 .. l}
        /\ \A i \in 1 .. l : shown[i] = before[i]
        /\ \A i \in 1 .. m : shown[l + i] = page[i]
    BY <1>4, <1>5, <1>6 DEF Shown
  <2> HIDE DEF shown, before
  <2>5. \A t \in Shown(x) : t \in Shown(y)
    <3> SUFFICES ASSUME NEW t \in Shown(x)
                 PROVE  t \in Shown(y)
      OBVIOUS
    <3>1. PICK i \in 1 .. l : t = before[i]
      BY <2>4
    <3>2. i \in 1 .. l + m /\ t = shown[i]
      BY <2>4, <2>1, <3>1
    <3> QED
      BY <2>4, <3>2
  <2>6. \A i \in 1 .. m : page[i] \in Shown(y)
    BY <2>4, <2>2
  <2>7. ASSUME NEW i \in 1 .. l + m
        PROVE  shown[i] \in Shown(x) \/ \E k \in 1 .. m : shown[i] = page[k]
    <3>1. CASE i \in 1 .. l
      BY <2>4, <3>1
    <3>2. CASE i \notin 1 .. l
      <4>1. PICK k \in 1 .. m : i = l + k
        BY <2>3, <3>2
      <4> QED
        BY <2>4, <4>1
    <3> QED
      BY <3>1, <3>2
  <2> QED
    <3> SUFFICES ASSUME NEW t \in Shown(y)
                 PROVE  t \in Shown(x) \/ \E k \in 1 .. m : t = page[k]
      BY <2>5, <2>6
    <3>1. PICK i \in 1 .. l + m : t = shown[i]
      BY <2>4
    <3> QED
      BY <2>7, <3>1
<1>9. \A t \in Shown(x), u \in rest : Precedes(t, u)
  <2> SUFFICES ASSUME NEW t \in Shown(x), NEW u \in rest
               PROVE  Precedes(t, u)
    OBVIOUS
  <2>1. x.anchor # None
    BY <1>7 DEF Shown
  <2>2. x.anchor \in Rows /\ (t = x.anchor \/ Precedes(t, x.anchor))
    BY <2>1 DEF WalkFits
  <2>3. Precedes(x.anchor, u)
    BY <2>1 DEF After
  <2>4. t \in Rows /\ u \in Rows
    BY <1>1, <1>7
  <2> QED
    BY <1>1, <2>2, <2>3, <2>4, PrecedesIsTotal
<1>10. \A i, j \in 1 .. m : i < j => Precedes(page[i], page[j])
  BY <1>2
<1>11. \A t \in Rows : ~Precedes(t, t)
  BY <1>1, PrecedesIsTotal
<1>12. ASSUME NEW i \in 1 .. l + m, NEW j \in 1 .. l + m, i < j
       PROVE  y.shown[i] # y.shown[j]
  <2>1. CASE j \in 1 .. l
    <3>1. i \in 1 .. l
      BY <1>2, <1>3, <1>12, <2>1
    <3>2. i # j /\ \A a, b \in DOMAIN x.shown : x.shown[a] = x.shown[b] => a = b
      BY <1>3, <1>12 DEF WalkFits, IsInjective
    <3>3. x.shown[i] # x.shown[j]
      BY <1>4, <2>1, <3>1, <3>2
    <3> QED
      BY <1>5, <2>1, <3>1, <3>3
  <2>2. CASE i \in 1 .. l /\ j \notin 1 .. l
    <3>1. j - l \in 1 .. m /\ j = l + (j - l)
      BY <1>2, <1>3, <2>2
    <3>2. y.shown[j] \in rest
      BY <1>6, <3>1
    <3>3. y.shown[i] \in Shown(x)
      BY <1>4, <1>5, <2>2 DEF Shown
    <3> QED
      BY <1>9, <1>11, <3>2, <3>3
  <2>3. CASE i \notin 1 .. l
    <3>1. i - l \in 1 .. m /\ j - l \in 1 .. m /\ i = l + (i - l) /\ j = l + (j - l) /\ i - l < j - l
      BY <1>2, <1>3, <1>12, <2>3
    <3>2. PICK k \in 1 .. m : k = i - l
      BY <3>1
    <3>3. PICK k2 \in 1 .. m : k2 = j - l
      BY <3>1
    <3>4. y.shown[i] = page[k] /\ y.shown[j] = page[k2] /\ page[k] \in rest /\ k < k2
      BY <1>6, <3>1, <3>2, <3>3
    <3>5. Precedes(page[k], page[k2])
      BY <1>10, <3>4
    <3> QED
      BY <1>11, <3>4, <3>5
  <2> QED
    BY <2>1, <2>2, <2>3
<1>13. IsInjective(y.shown)
  <2>1. \A i, j \in 1 .. l + m : i < j \/ j < i \/ i = j
    BY <1>2, <1>3
  <2> QED
    BY <1>4, <1>12, <2>1 DEF IsInjective
<1>14. \A t \in x.due : t \in Shown(x) \/ t \in rest
  <2> SUFFICES ASSUME NEW t \in x.due, t \notin Shown(x)
               PROVE  t \in rest
    OBVIOUS
  <2>1. t \in Rows /\ Matches(x.filter, row[t])
    BY DEF WalkFits
  <2>2. After(t, x.anchor)
    <3>1. x.anchor # None => Precedes(x.anchor, t)
      BY DEF WalkFits
    <3> QED
      BY <3>1 DEF After
  <2> QED
    BY <2>1, <2>2
<1>15. ASSUME NEW t \in rest
       PROVE  (\E i \in 1 .. m : t = page[i]) \/ (more /\ Precedes(sorted[m], t))
  <2>1. PICK i \in 1 .. n : sorted[i] = t
    OBVIOUS
  <2>2. CASE i <= m
    <3>1. i \in 1 .. m
      BY <1>2, <2>2
    <3> QED
      BY <2>1, <3>1
  <2>3. CASE m < i
    <3>1. more /\ m \in 1 .. n
      BY <1>2, <2>3
    <3>2. Precedes(sorted[m], sorted[i])
      BY <2>3, <3>1
    <3> QED
      BY <2>1, <3>1, <3>2
  <2> QED
    BY <1>2, <2>2, <2>3
<1>16. ~more => y.due \subseteq Shown(y)
  BY <1>8, <1>14, <1>15
<1>17. ASSUME more
       PROVE  /\ y.anchor \in Rows
              /\ \A t \in Shown(y) : t = y.anchor \/ Precedes(t, y.anchor)
              /\ \A t \in y.due : t \in Shown(y) \/ Precedes(y.anchor, t)
  <2>1. m \in 1 .. m /\ m \in 1 .. n
    BY <1>2, <1>17
  <2>2. y.anchor = page[m] /\ y.anchor = sorted[m] /\ y.anchor \in rest
    BY <1>17, <2>1
  <2>3. ASSUME NEW i \in 1 .. m
        PROVE  page[i] = y.anchor \/ Precedes(page[i], y.anchor)
    <3>1. i = m \/ i < m
      BY <1>2
    <3> QED
      BY <1>10, <2>1, <2>2, <3>1
  <2>4. \A t \in Shown(y) : t = y.anchor \/ Precedes(t, y.anchor)
    BY <1>8, <1>9, <2>2, <2>3
  <2>5. \A t \in y.due : t \in Shown(y) \/ Precedes(y.anchor, t)
    BY <1>8, <1>14, <1>15, <2>2
  <2> QED
    BY <2>2, <2>4, <2>5
<1>18. y.due \subseteq {t \in Rows : Matches(y.filter, row[t])}
  BY DEF WalkFits
<1>19. Shown(y) \subseteq Rows
  BY <1>8, <1>6, <1>7
<1>20. y.open => y.anchor # None
  BY <1>1, <1>17, ReviewsAssumption
<1> QED
  BY <1>13, <1>16, <1>17, <1>18, <1>19, <1>20 DEF WalkFits

LEMMA PageKeepsWalking ==
    ASSUME Walking, NEW w \in Walks, Page(w)
    PROVE  Walking'
<1>1. PICK x : x = walk[w]
  OBVIOUS
<1> DEFINE sorted == InOrder({t \in Rows : Matches(x.filter, row[t]) /\ After(t, x.anchor)})
<1> DEFINE more == Len(sorted) > PageSize
<1> DEFINE page == IF more THEN SubSeq(sorted, 1, PageSize) ELSE sorted
<1> DEFINE anchor == IF more THEN Last(page) ELSE None
<1>2. walk' = [walk EXCEPT ![w].shown = @ \o page, ![w].anchor = anchor, ![w].open = more]
  BY <1>1 DEF Page
<1>3. x.open /\ UNCHANGED <<row, birth>>
  BY <1>1 DEF Page
<1>4. x \in WalkType /\ WalkFits(x) /\ \A t \in Rows : birth[t] \in Time
  BY <1>1 DEF Walking
<1> DEFINE rest == {t \in Rows : Matches(x.filter, row[t]) /\ After(t, x.anchor)}
<1> DEFINE n == Cardinality(rest)
<1> DEFINE m == IF more THEN PageSize ELSE n
<1>5. rest \subseteq Tasks /\ \A t \in rest : birth[t] \in Time
  BY <1>4 DEF Rows
<1> HIDE DEF rest
<1>6. /\ n \in Nat /\ InOrder(rest) \in [1 .. n -> rest]
      /\ \A t \in rest : \E i \in 1 .. n : InOrder(rest)[i] = t
      /\ \A i, j \in 1 .. n : i < j => Precedes(InOrder(rest)[i], InOrder(rest)[j])
  BY <1>5, InOrderIsExact
<1>7. sorted = InOrder(rest)
  BY DEF rest
<1> HIDE DEF sorted, n
<1>8. sorted \in [1 .. n -> rest] /\ n \in Nat
  BY <1>6, <1>7
<1>9. sorted \in Seq(rest) /\ Len(sorted) = n
  BY <1>8
<1>10. PageSize \in Nat /\ PageSize >= 1
  BY ReviewsAssumption
<1>11. m \in 0 .. n /\ (m < n => m >= 1) /\ (more <=> m < n)
  BY <1>8, <1>9, <1>10
<1>12. page \in Seq(rest) /\ Len(page) = m /\ \A i \in 1 .. m : page[i] = sorted[i]
  <2>1. CASE more
    <3>1. n > PageSize /\ m = PageSize /\ page = SubSeq(sorted, 1, PageSize)
      BY <1>9, <2>1
    <3> HIDE DEF page, m, more
    <3> QED
      BY <1>8, <1>9, <1>10, <3>1
  <2>2. CASE ~more
    <3>1. m = n /\ page = sorted
      BY <2>2
    <3> HIDE DEF page, m, more
    <3> QED
      BY <1>9, <3>1
  <2> QED
    BY <2>1, <2>2
<1>13. m < n => anchor = sorted[m] /\ anchor \in Tasks
  <2> SUFFICES ASSUME m < n
               PROVE  anchor = sorted[m] /\ anchor \in Tasks
    OBVIOUS
  <2>1. anchor = page[Len(page)]
    BY <1>11 DEF Last
  <2>2. m \in 1 .. m /\ m \in 1 .. n
    BY <1>8, <1>11
  <2> HIDE DEF anchor, page, m
  <2>3. sorted[m] \in rest
    BY <1>8, <2>2
  <2> QED
    BY <1>5, <1>12, <2>1, <2>2, <2>3
<1>14. ~(m < n) => anchor = None
  BY <1>11
<1> HIDE DEF page, m, anchor
<1>15. more = (m < n)
  BY <1>11 DEF more
<1>16. anchor \in Tasks \cup {None} /\ more \in BOOLEAN
  BY <1>13, <1>14, <1>15
<1> HIDE DEF more
<1>17. x.shown \o page \in Seq(Tasks)
  <2>1. x.shown \in Seq(Tasks) /\ page \in Seq(Tasks)
    BY <1>4, <1>5, <1>12 DEF WalkType
  <2> QED
    BY <2>1
<1> DEFINE y == [filter |-> x.filter, anchor |-> anchor, shown |-> x.shown \o page, due |-> x.due, open |-> more]
<1>18. y \in WalkType
  BY <1>4, <1>16, <1>17 DEF WalkType
<1>19. walk'[w] = [[[x EXCEPT !.shown = x.shown \o page] EXCEPT !.anchor = anchor] EXCEPT !.open = more]
  BY <1>1, <1>2 DEF Walking
<1>20. \A v \in Walks \ {w} : walk'[v] = walk[v]
  BY <1>2 DEF Walking
<1>21. walk'[w] = y
  BY <1>4, <1>19 DEF WalkType
<1>22. walk' \in [Walks -> WalkType]
  <2>1. DOMAIN walk' = Walks /\ walk' = [v \in Walks |-> walk'[v]]
    BY <1>2 DEF Walking
  <2> QED
    BY <1>18, <1>20, <1>21, <2>1 DEF Walking
<1>23. y.filter = x.filter /\ y.due = x.due /\ y.open = more /\ y.shown = x.shown \o page /\ y.anchor = anchor
  OBVIOUS
<1> HIDE DEF y
<1>24. /\ \A t \in rest : After(t, x.anchor)
       /\ \A t \in Rows : Matches(x.filter, row[t]) /\ After(t, x.anchor) => t \in rest
       /\ rest \subseteq Rows
  BY DEF rest
<1>25. /\ \A t \in rest : \E i \in 1 .. n : sorted[i] = t
       /\ \A i, j \in 1 .. n : i < j => Precedes(sorted[i], sorted[j])
  BY <1>6, <1>7
<1>26. y.open = (m < n) /\ (m < n => y.anchor = sorted[m])
  BY <1>23, <1>13, <1>15
<1>27. x \in WalkType /\ WalkFits(x) /\ x.open /\ y \in WalkType
  BY <1>3, <1>4, <1>18
<1>28. WalkFits(y)
  BY <1>4, <1>23, <1>8, <1>11, <1>12, <1>24, <1>25, <1>26, <1>27, PageGoesOn
<1>29. \A v \in Walks : WalkFits(walk'[v])
  BY <1>20, <1>21, <1>28 DEF Walking
<1>30. \A v \in Walks : WalkFits(walk[v])'
  BY <1>3, <1>29 DEF WalkFits, Shown, Rows, Precedes
<1> QED
  BY <1>3, <1>4, <1>22, <1>30 DEF Rows, Walking, WalkType

LEMMA StepKeepsWalking ==
    ASSUME Locked, Walking, [Next]_vars
    PROVE  Walking'
<1>1. ASSUME UNCHANGED <<row, birth, walk>>
      PROVE  Walking'
  BY <1>1, RowsMayCome DEF Walking, Rows
<1>2. ASSUME UNCHANGED vars \/ Tick \/ \E r \in Requests : Load(r) \/ Refuse(r) \/ Lose(r) \/ Decide(r) \/ Flush(r) \/ ExecutePostApproval(r)
      PROVE  UNCHANGED <<row, birth, walk>>
  BY <1>2 DEF vars, Tick, Load, Refuse, Lose, Decide, Flush, ExecutePostApproval
<1>3. ASSUME NEW t \in Tasks, BeginRun(t)
      PROVE  Walking'
  <2>1. birth' = [birth EXCEPT ![t] = now] /\ row' = row /\ walk' = walk /\ birth[t] = None /\ Rows' = Rows
    BY <1>3 DEF BeginRun, Rows
  <2>2. \A u \in Rows : birth[u] \in Time /\ u \in Tasks
    BY DEF Walking, Rows
  <2>3. t \notin Rows
    BY <2>1, <2>2, ReviewsAssumption DEF Time
  <2>4. \A u \in Rows : row'[u] = row[u] /\ birth'[u] = birth[u]
    BY <2>1, <2>2, <2>3 DEF Locked, Typed
  <2>5. \A u \in Rows' : birth'[u] \in Time
    BY <2>1, <2>2, <2>4
  <2>6. Rows \subseteq Rows' /\ walk' = walk
    BY <2>1
  <2> QED
    BY <2>4, <2>5, <2>6, RowsMayCome
<1>4. ASSUME NEW t \in Tasks, OpenTask(t)
      PROVE  Walking'
  <2>1. PICK new : row' = [row EXCEPT ![t] = new]
    BY <1>4 DEF OpenTask
  <2>2. row[t] = None /\ birth[t] # None /\ birth' = birth /\ walk' = walk
    BY <1>4 DEF OpenTask
  <2>3. \A u \in Tasks \ {t} : row'[u] = row[u]
    BY <2>1 DEF Locked, Typed
  <2>4. Rows \subseteq Rows' /\ Rows' \subseteq Rows \cup {t} /\ t \notin Rows
    BY <2>2, <2>3 DEF Rows
  <2>5. \A u \in Rows : row'[u] = row[u] /\ birth'[u] = birth[u]
    BY <2>2, <2>3, <2>4 DEF Rows
  <2>6. \A u \in Rows' : birth'[u] \in Time
    BY <2>2, <2>4 DEF Walking, Locked, Typed
  <2> QED
    BY <2>2, <2>4, <2>5, <2>6, RowsMayCome
<1> QED
  BY <1>1, <1>2, <1>3, <1>4, CommitKeepsWalking, StartKeepsWalking, PageKeepsWalking DEF Next, Step

\* At every moment, whichever requests overlap, the columns of a row are those of
\* committed decisions, breaches stay marked, the reviewers' loads add up to the
\* summary, and a walk through the pages misses nothing and repeats nothing.
THEOREM ConsistentQueue == Spec => []QueueIsConsistent
<1>1. Init => Locked /\ Decidedly /\ Walking
  <2> SUFFICES ASSUME Init
               PROVE  Locked /\ Decidedly /\ Walking
    OBVIOUS
  <2>1. Locked
    BY ReviewsAssumption
    DEF Init, Locked, Typed, SessionsHoldRows, OneHolder, Busy, Locking, Stages, Time
  <2>2. Rows = {} /\ \A r \in Requests : pc[r] = "idle"
    BY DEF Init, Rows
  <2>3. RowsFit /\ CopiesAreOlder /\ DecidersAreKnown
    BY <2>2 DEF RowsFit, CopiesAreOlder, DecidersAreKnown, Busy
  <2>4. \A t \in Tasks : Made(t) = {} /\ row[t] = None
    BY <2>2 DEF Init, Made
  <2>5. RowsAreSigned
    BY <2>4 DEF RowsAreSigned
  <2>6. LogIsTrue
    <3>1. log = <<>> /\ executed = {}
      BY DEF Init
    <3> QED
      BY <2>2, <3>1 DEF LogIsTrue
  <2>7. NoWalk \in WalkType
    BY DEF NoWalk, WalkType
  <2>8. WalkFits(NoWalk)
    BY DEF WalkFits, NoWalk, Shown, IsInjective
  <2>9. walk = [w \in Walks |-> NoWalk]
    BY DEF Init
  <2> HIDE DEF NoWalk
  <2>10. Walking
    BY <2>2, <2>7, <2>8, <2>9 DEF Walking
  <2> QED
    BY <2>1, <2>3, <2>5, <2>6, <2>10 DEF Decidedly
<1>2. Locked /\ Decidedly /\ Walking /\ [Next]_vars => (Locked /\ Decidedly /\ Walking)'
  BY StepKeepsLocked, StepKeepsDecidedly, StepKeepsWalking
<1>3. Locked /\ Decidedly /\ Walking => QueueIsConsistent
  <2> SUFFICES ASSUME Locked, Decidedly, Walking
               PROVE  QueueIsConsistent
    OBVIOUS
  <2>1. TypeOK
    <3>1. \A w \in Walks : walk[w].shown \in Seq(Tasks) /\ walk[w].due \subseteq Tasks
      BY DEF Walking, WalkType
    <3> QED
      BY <3>1 DEF TypeOK, Locked, Typed, Stages, Time, Decidedly, LogIsTrue
  <2>2. DecidedRowsAreComplete
    <3>1. \A t \in Tasks : {r \in ToSet(log) : ask[r].task = t} = Made(t)
      <4>1. \A r : r \in ToSet(log) <=> r \in Requests /\ pc[r] = "done"
        BY DEF ToSet, Decidedly, LogIsTrue
      <4> QED
        BY <4>1 DEF Made
    <3>2. \A t \in Rows : t \in Tasks /\ row[t] # None /\ Fitting(row[t])
      BY DEF Rows, Decidedly, RowsFit
    <3>3. \A t \in Rows :
            /\ row[t].status = "open" <=> Made(t) = {}
            /\ row[t].status = "open" <=> row[t].reviewer = None
            /\ row[t].status = "open" <=> row[t].decidedAt = None
            /\ row[t].status # "open" =>
                 /\ \E r \in Made(t) : row[t].status = ask[r].decision
                 /\ \E r \in Made(t) : row[t].reviewer = Reviewer[r]
                 /\ \E r \in Made(t) : row[t].decidedAt = decidedAt[r]
      BY <3>2 DEF Fitting, Decidedly, RowsAreSigned
    <3> HIDE DEF Made
    <3> QED
      BY <3>1, <3>2, <3>3 DEF DecidedRowsAreComplete
  <2>3. BreachesAreKept
    BY DEF BreachesAreKept, Decidedly, RowsFit, Fitting
  <2>4. LoadsAddUp
    BY FittingRowsAddUp DEF Locked, Decidedly
  <2>5. WalksAreExact
    BY DEF WalksAreExact, Walking, WalkFits, Shown
  <2> QED
    BY <2>1, <2>2, <2>3, <2>4, <2>5 DEF QueueIsConsistent
<1> QED
  BY <1>1, <1>2, <1>3, PTL DEF Spec

----------------------------------------------------------------------------
(* What a listing may show *)

\* The answer to a key without an administrator's scope names its own reviewer.
LEMMA TightKeysKeepTheirReviewer ==
    ASSUME NEW scopes, NEW query, NEW header, NEW bound,
           "reviewer" \in scopes, scopes \cap AdminScopes = {},
           ReviewerForQuery(scopes, query, header, bound).status = 200
    PROVE  /\ ReviewerForQuery(scopes, query, header, bound).filter = {b.word : b \in bound}
           /\ bound # {}
<1> DEFINE Differs(t) == t.word # "" /\ bound # {[word |-> t.word, padded |-> FALSE]}
<1> DEFINE foreign == Differs(query) \/ Differs(header)
<1> DEFINE own == \E b \in bound : b.word # "" \/ b.padded
<1> DEFINE reply == ReviewerForQuery(scopes, query, header, bound)
<1>1. CASE foreign \/ ~own
  <2>1. reply = Refused(403)
    BY <1>1 DEF ReviewerForQuery
  <2> QED
    BY <2>1 DEF Refused
<1>2. CASE ~foreign /\ own
  <2> DEFINE words == {b.word : b \in bound}
  <2>1. reply = Allowed(words)
    BY <1>2 DEF ReviewerForQuery
  <2>2. bound # {}
    BY <1>2
  <2> HIDE DEF words, reply
  <2>3. reply.filter = words
    BY <2>1 DEF Allowed
  <2> QED
    BY <2>2, <2>3 DEF words, reply
<1> QED
  BY <1>1, <1>2

\* The answer to an administrator's key names whoever is asked for.
LEMMA AdministratorsAskForAnybody ==
    ASSUME NEW scopes, NEW query, NEW header, NEW bound, scopes \cap AdminScopes # {}
    PROVE  ReviewerForQuery(scopes, query, header, bound).filter = AskedFor(query, header)
<1> DEFINE asked == IF query.word # "" THEN query.word ELSE header.word
<1> DEFINE reply == ReviewerForQuery(scopes, query, header, bound)
<1> DEFINE filter == AskedFor(query, header)
<1>1. reply = Allowed(filter)
  <2>1. CASE asked # ""
    <3>1. reply = Allowed({asked})
      BY <2>1 DEF ReviewerForQuery
    <3>2. {asked} = filter
      BY <2>1 DEF AskedFor
    <3> QED
      BY <3>1, <3>2
  <2>2. CASE asked = ""
    <3>1. reply = Allowed({})
      BY <2>2 DEF ReviewerForQuery
    <3>2. {} = filter
      BY <2>2 DEF AskedFor
    <3> QED
      BY <3>1, <3>2
  <2> QED
    BY <2>1, <2>2
<1> HIDE DEF reply, filter
<1>2. reply.filter = filter
  BY <1>1 DEF Allowed
<1> QED
  BY <1>2 DEF reply, filter

LEMMA NothingIsListed == \A i : i \notin DOMAIN <<>>
  OBVIOUS

\* The scopes of a key are those its list names, but for the legacy ones.
LEMMA ScopesAreNamed ==
    ASSUME NEW raw, \A a, b \in raw : a = b, NEW scope, scope # "", scope \notin LegacyScopes
    PROVE  scope \in ResolveScopes(raw) <=> NamesScope(raw, scope)
<1>1. CASE raw = {} \/ raw = {<<>>}
  <2>1. \A list \in raw : DOMAIN list = {}
    <3> DEFINE empty == <<>>
    <3>1. \A i : i \notin DOMAIN empty
      BY NothingIsListed
    <3>2. raw = {} \/ raw = {empty}
      BY <1>1
    <3> HIDE DEF empty
    <3> QED
      BY <3>1, <3>2
  <2>2. ~NamesScope(raw, scope)
    BY <2>1 DEF NamesScope
  <2> QED
    BY <1>1, <2>2 DEF ResolveScopes
<1>2. CASE ~(raw = {} \/ raw = {<<>>})
  <2> DEFINE items == CHOOSE s \in raw : TRUE
  <2>1. items \in raw /\ \A list \in raw : list = items
    BY <1>2
  <2>2. ResolveScopes(raw) = {t.word : t \in UNION {items[i] : i \in DOMAIN items}} \ {""}
    BY <1>2 DEF ResolveScopes
  <2> HIDE DEF items
  <2>3. scope \in ResolveScopes(raw) <=> \E i \in DOMAIN items : \E t \in items[i] : t.word = scope
    BY <2>2
  <2> QED
    BY <2>1, <2>3 DEF NamesScope
<1> QED
  BY <1>1, <1>2

\* A listing is only given for a usable key that names the reviewer scope, and a
\* key that names no administrator's scope never sees another reviewer's, whatever
\* the query and the header say: for every table of keys, each of which has at most
\* one list of scopes.
LEMMA ForeignListingIsRefused ==
    ASSUME NEW keys, \A entry \in keys : \A a, b \in entry.scopes : a = b, NEW request, NEW time
    PROVE  ListingStays(keys, request, time)
<1> SUFFICES ASSUME ReviewerListing(keys, request, time).status = 200
             PROVE  \E entry \in keys :
                      StaysWithTheKey(ReviewerListing(keys, request, time), entry, request, time)
  BY DEF ListingStays
<1> DEFINE found == UsableKeys(keys, request.key, time)
<1> DEFINE key == CHOOSE r \in found : TRUE
<1> DEFINE scopes == ResolveScopes(key.scopes)
<1> DEFINE reply == ReviewerListing(keys, request, time)
<1>1. reply =
        CASE found = {} -> Refused(401)
          [] found # {} /\ ~EnforceAnyScope(scopes, ListingScopes) -> Refused(403)
          [] found # {} /\ EnforceAnyScope(scopes, ListingScopes) ->
               ReviewerForQuery(scopes, request.query, request.header, key.bound)
  BY DEF ReviewerListing
<1>2. Refused(401).status # 200 /\ Refused(403).status # 200
  BY DEF Refused
<1>3. found # {} /\ EnforceAnyScope(scopes, ListingScopes)
  BY <1>1, <1>2
<1>4. reply = ReviewerForQuery(scopes, request.query, request.header, key.bound)
  BY <1>1, <1>3
<1>5. key \in keys /\ key.hash = request.key /\ key.active /\ \A e \in key.expires : e >= time
  BY <1>3 DEF UsableKeys
<1>6. "reviewer" \in scopes
  BY <1>3 DEF EnforceAnyScope, ListingScopes, LegacyScopes
<1>7. \A scope \in AdminScopes \cup {"reviewer"} : scope \in scopes <=> NamesScope(key.scopes, scope)
  <2> DEFINE raw == key.scopes
  <2>1. \A a, b \in raw : a = b
    BY <1>5
  <2> HIDE DEF raw
  <2>2. \A scope \in AdminScopes \cup {"reviewer"} : scope # "" /\ scope \notin LegacyScopes
    BY DEF AdminScopes, LegacyScopes
  <2>3. \A scope \in AdminScopes \cup {"reviewer"} : scope \in ResolveScopes(raw) <=> NamesScope(raw, scope)
    BY <2>1, <2>2, ScopesAreNamed
  <2> QED
    BY <2>3 DEF raw
<1> DEFINE bound == key.bound
<1>8. reply.status = 200
  OBVIOUS
<1> HIDE DEF bound, scopes, reply, key
<1>9. reply = ReviewerForQuery(scopes, request.query, request.header, bound)
  BY <1>4 DEF bound
<1>10. scopes \cap AdminScopes = {} => reply.filter = {b.word : b \in bound} /\ bound # {}
  BY <1>6, <1>8, <1>9, TightKeysKeepTheirReviewer
<1>11. scopes \cap AdminScopes # {} => reply.filter = AskedFor(request.query, request.header)
  BY <1>9, AdministratorsAskForAnybody
<1>12. (\E scope \in AdminScopes : NamesScope(key.scopes, scope)) <=> scopes \cap AdminScopes # {}
  BY <1>7
<1>13. StaysWithTheKey(reply, key, request, time)
  <2>1. NamesScope(key.scopes, "reviewer")
    BY <1>6, <1>7
  <2> QED
    BY <1>5, <1>10, <1>11, <1>12, <2>1 DEF StaysWithTheKey, bound
<1> QED
  BY <1>5, <1>13 DEF reply

\* No listing of a foreign reviewer is given, on every set of such samples.
THEOREM ForeignListingsAreRefused ==
    ASSUME NEW Inputs,
           \A v \in Inputs : \A entry \in v.rows : \A a, b \in entry.scopes : a = b
    PROVE  DrawsFrom("listing", Inputs) => []ListingsStayWithTheKey
<1> DEFINE Inv == Drawn("listing") => sample.of \in Inputs
<1>1. NothingDrawn => Inv
  BY DEF NothingDrawn, Drawn
<1>2. Inv /\ [NothingDrawn /\ \E v \in Inputs : Draw("listing", v)]_sample => Inv'
  BY DEF Drawn, Draw
<1>3. Inv => ListingsStayWithTheKey
  BY ForeignListingIsRefused DEF ListingsStayWithTheKey
<1> HIDE DEF Inv
<1> QED
  BY <1>1, <1>2, <1>3, PTL DEF DrawsFrom
=============================================================================
