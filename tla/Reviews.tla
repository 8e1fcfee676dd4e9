------------------------------- MODULE Reviews -------------------------------
(***************************************************************************)
(* Review tasks.  A run that is routed to manual review opens a task in    *)
(* its own transaction; reviewers approve and reject tasks through the     *)
(* API, an approval may execute the rest of the pipeline before it         *)
(* commits; dashboards page through the tasks meanwhile.  Every request    *)
(* works on the row as it loaded it, and its UPDATE names only the columns *)
(* that differ from what it loaded.                                        *)
(***************************************************************************)
EXTENDS Naturals, Sequences, FiniteSets, SequencesExt

CONSTANTS
    Tasks,          \* ids of review tasks, numbers in the order of their ids
    Requests,       \* approve and reject requests
    Reviewer,       \* [Requests -> reviewer_id]
    Walks,          \* clients that page through the queue
    Filters,        \* status filters that the clients use
    PageSize,
    Sla,            \* time to decide (24 h), or None: reviewer_sla_enabled is off
    PostApproval,   \* flag post_approval_execution
    MaxTime,        \* bound: the clock stops here
    None

Decisions == {"approved", "rejected"}

Reviewers == {Reviewer[r] : r \in Requests}

\* The columns of review_tasks that a request can change or read.
Row ==
    [status : {"open"} \cup Decisions, reviewer : Reviewers \cup {None},
     decidedAt : 0 .. MaxTime \cup {None}, due : Nat \cup {None},
     sla : {"ok", "breached", None}, breachAt : 0 .. MaxTime \cup {None}]

ASSUME ReviewsAssumption ==
    /\ Tasks \subseteq Nat /\ IsFiniteSet(Tasks)
    /\ Filters \subseteq {"all", "open", "approved", "rejected", "breached"}
    /\ PageSize \in Nat \ {0} /\ MaxTime \in Nat
    /\ Sla \in Nat \cup {None} /\ None \notin Nat /\ None \notin Row /\ None \notin {"ok", "breached"}
    /\ IsFiniteSet(Reviewers) /\ None \notin Reviewers
    /\ PostApproval \in BOOLEAN

VARIABLES
    now,
    birth,      \* created_at of a task: begin of the run's transaction
    row,        \* committed rows of review_tasks, or None
    pc,         \* "idle", "loaded", "decided", "flushed", "executed", "done", "failed"
    ask,        \* what a request is about: [task, decision]
    loaded,     \* the row as the request's session holds it
    decidedAt,  \* the time the request took
    executed,   \* requests whose post-approval steps were executed
    log,        \* the requests whose decision is in reviewer_decisions, in order
    walk        \* what each paging client has: [filter, anchor, shown, due, open]

vars == <<now, birth, row, pc, ask, loaded, decidedAt, executed, log, walk>>
requests == <<pc, ask, loaded, decidedAt, executed, log>>

Goto(r, stage) == pc' = [pc EXCEPT ![r] = stage]
Rows == {t \in Tasks : row[t] # None}
NoWalk == [filter |-> "all", anchor |-> None, shown |-> <<>>, due |-> {}, open |-> FALSE]

Init ==
    /\ now = 0
    /\ birth = [t \in Tasks |-> None] /\ row = [t \in Tasks |-> None]
    /\ pc = [r \in Requests |-> "idle"] /\ ask = [r \in Requests |-> None]
    /\ loaded = [r \in Requests |-> None] /\ decidedAt = [r \in Requests |-> None]
    /\ executed = {} /\ log = <<>>
    /\ walk = [w \in Walks |-> NoWalk]

Tick == now < MaxTime /\ now' = now + 1 /\ UNCHANGED <<birth, row, requests, walk>>

----------------------------------------------------------------------------
(* A run opens a task *)

BeginRun(t) ==
    /\ birth[t] = None
    /\ birth' = [birth EXCEPT ![t] = now]
    /\ UNCHANGED <<now, row, requests, walk>>

\* create_review_task was called at some moment of the run; now the run commits.
OpenTask(t) ==
    /\ birth[t] # None /\ row[t] = None
    /\ \E called \in birth[t] .. now :
        row' = [row EXCEPT ![t] =
            [status |-> "open", reviewer |-> None, decidedAt |-> None,
             due |-> IF Sla = None THEN None ELSE called + Sla,
             sla |-> IF Sla = None THEN None ELSE "ok", breachAt |-> None]]
    /\ UNCHANGED <<now, birth, requests, walk>>

----------------------------------------------------------------------------
(* Approve and reject *)

\* The task is loaded once: later reads of the session return this object.
Load(r) ==
    /\ pc[r] = "idle"
    /\ \E t \in Rows, decision \in Decisions :
        /\ ask' = [ask EXCEPT ![r] = [task |-> t, decision |-> decision]]
        /\ loaded' = [loaded EXCEPT ![r] = row[t]]
    /\ Goto(r, "loaded")
    /\ UNCHANGED <<now, birth, row, decidedAt, executed, log, walk>>

\* approve_review_task, reject_review_task: whatever the status was.
Decide(r) ==
    /\ pc[r] = "loaded"
    /\ decidedAt' = [decidedAt EXCEPT ![r] = now]
    /\ Goto(r, "decided")
    /\ UNCHANGED <<now, birth, row, ask, loaded, executed, log, walk>>

\* 404, 403, 422, or anything raised before the flush.
Refuse(r) ==
    /\ pc[r] \in {"idle", "loaded"}
    /\ Goto(r, "failed")
    /\ UNCHANGED <<now, birth, row, ask, loaded, decidedAt, executed, log, walk>>

\* The UPDATE waits for the row lock, which is held until the commit.
Holders(t) == {r \in Requests : pc[r] \in {"flushed", "executed"} /\ ask[r].task = t}

\* Mutant: the UPDATE does not wait.
FlushUnlocked(r) ==
    /\ pc[r] = "decided"
    /\ Goto(r, "flushed")
    /\ UNCHANGED <<now, birth, row, ask, loaded, decidedAt, executed, log, walk>>

Flush(r) ==
    /\ pc[r] = "decided"
    /\ Holders(ask[r].task) = {}
    /\ Goto(r, "flushed")
    /\ UNCHANGED <<now, birth, row, ask, loaded, decidedAt, executed, log, walk>>

\* execute_post_approval: a fresh engine runs apply_effect, finalize_saga and
\* audit_reporter, or raises half way; a pipeline that is gone is only reported.
ExecutePostApproval(r) ==
    /\ pc[r] = "flushed" /\ PostApproval /\ ask[r].decision = "approved"
    /\ \/ executed' = executed \cup {r} /\ Goto(r, "executed")
       \/ executed' = executed \cup {r} /\ Goto(r, "failed")
       \/ executed' = executed /\ Goto(r, "executed")
    /\ UNCHANGED <<now, birth, row, ask, loaded, decidedAt, log, walk>>

Late(r) == loaded[r].due # None /\ decidedAt[r] > loaded[r].due

\* Mutant: a decision in time resets the flag.
DecidedResettingSla(r) ==
    [loaded[r] EXCEPT !.status = ask[r].decision, !.reviewer = Reviewer[r], !.decidedAt = decidedAt[r],
                      !.sla = IF Late(r) THEN "breached" ELSE "ok"]

\* The object after the decision and _apply_sla_on_decision.
Decided(r) ==
    [loaded[r] EXCEPT !.status = ask[r].decision, !.reviewer = Reviewer[r], !.decidedAt = decidedAt[r],
                      !.sla = IF Late(r) THEN "breached" ELSE @,
                      !.breachAt = IF Late(r) THEN decidedAt[r] ELSE @]

\* UPDATE ... SET the columns that differ from the loaded row.
Updated(r) ==
    [c \in DOMAIN loaded[r] |->
        IF Decided(r)[c] # loaded[r][c] THEN Decided(r)[c] ELSE row[ask[r].task][c]]

Matches(filter, x) ==
    CASE filter = "all" -> TRUE
      [] filter = "breached" -> x.sla = "breached"
      [] OTHER -> x.status = filter

\* (History) the tasks that have matched a walk's filter since it began.
StillDue(rows) ==
    [w \in Walks |-> [walk[w] EXCEPT !.due = {t \in @ : Matches(walk[w].filter, rows[t])}]]

\* Mutant: only an approval that was executed is committed.
CommitExecuted(r) ==
    /\ pc[r] = "executed"
    /\ row' = [row EXCEPT ![ask[r].task] = Updated(r)]
    /\ log' = Append(log, r)
    /\ walk' = StillDue(row')
    /\ Goto(r, "done")
    /\ UNCHANGED <<now, birth, ask, loaded, decidedAt, executed>>

Commit(r) ==
    /\ \/ pc[r] = "executed"
       \/ pc[r] = "flushed" /\ ~(PostApproval /\ ask[r].decision = "approved")
    /\ row' = [row EXCEPT ![ask[r].task] = Updated(r)]
    /\ log' = Append(log, r)
    /\ walk' = StillDue(row')
    /\ Goto(r, "done")
    /\ UNCHANGED <<now, birth, ask, loaded, decidedAt, executed>>

\* The database or the process fails: the transaction is rolled back.
Lose(r) ==
    /\ pc[r] \in {"decided", "flushed", "executed"}
    /\ Goto(r, "failed")
    /\ UNCHANGED <<now, birth, row, ask, loaded, decidedAt, executed, log, walk>>

----------------------------------------------------------------------------
(* The queue of the dashboard *)

\* ORDER BY created_at DESC, id DESC
Precedes(a, b) == birth[a] > birth[b] \/ (birth[a] = birth[b] /\ a > b)

Start(w) ==
    /\ ~walk[w].open /\ walk[w].shown = <<>>
    /\ \E filter \in Filters :
        walk' = [walk EXCEPT ![w] =
            [NoWalk EXCEPT !.filter = filter, !.open = TRUE,
                           !.due = {t \in Rows : Matches(filter, row[t])}]]
    /\ UNCHANGED <<now, birth, row, requests>>

\* A set of tasks in that order, by the number of those before each.
InOrder(S) == [n \in 1 .. Cardinality(S) |-> CHOOSE a \in S : Cardinality({b \in S : Precedes(b, a)}) = n - 1]

After(t, anchor) == anchor = None \/ Precedes(anchor, t)

\* get_reviewer_queue: one page, and a cursor if there is more.
Page(w) ==
    /\ walk[w].open
    /\ LET rest == {t \in Rows : Matches(walk[w].filter, row[t]) /\ After(t, walk[w].anchor)}
           sorted == InOrder(rest)
           more == Len(sorted) > PageSize
           page == IF more THEN SubSeq(sorted, 1, PageSize) ELSE sorted
       IN walk' = [walk EXCEPT ![w].shown = @ \o page,
                               ![w].anchor = IF more THEN Last(page) ELSE None,
                               ![w].open = more]
    /\ UNCHANGED <<now, birth, row, requests>>

Total(amount, S) == MapThenSumSet(LAMBDA v : amount[v], S)

\* get_sla_summary and get_reviewer_sla_badges over a set of rows; get_reviewer_load
\* is the same for the rows of each reviewer.
Summary(ts) ==
    [total |-> Cardinality(ts),
     open |-> Cardinality({t \in ts : row[t].status = "open"}),
     breached |-> Cardinality({t \in ts : row[t].sla = "breached"}),
     decided |-> Cardinality({t \in ts : row[t].status \in Decisions /\ row[t].decidedAt # None})]

ReviewerLoad(v) == Summary({t \in Rows : row[t].reviewer = v})

----------------------------------------------------------------------------

Step(r) == Decide(r) \/ Flush(r) \/ ExecutePostApproval(r) \/ Commit(r)

Next ==
    \/ Tick
    \/ \E t \in Tasks : BeginRun(t) \/ OpenTask(t)
    \/ \E r \in Requests : Load(r) \/ Refuse(r) \/ Lose(r) \/ Step(r)
    \/ \E w \in Walks : Start(w) \/ Page(w)

Spec == Init /\ [][Next]_vars

\* Handlers run to their end, and a client asks for the next page.
FairSpec ==
    /\ Spec
    /\ \A r \in Requests : WF_vars(Step(r))
    /\ \A w \in Walks : WF_vars(Page(w))

----------------------------------------------------------------------------
(* Properties *)

\* Type invariant.
TypeOK ==
    /\ now \in 0 .. MaxTime
    /\ birth \in [Tasks -> 0 .. MaxTime \cup {None}]
    /\ row \in [Tasks -> Row \cup {None}]
    /\ pc \in [Requests -> {"idle", "loaded", "decided", "flushed", "executed", "done", "failed"}]
    /\ ask \in [Requests -> [task : Tasks, decision : Decisions] \cup {None}]
    /\ loaded \in [Requests -> Row \cup {None}]
    /\ decidedAt \in [Requests -> 0 .. MaxTime \cup {None}]
    /\ executed \subseteq Requests /\ log \in Seq(Requests)
    /\ \A w \in Walks : walk[w].shown \in Seq(Tasks) /\ walk[w].due \subseteq Tasks

\* What the summaries and badges count on, whichever requests overlap: a task
\* is open with no reviewer and no decision time, or decided with both, and
\* both come from requests that committed.  [get_sla_summary, get_reviewer_load]
DecidedRowsAreComplete ==
    \A t \in Rows :
        LET by == {r \in ToSet(log) : ask[r].task = t}
        IN /\ row[t].status = "open" <=> by = {}
           /\ row[t].status = "open" <=> row[t].reviewer = None
           /\ row[t].status = "open" <=> row[t].decidedAt = None
           /\ row[t].status # "open" =>
                /\ \E r \in by : row[t].status = ask[r].decision
                /\ \E r \in by : row[t].reviewer = Reviewer[r]
                /\ \E r \in by : row[t].decidedAt = decidedAt[r]

\* A late decision is always marked, and a mark never disappears, even when a
\* request that was in time writes last.  [_apply_sla_on_decision]
BreachesAreKept ==
    /\ \A t \in Rows :
        /\ row[t].sla = "breached" <=> row[t].breachAt # None
        /\ row[t].due # None /\ row[t].decidedAt # None /\ row[t].decidedAt > row[t].due => row[t].sla = "breached"
        /\ row[t].sla = "breached" => row[t].breachAt > row[t].due

\* The metrics agree with each other: every task is open or decided, and the
\* loads of the reviewers add up to the decided and the breached tasks of the
\* summary.  [get_sla_summary, get_reviewer_load]
LoadsAddUp ==
    LET all == Summary(Rows)
    IN /\ all.total = all.open + all.decided
       /\ all.decided = Total([v \in Reviewers |-> ReviewerLoad(v).decided], Reviewers)
       /\ all.breached = Total([v \in Reviewers |-> ReviewerLoad(v).breached], Reviewers)

\* A request that saw the row as it still is when it commits leaves exactly its
\* own decision behind; the time between load and commit is not protected, so
\* nothing is promised to the others.  [approve_review, reject_review]
FreshDecisionIsWhole(r) ==
    pc[r] # "done" /\ pc'[r] = "done" /\ row[ask[r].task] = loaded[r] =>
        LET x == row'[ask[r].task]
        IN x.status = ask[r].decision /\ x.reviewer = Reviewer[r] /\ x.decidedAt = decidedAt[r]

\* While the post-approval steps of a task run, nobody else decides on it: the
\* flushed row is locked.  [approve_review: flush, execute, commit]
ExecutionIsExclusive(r) ==
    pc[r] \in {"flushed", "executed"} /\ row'[ask[r].task] # row[ask[r].task] => pc'[r] = "done"

\* A decision that is not raced is stored whole, and one whose effects are
\* executed is not raced.
DecisionsAreWhole == [][\A r \in Requests : FreshDecisionIsWhole(r) /\ ExecutionIsExclusive(r)]_vars

\* Walking the pages of the queue while tasks appear and are decided shows no
\* task twice, and none is missed that matched the filter all the time.
\* [get_reviewer_queue, _decode_cursor]
WalksAreExact ==
    \A w \in Walks :
        /\ IsInjective(walk[w].shown)
        /\ ~walk[w].open => walk[w].due \subseteq {walk[w].shown[i] : i \in DOMAIN walk[w].shown}

\* What dashboards and summaries show at any time, whichever requests overlap.
QueueIsConsistent ==
    /\ TypeOK
    /\ DecidedRowsAreComplete
    /\ BreachesAreKept
    /\ LoadsAddUp
    /\ WalksAreExact

\* Every request that has loaded a task ends: no lock is held for ever.
EveryDecisionEnds == \A r \in Requests : pc[r] = "loaded" ~> pc[r] \in {"done", "failed"}
=============================================================================
