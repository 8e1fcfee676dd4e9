-------------------------- MODULE WorkflowVersions --------------------------
(***************************************************************************)
(* The versions of one pipeline and of the workflows that are pinned to    *)
(* them.  Requests and maintenance jobs create pipeline versions, create   *)
(* workflows, upgrade them, harden them and optimise their prompt, each in *)
(* a database session of its own: what a session reads may be outdated     *)
(* when it writes.  Sessions are READ COMMITTED; an UPDATE waits for the   *)
(* row locks, and an INSERT for the unique keys, of other open sessions.   *)
(***************************************************************************)
EXTENDS Integers, Sequences, FiniteSets, FiniteSetsExt

CONSTANTS
    Sessions,
    Workflows,      \* workflow names, unique per tenant
    Existing,       \* the workflows that were created before, at version 1
    Ops,            \* the kinds of operation the sessions perform
    MaxPatch,       \* bound: patch level of the versions clients create
    None

OpKinds == {"create_version", "create_workflow", "upgrade", "harden", "optimize_prompt", "optimize_pipeline"}
Makers == {"create_version", "harden", "optimize_pipeline"}   \* make a pipeline version
Movers == {"upgrade", "harden", "optimize_prompt"}            \* append a workflow version

\* What can be stored as a version name, and as a PipelineVersion row.
SuffixWords == {"harden", "h", "auto", "b"}
Names == [patch : Nat, suffix : Seq(SuffixWords)]
VersionRows == [name : Names, threshold : Nat, at : Nat]

ASSUME OpsAssumption ==
    /\ Ops \subseteq OpKinds /\ Existing \subseteq Workflows
    /\ MaxPatch \in Nat /\ None \notin Sessions \cup Workflows \cup VersionRows

VARIABLES
    versions,   \* committed PipelineVersion rows [name, threshold, at]
    workflows,  \* committed Workflow rows
    history,    \* committed WorkflowVersion rows
    op,         \* what a session does: [kind, wf, target], or None
    pc,         \* "idle", "begun", "read", "chosen", "inserted", "current", "written", "done", "failed"
    first,      \* the row a session read first
    name,       \* the version name it chose
    newVersion, \* its inserted, uncommitted PipelineVersion row
    cur,        \* the current WorkflowVersion row it read last
    newRow,     \* its inserted, uncommitted WorkflowVersion row
    began,      \* begin of its transaction
    clock

vars == <<versions, workflows, history, op, pc, first, name, newVersion, cur, newRow, began, clock>>
tables == <<versions, workflows, history>>
session == <<first, name, newVersion, cur, newRow>>

\* A version name is MAJOR.MINOR.PATCH, with what the jobs append to it.
Semver(patch) == [patch |-> patch, suffix |-> <<>>]
IsSemver(v) == v.suffix = <<>>
Named(v) == {row \in versions : row.name = v}

Goto(s, stage) == pc' = [pc EXCEPT ![s] = stage]
Wf(s) == op[s].wf
Kind(s) == op[s].kind

\* The row of a pipeline's creation, and version 1 of a workflow.
FirstVersion == [name |-> Semver(0), threshold |-> 70, at |-> 0]
FirstRow(w, pv) ==
    [wf |-> w, n |-> 1, pv |-> pv, source |-> None, template |-> None,
     by |-> "create_workflow", current |-> TRUE]

Init ==
    /\ versions = {FirstVersion}
    /\ workflows = Existing /\ history = {FirstRow(w, FirstVersion) : w \in Existing}
    /\ op = [s \in Sessions |-> None]
    /\ pc = [s \in Sessions |-> "idle"]
    /\ first = [s \in Sessions |-> None] /\ name = [s \in Sessions |-> None]
    /\ newVersion = [s \in Sessions |-> None] /\ cur = [s \in Sessions |-> None]
    /\ newRow = [s \in Sessions |-> None]
    /\ began = [s \in Sessions |-> 0] /\ clock = 1

\* The uncommitted row of another session that the next statement of s meets: a
\* pipeline version of the name it inserts, or a row of the workflow it updates
\* or creates.  The statement is delayed until that session has ended.
WaitsFor(s, other) ==
    \/ pc[s] = "chosen" /\ newVersion[other] # None /\ newVersion[other].name = name[s]
    \/ /\ pc[s] = "current" \/ (pc[s] = "read" /\ Kind(s) = "create_workflow")
       /\ newRow[other] # None /\ newRow[other].wf = Wf(s)

Delayed(s) == \E other \in Sessions : WaitsFor(s, other)

----------------------------------------------------------------------------
(* Reading *)

\* get_current_workflow_version
Current(w) ==
    LET rows == {row \in history : row.wf = w}
        marked == {row \in rows : row.current}
        Youngest(rs) == CHOOSE row \in rs : \A other \in rs : other.n <= row.n
    IN IF marked # {} THEN Youngest(marked) ELSE Youngest(rows)

\* The newest row by creation time, which is the begin of its transaction.
LatestCreated == CHOOSE row \in versions : \A other \in versions : other.at <= row.at

\* The highest version number; the names must be MAJOR.MINOR.PATCH.
LatestSemver == CHOOSE row \in versions : \A other \in versions : other.name.patch <= row.name.patch

Begin(s) ==
    /\ pc[s] = "idle"
    /\ \E kind \in Ops, w \in Workflows, target \in {row.name : row \in versions} \cup {Semver(MaxPatch)} :
        /\ kind = "create_version" => IsSemver(target)
        /\ op' = [op EXCEPT ![s] = [kind |-> kind, wf |-> w, target |-> target]]
    /\ began' = [began EXCEPT ![s] = clock]
    /\ clock' = clock + 1
    /\ Goto(s, "begun")
    /\ UNCHANGED <<tables, session>>

\* 404, 400, 422: nothing has been written.
Refuse(s) ==
    /\ pc[s] = "begun"
    /\ \/ Kind(s) \in Movers /\ Wf(s) \notin workflows
       \/ Kind(s) = "upgrade" /\ Named(op[s].target) = {}
       \/ Kind(s) = "create_workflow" /\ \E row \in versions : ~IsSemver(row.name)
    /\ Goto(s, "failed")
    /\ UNCHANGED <<tables, op, session, began, clock>>

\* The first read of the jobs, and of a workflow's creation.
ReadFirst(s) ==
    /\ pc[s] = "begun"
    /\ \/ /\ Kind(s) \in {"harden", "optimize_prompt"} /\ Wf(s) \in workflows
          /\ first' = [first EXCEPT ![s] = Current(Wf(s))]
       \/ /\ Kind(s) = "optimize_pipeline"
          /\ first' = [first EXCEPT ![s] = [pv |-> LatestCreated]]
       \/ /\ Kind(s) = "create_workflow" /\ \A row \in versions : IsSemver(row.name)
          /\ first' = [first EXCEPT ![s] = [pv |-> LatestSemver]]
    /\ Goto(s, "read")
    /\ UNCHANGED <<tables, op, name, newVersion, cur, newRow, began, clock>>

----------------------------------------------------------------------------
(* Creating a pipeline version *)

\* _bump_semver, and the suffix that is added when the bumped name is taken.
Bumped(v, word) ==
    IF IsSemver(v) THEN Semver(v.patch + 1) ELSE [v EXCEPT !.suffix = Append(@, word)]
FreeName(v, word, spare) ==
    LET b == Bumped(v, word) IN IF Named(b) = {} THEN b ELSE [b EXCEPT !.suffix = Append(@, spare)]

ChooseName(s) ==
    /\ \/ /\ pc[s] = "begun" /\ Kind(s) = "create_version"
          /\ name' = [name EXCEPT ![s] = op[s].target]
       \/ /\ pc[s] = "read" /\ Kind(s) = "harden"
          /\ name' = [name EXCEPT ![s] = FreeName(first[s].pv.name, "harden", "h")]
       \/ /\ pc[s] = "read" /\ Kind(s) = "optimize_pipeline"
          /\ name' = [name EXCEPT ![s] = FreeName(first[s].pv.name, "auto", "b")]
    /\ Goto(s, "chosen")
    /\ UNCHANGED <<tables, op, first, newVersion, cur, newRow, began, clock>>

\* The confidence threshold (per cent) that the reviewer policy of the new row demands.
Thresholds(s) ==
    CASE Kind(s) = "create_version" -> {70}
      [] Kind(s) = "harden" -> {Min({95, first[s].pv.threshold + 10})}
      [] Kind(s) = "optimize_pipeline" -> {85, 75, 65}

\* Mutant: pipeline versions have no unique key.
NeverNamed(s) == FALSE

\* uq_pipeline_versions_pipeline_id_version
NameTaken(s) == Named(name[s]) # {}

InsertVersion(s) ==
    /\ pc[s] = "chosen" /\ ~Delayed(s)
    /\ IF NameTaken(s)
       THEN Goto(s, "failed") /\ UNCHANGED newVersion
       ELSE /\ \E t \in Thresholds(s) :
                newVersion' = [newVersion EXCEPT ![s] = [name |-> name[s], threshold |-> t, at |-> began[s]]]
            /\ Goto(s, "inserted")
    /\ UNCHANGED <<tables, op, first, name, cur, newRow, began, clock>>

----------------------------------------------------------------------------
(* Appending a workflow version *)

\* The second read: upgrade_workflow and _append_workflow_version look again.
ReadCurrent(s) ==
    /\ \/ pc[s] = "begun" /\ Kind(s) = "upgrade" /\ Wf(s) \in workflows /\ Named(op[s].target) # {}
       \/ pc[s] = "read" /\ Kind(s) = "optimize_prompt"
       \/ pc[s] = "inserted" /\ Kind(s) = "harden"
    /\ cur' = [cur EXCEPT ![s] = Current(Wf(s))]
    /\ Goto(s, "current")
    /\ UNCHANGED <<tables, op, first, name, newVersion, newRow, began, clock>>

\* The pipeline version row a mover pins the workflow to.
Target(s) ==
    CASE Kind(s) = "upgrade" -> CHOOSE row \in versions : row.name = op[s].target
      [] Kind(s) = "harden" -> newVersion[s]
      [] Kind(s) = "optimize_prompt" -> cur[s].pv

\* The prompt: carried over, or rewritten by session s from what it read first.
Template(s) == IF Kind(s) = "optimize_prompt" THEN s ELSE cur[s].template

NextNumber(s) == cur[s].n + 1

\* Mutant: the table has no unique key.
NeverTaken(s) == FALSE

\* uq_workflow_versions_workflow_id_version
NumberTaken(s) == \E row \in history : row.wf = Wf(s) /\ row.n = NextNumber(s)

\* UPDATE is_current = false waits for whoever has updated a row of this
\* workflow; then the INSERT, which fails (500, rollback) if the number is taken.
Write(s) ==
    /\ pc[s] = "current" /\ ~Delayed(s)
    /\ IF NumberTaken(s)
       THEN /\ Goto(s, "failed")
            /\ newVersion' = [newVersion EXCEPT ![s] = None]
            /\ UNCHANGED newRow
       ELSE /\ newRow' = [newRow EXCEPT ![s] =
                [wf |-> Wf(s), n |-> NextNumber(s), pv |-> Target(s), source |-> cur[s].pv.name,
                 template |-> Template(s), by |-> Kind(s), current |-> TRUE]]
            /\ Goto(s, "written")
            /\ UNCHANGED newVersion
    /\ UNCHANGED <<tables, op, first, name, cur, began, clock>>

\* uq_workflows_tenant_id_name; the new workflow's version 1 comes with it.
CreateWorkflow(s) ==
    /\ pc[s] = "read" /\ Kind(s) = "create_workflow" /\ ~Delayed(s)
    /\ IF Wf(s) \in workflows
       THEN Goto(s, "failed") /\ UNCHANGED newRow
       ELSE /\ newRow' = [newRow EXCEPT ![s] = FirstRow(Wf(s), first[s].pv)]
            /\ Goto(s, "written")
    /\ UNCHANGED <<tables, op, first, name, newVersion, cur, began, clock>>

----------------------------------------------------------------------------
(* The end of a session *)

Appended(row) ==
    {IF old.wf = row.wf THEN [old EXCEPT !.current = FALSE] ELSE old : old \in history} \cup {row}

\* Mutant: a job that only makes a pipeline version flushes but does not commit.
OnlyFlushed(s) ==
    /\ pc[s] = "written"
    /\ history' = Appended(newRow[s]) /\ workflows' = workflows \cup {Wf(s)}
    /\ versions' = IF newVersion[s] # None THEN versions \cup {newVersion[s]} ELSE versions
    /\ newRow' = [newRow EXCEPT ![s] = None]
    /\ newVersion' = [newVersion EXCEPT ![s] = None]
    /\ Goto(s, "done")
    /\ UNCHANGED <<op, first, name, cur, began, clock>>

Commit(s) ==
    /\ pc[s] = "written" \/ (pc[s] = "inserted" /\ Kind(s) # "harden")
    /\ IF newRow[s] # None
       THEN history' = Appended(newRow[s]) /\ workflows' = workflows \cup {Wf(s)}
       ELSE UNCHANGED <<history, workflows>>
    /\ versions' = IF newVersion[s] # None THEN versions \cup {newVersion[s]} ELSE versions
    /\ newRow' = [newRow EXCEPT ![s] = None]
    /\ newVersion' = [newVersion EXCEPT ![s] = None]
    /\ Goto(s, "done")
    /\ UNCHANGED <<op, first, name, cur, began, clock>>

\* The process or the connection is lost: the database rolls back.
Lose(s) ==
    /\ pc[s] \notin {"idle", "done", "failed"}
    /\ newRow' = [newRow EXCEPT ![s] = None]
    /\ newVersion' = [newVersion EXCEPT ![s] = None]
    /\ Goto(s, "failed")
    /\ UNCHANGED <<tables, op, first, name, cur, began, clock>>

Step(s) ==
    \/ Refuse(s) \/ ReadFirst(s) \/ ChooseName(s) \/ InsertVersion(s)
    \/ ReadCurrent(s) \/ Write(s) \/ CreateWorkflow(s) \/ Commit(s)

Next == \E s \in Sessions : Begin(s) \/ Step(s) \/ Lose(s)

Spec == Init /\ [][Next]_vars

----------------------------------------------------------------------------
(* Properties *)

\* Type invariant.
TypeOK ==
    /\ \A row \in versions : row.name.patch \in Nat /\ row.threshold \in 65 .. 95 /\ row.at < clock
    /\ workflows \subseteq Workflows
    /\ \A row \in history : row.wf \in workflows /\ row.n \in Nat \ {0} /\ row.pv \in versions
    /\ \A s \in Sessions : newRow[s] # None => pc[s] = "written"

\* Readers always find one current version, and it is the newest one, however
\* the sessions that append versions overlap or are lost.  [upgrade_workflow,
\* _append_workflow_version: UPDATE is_current, INSERT, one commit]
OneCurrentVersion ==
    \A w \in workflows :
        LET rows == {row \in history : row.wf = w}
        IN /\ Cardinality({row \in rows : row.current}) = 1
           /\ \A row \in rows : row.current <=> \A other \in rows : other.n <= row.n

\* The history of a workflow is one chain: versions are numbered without gaps,
\* each says truly which pipeline version it was upgraded from, an upgrade
\* keeps the prompt and a prompt optimisation keeps the pipeline version of its
\* predecessor, even if another session moved the workflow after it was read.
\* [upgrade_metadata, uq_workflow_versions_workflow_id_version]
HistoryIsChain ==
    \A row \in history :
        \/ row.n = 1
        \/ \E pred \in history :
            /\ pred.wf = row.wf /\ pred.n = row.n - 1
            /\ \A other \in history : other.wf = row.wf /\ other.n = row.n => other = row
            /\ row.source = pred.pv.name
            /\ row.by = "optimize_prompt" => row.pv = pred.pv
            /\ row.by # "optimize_prompt" => row.template = pred.template

\* A pipeline version that a workflow is pinned to is never changed, and a
\* name never means two versions.  [PipelineVersion rows are only inserted]
VersionsAreImmutable ==
    [][/\ versions \subseteq versions'
       /\ \A a, b \in versions' : a.name = b.name => a = b]_vars

\* A name gets a suffix only when the name without it was taken, so the runs
\* of a pipeline can compare its versions until two jobs want one name.
\* [harden_workflow, auto_optimize_pipeline]
SuffixesHaveAReason ==
    \A row \in versions :
        ~IsSemver(row.name) =>
            Named([row.name EXCEPT !.suffix = SubSeq(@, 1, Len(@) - 1)]) # {}

\* What readers find in the two tables at any time, whatever sessions overlap.
TablesAreConsistent == TypeOK /\ OneCurrentVersion /\ HistoryIsChain /\ SuffixesHaveAReason

\* Sessions never wait for each other in a circle, although a hardening holds
\* the key of a version name while it waits for the rows of its workflow: in
\* every set of sessions one waits for none of the others.  [harden_workflow,
\* auto_optimize_pipeline, upgrade_workflow: the order of their statements]
NoCircle ==
    \A group \in SUBSET Sessions :
        group # {} => \E s \in group : \A other \in group : ~WaitsFor(s, other)

\* An open session can end: there is no circle, and a statement that is not
\* delayed can be executed.  [the same jobs, and their one commit at the end]
Open(s) == pc[s] \notin {"idle", "done", "failed"}
NobodyIsStuck ==
    /\ NoCircle
    /\ \A s \in Sessions : Open(s) /\ ~Delayed(s) => ENABLED Step(s)
=============================================================================
