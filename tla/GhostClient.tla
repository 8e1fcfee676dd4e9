----------------------------- MODULE GhostClient -----------------------------
(***************************************************************************)
(* The ghost command line client: invocations of "ghost run" on one        *)
(* machine share a state directory, in which the run id of each execute    *)
(* body is remembered, and post to the API, which may refuse, fail, answer *)
(* late or never.  "ghost watch" polls a run until it is finished.         *)
(***************************************************************************)
EXTENDS Naturals, FiniteSets

CONSTANTS
    Procs,          \* invocations of ghost run
    Watchers,       \* invocations of ghost watch
    WorkflowIds, Inputs,
    MaxRetries,     \* max_retries_429
    MaxReplays,     \* bound: replays that other clients post
    None

Bodies == WorkflowIds \X Inputs

ASSUME ClientAssumption ==
    /\ MaxRetries \in Nat /\ MaxReplays \in Nat
    /\ None \notin Procs \cup Nat

VARIABLES
    pc,         \* where an invocation of ghost run stands
    ask,        \* what it was asked to execute: [body, force]
    retries,    \* 429 responses it has waited for
    wire,       \* its request: [reply, run]
    got,        \* the run id it holds
    rc,         \* its exit code; 1 for a traceback, 130 if killed
    fd,         \* the inode it has opened for writing
    path,       \* the state file of a fingerprint: an inode or None
    tmp,        \* its .part file
    content,    \* run id in an inode; None: empty, no JSON
    runs,       \* Run rows of the server: [id, body, by, status]
    watch       \* the run id an invocation of ghost watch polls, or None

vars == <<pc, ask, retries, wire, got, rc, fd, path, tmp, content, runs, watch>>
request == <<retries, wire, got>>
files == <<fd, path, tmp, content>>

\* An inode is named by the invocation that created it.
Inodes == Procs
NoAsk == [body |-> None, force |-> FALSE]
NoWire == [reply |-> "none", run |-> None]
Stages == {"idle", "lookup", "hook", "ready", "posted", "open", "fill", "replace", "print", "ended"}
Replies == {"none", "sent", "limited", "refused", "failed", "created"}

Init ==
    /\ pc = [p \in Procs |-> "idle"]
    /\ ask = [p \in Procs |-> NoAsk]
    /\ retries = [p \in Procs |-> 0]
    /\ wire = [p \in Procs |-> NoWire]
    /\ got = [p \in Procs |-> None]
    /\ rc = [p \in Procs |-> None]
    /\ fd = [p \in Procs |-> None]
    /\ path = [b \in Bodies |-> None] /\ tmp = [b \in Bodies |-> None]
    /\ content = [i \in Inodes |-> None]
    /\ runs = {}
    /\ watch = [w \in Watchers |-> None]

Goto(p, stage) ==
    /\ pc' = [pc EXCEPT ![p] = stage]
    /\ UNCHANGED rc

Exit(p, code) ==
    /\ pc' = [pc EXCEPT ![p] = "ended"]
    /\ rc' = [rc EXCEPT ![p] = code]

----------------------------------------------------------------------------
(* ghost run: before the request *)

Start(p) ==
    /\ pc[p] = "idle"
    /\ \E b \in Bodies, force \in BOOLEAN :
        /\ ask' = [ask EXCEPT ![p] = [body |-> b, force |-> force]]
        /\ Goto(p, IF force THEN "hook" ELSE "lookup")
    /\ UNCHANGED <<request, files, runs, watch>>

\* Mutant: the workflow id is left out of the hash.
FingerprintOfInput(b) == <<CHOOSE w \in WorkflowIds : TRUE, b[2]>>

\* fingerprint_execute_body: a hash of the workflow id and the whole body.
Fingerprint(b) == b
File(p) == Fingerprint(ask[p].body)

\* lookup_run_id: no file, or no JSON in it, is no mapping.
Mapping(f) == IF path[f] = None THEN None ELSE content[path[f]]

LookUp(p) ==
    /\ pc[p] = "lookup"
    /\ IF Mapping(File(p)) = None
       THEN Goto(p, "hook") /\ UNCHANGED got
       ELSE got' = [got EXCEPT ![p] = Mapping(File(p))] /\ Exit(p, 0)
    /\ UNCHANGED <<ask, retries, wire, files, runs, watch>>

\* The pre_run hook may stop the invocation.
PreRunHook(p) ==
    /\ pc[p] = "hook"
    /\ Goto(p, "ready") \/ Exit(p, 1)
    /\ UNCHANGED <<ask, request, files, runs, watch>>

----------------------------------------------------------------------------
(* The request *)

Post(p) ==
    /\ pc[p] = "ready"
    /\ wire' = [wire EXCEPT ![p] = [reply |-> "sent", run |-> None]]
    /\ Goto(p, "posted")
    /\ UNCHANGED <<ask, retries, got, files, runs, watch>>

NewRun(body, by, status) ==
    [id |-> Cardinality(runs) + 1, body |-> body, by |-> by, status |-> status]

\* The server (RunAdmission): rate limited or refused without a run, executed,
\* or failed, possibly after the commit.  The client may have given up by then.
Serve(p) ==
    /\ wire[p].reply = "sent"
    /\ \/ /\ \E reply \in {"limited", "refused"} : wire' = [wire EXCEPT ![p].reply = reply]
          /\ UNCHANGED runs
       \/ LET run == NewRun(ask[p].body, p, "success")
          IN /\ \E reply \in {"created", "failed"} :
                    wire' = [wire EXCEPT ![p] = [reply |-> reply, run |-> run.id]]
             /\ runs' = runs \cup {run}
    /\ UNCHANGED <<pc, ask, retries, got, rc, files, watch>>

\* Another client replays a run.
ReplayElsewhere ==
    /\ Cardinality({r \in runs : r.status = "replay"}) < MaxReplays
    /\ \E r \in runs : runs' = runs \cup {NewRun(r.body, None, "replay")}
    /\ UNCHANGED <<pc, ask, request, rc, files, watch>>

\* Mutant: the retries are not counted.
RetryForEver(p) ==
    /\ pc[p] = "posted" /\ wire[p].reply = "limited"
    /\ wire' = [wire EXCEPT ![p] = NoWire]
    /\ Goto(p, "ready")
    /\ UNCHANGED <<ask, retries, got, files, runs, watch>>

\* A 429 is tried again, after Retry-After, at most MaxRetries times.
Retry(p) ==
    /\ pc[p] = "posted" /\ wire[p].reply = "limited"
    /\ retries[p] < MaxRetries
    /\ retries' = [retries EXCEPT ![p] = @ + 1]
    /\ wire' = [wire EXCEPT ![p] = NoWire]
    /\ Goto(p, "ready")
    /\ UNCHANGED <<ask, got, files, runs, watch>>

\* Any other error is final.
Fail(p) ==
    /\ pc[p] = "posted"
    /\ wire[p].reply \in {"refused", "failed"} \/ (wire[p].reply = "limited" /\ retries[p] = MaxRetries)
    /\ Exit(p, 1)
    /\ UNCHANGED <<ask, request, files, runs, watch>>

\* The request times out (60 s) or the connection breaks; the server may serve it all the same.
GiveUp(p) ==
    /\ pc[p] = "posted"
    /\ Exit(p, 1)
    /\ UNCHANGED <<ask, request, files, runs, watch>>

\* Mutant: the mapping is not saved.
SucceedUnsaved(p) ==
    /\ pc[p] = "posted" /\ wire[p].reply = "created"
    /\ got' = [got EXCEPT ![p] = wire[p].run]
    /\ Goto(p, "print")
    /\ UNCHANGED <<ask, retries, wire, files, runs, watch>>

Succeed(p) ==
    /\ pc[p] = "posted" /\ wire[p].reply = "created"
    /\ got' = [got EXCEPT ![p] = wire[p].run]
    /\ Goto(p, IF ask[p].force THEN "print" ELSE "open")
    /\ UNCHANGED <<ask, retries, wire, files, runs, watch>>

----------------------------------------------------------------------------
(* save_run_mapping: all invocations of one body use one .part file *)

\* write_text opens the .part file, creates it or empties what another invocation wrote ...
Open(p) ==
    /\ pc[p] = "open"
    /\ LET i == IF tmp[File(p)] = None THEN p ELSE tmp[File(p)]
       IN /\ tmp' = [tmp EXCEPT ![File(p)] = i]
          /\ fd' = [fd EXCEPT ![p] = i]
          /\ content' = [content EXCEPT ![i] = None]
    /\ Goto(p, "fill")
    /\ UNCHANGED <<ask, request, path, runs, watch>>

\* ... writes into what it has opened, wherever that file is now ...
Fill(p) ==
    /\ pc[p] = "fill"
    /\ content' = [content EXCEPT ![fd[p]] = got[p]]
    /\ fd' = [fd EXCEPT ![p] = None]
    /\ Goto(p, "replace")
    /\ UNCHANGED <<ask, request, path, tmp, runs, watch>>

\* ... and os.replace moves the .part file, or raises if another invocation has moved it.
Replace(p) ==
    /\ pc[p] = "replace"
    /\ IF tmp[File(p)] = None
       THEN Exit(p, 1) /\ UNCHANGED <<path, tmp>>
       ELSE /\ path' = [path EXCEPT ![File(p)] = tmp[File(p)]]
            /\ tmp' = [tmp EXCEPT ![File(p)] = None]
            /\ Goto(p, "print")
    /\ UNCHANGED <<ask, request, fd, content, runs, watch>>

\* The post_run hook only warns; the run id is printed.
PrintRunId(p) ==
    /\ pc[p] = "print"
    /\ Exit(p, 0)
    /\ UNCHANGED <<ask, request, files, runs, watch>>

\* The user or the system kills the invocation.
Die(p) ==
    /\ pc[p] \notin {"idle", "ended"}
    /\ Exit(p, 130)
    /\ UNCHANGED <<ask, request, files, runs, watch>>

----------------------------------------------------------------------------
(* ghost watch *)

StartWatch(w) ==
    /\ watch[w] = None
    /\ \E r \in runs : watch' = [watch EXCEPT ![w] = r.id]
    /\ UNCHANGED <<pc, ask, request, rc, files, runs>>

\* A fetch that shows one of these statuses ends the loop (exit code 0, or 1 if
\* the run failed); after any other status, and after a fetch that fails, it
\* sleeps and goes on.
Poll(w) ==
    /\ \E r \in runs : r.id = watch[w] /\ r.status \in {"completed", "success", "failed"}
    /\ watch' = [watch EXCEPT ![w] = None]
    /\ UNCHANGED <<pc, ask, request, rc, files, runs>>

\* Ctrl-C
Interrupt(w) ==
    /\ watch[w] # None
    /\ watch' = [watch EXCEPT ![w] = None]
    /\ UNCHANGED <<pc, ask, request, rc, files, runs>>

Invocation(p) ==
    \/ LookUp(p) \/ PreRunHook(p)
    \/ Post(p) \/ Retry(p) \/ Fail(p) \/ Succeed(p)
    \/ Open(p) \/ Fill(p) \/ Replace(p) \/ PrintRunId(p)

Next ==
    \/ \E p \in Procs : Start(p) \/ Invocation(p) \/ Serve(p) \/ GiveUp(p) \/ Die(p)
    \/ \E w \in Watchers : StartWatch(w) \/ Poll(w) \/ Interrupt(w)
    \/ ReplayElsewhere

Spec == Init /\ [][Next]_vars

\* An invocation keeps running once started, its request is served or times
\* out, and a fetch that can show a final status sooner or later does.
FairSpec ==
    /\ Spec
    /\ \A p \in Procs : WF_vars(Invocation(p)) /\ WF_vars(Serve(p) \/ GiveUp(p))
    /\ \A w \in Watchers : WF_vars(Poll(w))

----------------------------------------------------------------------------
(* Properties *)

\* Type invariant.
TypeOK ==
    /\ pc \in [Procs -> Stages]
    /\ ask \in [Procs -> [body : Bodies, force : BOOLEAN] \cup {NoAsk}]
    /\ retries \in [Procs -> 0 .. MaxRetries]
    /\ wire \in [Procs -> [reply : Replies, run : Nat \cup {None}]]
    /\ got \in [Procs -> Nat \cup {None}]
    /\ rc \in [Procs -> {None, 0, 1, 130}]
    /\ fd \in [Procs -> Inodes \cup {None}]
    /\ path \in [Bodies -> Inodes \cup {None}] /\ tmp \in [Bodies -> Inodes \cup {None}]
    /\ content \in [Inodes -> Nat \cup {None}]
    /\ \A r \in runs :
        r.id \in 1 .. Cardinality(runs) /\ r.body \in Bodies /\ r.by \in Procs \cup {None}
    /\ \A w \in Watchers : watch[w] # None => \E r \in runs : r.id = watch[w]

\* The run id an invocation prints names a run of exactly what it was asked to
\* execute, one of its own with --force, however the invocations that share the
\* state directory interleave or die.  [_run_cmd, lookup_run_id, save_run_mapping]
PrintedRunIsOfThisBody ==
    \A p \in Procs :
        rc[p] = 0 =>
            \E r \in runs : /\ r.id = got[p] /\ r.body = ask[p].body
                            /\ ask[p].force => r.by = p

\* An invocation never makes two runs, though it repeats its POST after a 429
\* and the server may serve a request it has given up.  [_request_with_429_retries]
OneRunPerInvocation == \A p \in Procs : Cardinality({r \in runs : r.by = p}) <= 1

\* An invocation that exits 0 without --force leaves a state file behind that
\* maps its body to a run, or one that an invocation has opened, hence emptied,
\* and has not written to.  [save_run_mapping]
SuccessIsRemembered ==
    \A p \in Procs :
        rc[p] = 0 /\ ~ask[p].force =>
            /\ path[File(p)] # None
            /\ Mapping(File(p)) # None \/ \E q \in Procs : fd[q] = path[File(p)]

\* A reader finds an unreadable state file only if two invocations saved the
\* same body at the same time: one moved the .part file while the other had
\* emptied it.  A single writer that dies leaves the mapping whole.
UnreadableOnlyAfterRace ==
    \A f \in Bodies :
        path[f] # None /\ Mapping(f) = None =>
            \E p, q \in Procs :
                /\ p # q /\ fd[p] = path[f] /\ File(q) = f
                /\ ~ask[q].force /\ got[q] # None /\ pc[q] \in {"print", "ended"}

\* What invocations print, make and leave behind, however they share the state
\* directory, are repeated or die.
InvocationsAreConsistent ==
    /\ TypeOK
    /\ PrintedRunIsOfThisBody
    /\ OneRunPerInvocation
    /\ UnreadableOnlyAfterRace

\* Every invocation of ghost run ends, the 429 retries being bounded, and every
\* ghost watch of a run that was executed; a replay's status is unknown to
\* watch_run, so nothing is promised to those who watch one.
WatchesExecution(w) == \E r \in runs : r.id = watch[w] /\ r.status # "replay"
EveryInvocationEnds ==
    /\ \A p \in Procs : pc[p] # "idle" ~> pc[p] = "ended"
    /\ \A w \in Watchers : WatchesExecution(w) ~> ~WatchesExecution(w)
=============================================================================
