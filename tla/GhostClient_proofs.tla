--------------------------- MODULE GhostClient_proofs ---------------------------
(***************************************************************************)
(* Proofs about GhostClient, for every number of invocations, workflows,   *)
(* inputs, retries and replays.                                            *)
(***************************************************************************)
EXTENDS GhostClient, FiniteSetTheorems, TLAPS

Asks == [body : Bodies, force : BOOLEAN]
Wires == [reply : Replies, run : Nat \cup {None}]

\* The types the proof needs.
Typed ==
    /\ pc \in [Procs -> Stages]
    /\ ask \in [Procs -> Asks \cup {NoAsk}]
    /\ wire \in [Procs -> Wires]
    /\ got \in [Procs -> Nat \cup {None}]
    /\ rc \in [Procs -> {None, 0, 1, 130}]
    /\ fd \in [Procs -> Inodes \cup {None}]
    /\ path \in [Bodies -> Inodes \cup {None}] /\ tmp \in [Bodies -> Inodes \cup {None}]
    /\ content \in [Inodes -> Nat \cup {None}]
    /\ IsFiniteSet(runs)

Saving == {"open", "fill", "replace"}

\* Where an invocation stands, for one of them.
Stands(p) ==
    /\ pc[p] # "idle" => ask[p] \in Asks
    /\ wire[p].reply = "created" => wire[p].run \in Nat
    /\ pc[p] \in Saving => ~ask[p].force /\ got[p] \in Nat
    /\ pc[p] = "fill" => fd[p] \in Inodes
    /\ fd[p] # None => pc[p] \in {"fill", "ended"}
    /\ rc[p] = 0 => pc[p] = "ended"
    /\ pc[p] = "print" \/ rc[p] = 0 => ask[p].force \/ path[File(p)] # None

\* An inode in the state directory is readable, or somebody has emptied it and
\* has not written to it.
ReadableOrEmptied ==
    \A b \in Bodies : \A i \in {path[b], tmp[b]} \ {None} :
        content[i] = None => \E q \in Procs : fd[q] = i

Remembered == Typed /\ (\A p \in Procs : Stands(p)) /\ ReadableOrEmptied

----------------------------------------------------------------------------

\* An invocation that goes on without touching the state directory.
LEMMA MoveKeepsRemembered ==
    ASSUME Remembered, NEW p \in Procs, NEW stage \in Stages \ {"idle", "fill"},
           pc' = [pc EXCEPT ![p] = stage], Typed', UNCHANGED files,
           \A q \in Procs \ {p} : ask'[q] = ask[q] /\ wire'[q] = wire[q] /\ got'[q] = got[q] /\ rc'[q] = rc[q],
           ask'[p] \in Asks, wire'[p].reply = "created" => wire'[p].run \in Nat,
           stage \in Saving => ~ask'[p].force /\ got'[p] \in Nat,
           fd[p] # None => stage = "ended",
           rc'[p] = 0 => stage = "ended",
           stage = "print" \/ rc'[p] = 0 => ask'[p].force \/ path[ask'[p].body] # None
    PROVE  Remembered'
<1>1. \A q \in Procs \ {p} : pc'[q] = pc[q]
  BY DEF Remembered, Typed
<1>2. pc'[p] = stage
  BY DEF Remembered, Typed
<1>3. \A q \in Procs \ {p} : Stands(q)'
  BY <1>1 DEF Remembered, Stands, files, File, Fingerprint
<1>4. Stands(p)'
  BY <1>2 DEF Stands, files, File, Fingerprint, Saving
<1>5. ReadableOrEmptied'
  BY DEF Remembered, ReadableOrEmptied, files
<1> QED
  BY <1>3, <1>4, <1>5 DEF Remembered

LEMMA StartKeepsRemembered ==
    ASSUME Remembered, NEW p \in Procs, Start(p)
    PROVE  Remembered'
<1>1. PICK b \in Bodies, force \in BOOLEAN :
        /\ ask' = [ask EXCEPT ![p] = [body |-> b, force |-> force]]
        /\ Goto(p, IF force THEN "hook" ELSE "lookup")
  BY DEF Start
<1>2. PICK stage \in {"hook", "lookup"} : pc' = [pc EXCEPT ![p] = stage] /\ rc' = rc
  BY <1>1 DEF Goto
<1>3. [body |-> b, force |-> force] \in Asks
  BY DEF Asks
<1>4. UNCHANGED <<wire, got, files, runs>>
  BY DEF Start, request
<1>5. Typed' /\ ask'[p] \in Asks /\ \A q \in Procs \ {p} : ask'[q] = ask[q]
  BY <1>1, <1>2, <1>3, <1>4 DEF Remembered, Typed, Stages, files
<1>6. fd[p] = None /\ rc[p] # 0 /\ (wire[p].reply = "created" => wire[p].run \in Nat)
  BY DEF Remembered, Stands, Start
<1> QED
  BY <1>2, <1>4, <1>5, <1>6, MoveKeepsRemembered DEF Stages, Saving

LEMMA LookUpKeepsRemembered ==
    ASSUME Remembered, NEW p \in Procs, LookUp(p)
    PROVE  Remembered'
<1>1. ask[p] \in Asks /\ fd[p] = None /\ rc[p] # 0 /\ (wire[p].reply = "created" => wire[p].run \in Nat)
  BY DEF Remembered, Stands, LookUp
<1>2. UNCHANGED <<ask, wire, files, runs>>
  BY DEF LookUp
<1>3. CASE Goto(p, "hook") /\ UNCHANGED got
  <2>1. Typed'
    BY <1>2, <1>3 DEF Remembered, Typed, Goto, Stages, files
  <2> QED
    BY <1>1, <1>2, <1>3, <2>1, MoveKeepsRemembered DEF Goto, Stages, Saving
<1>4. CASE Mapping(File(p)) # None /\ got' = [got EXCEPT ![p] = Mapping(File(p))] /\ Exit(p, 0)
  <2>1. ask[p].body \in Bodies /\ File(p) = ask[p].body
    BY <1>1 DEF Asks, File, Fingerprint
  <2>2. path[ask[p].body] # None /\ Mapping(File(p)) \in Nat
    BY <1>4, <2>1 DEF Mapping, Remembered, Typed
  <2>3. Typed' /\ \A q \in Procs \ {p} : got'[q] = got[q] /\ rc'[q] = rc[q]
    BY <1>2, <1>4, <2>2 DEF Remembered, Typed, Exit, Stages, files
  <2> QED
    BY <1>1, <1>2, <1>4, <2>2, <2>3, MoveKeepsRemembered DEF Exit, Stages, Saving
<1> QED
  BY <1>3, <1>4 DEF LookUp

\* The request, and every end that is no success.
LEMMA RequestKeepsRemembered ==
    ASSUME Remembered, NEW p \in Procs, PreRunHook(p) \/ Post(p) \/ Retry(p) \/ Fail(p) \/ GiveUp(p) \/ Die(p)
    PROVE  Remembered'
<1>1. pc[p] # "idle" /\ UNCHANGED <<ask, got, files, runs>>
  BY DEF PreRunHook, Post, Retry, Fail, GiveUp, Die, request
<1>2. ask[p] \in Asks
  BY <1>1 DEF Remembered, Stands
<1>3. PICK stage \in {"ready", "posted", "ended"} :
        /\ pc' = [pc EXCEPT ![p] = stage]
        /\ stage # "ended" => pc[p] \in {"hook", "ready", "posted"} /\ rc' = rc
        /\ stage = "ended" => \E code \in {1, 130} : rc' = [rc EXCEPT ![p] = code]
  BY DEF PreRunHook, Post, Retry, Fail, GiveUp, Die, Goto, Exit
<1>4. wire' = wire \/ \E reply \in {"sent", "none"} : wire' = [wire EXCEPT ![p] = [reply |-> reply, run |-> None]]
  BY DEF PreRunHook, Post, Retry, Fail, GiveUp, Die, request, NoWire
<1>5. \A reply \in {"sent", "none"} : [reply |-> reply, run |-> None] \in Wires
  BY DEF Wires, Replies
<1>6. pc' \in [Procs -> Stages] /\ rc' \in [Procs -> {None, 0, 1, 130}] /\ wire' \in [Procs -> Wires]
  BY <1>3, <1>4, <1>5 DEF Remembered, Typed, Stages
<1>7. Typed'
  BY <1>1, <1>6 DEF Remembered, Typed, files
<1>8. /\ \A q \in Procs \ {p} : wire'[q] = wire[q] /\ rc'[q] = rc[q]
      /\ wire'[p].reply = "created" => wire'[p].run \in Nat
  BY <1>3, <1>4 DEF Remembered, Typed, Stands
<1>9. rc'[p] # 0 /\ (fd[p] # None => stage = "ended")
  BY <1>1, <1>3 DEF Remembered, Typed, Stands
<1> QED
  BY <1>1, <1>2, <1>3, <1>7, <1>8, <1>9, MoveKeepsRemembered DEF Stages, Saving

LEMMA SucceedKeepsRemembered ==
    ASSUME Remembered, NEW p \in Procs, Succeed(p)
    PROVE  Remembered'
<1> DEFINE stage == IF ask[p].force THEN "print" ELSE "open"
<1>1. /\ pc' = [pc EXCEPT ![p] = stage] /\ got' = [got EXCEPT ![p] = wire[p].run]
      /\ UNCHANGED <<ask, wire, rc, files, runs>>
  BY DEF Succeed, Goto
<1>2. ask[p] \in Asks /\ wire[p].run \in Nat /\ fd[p] = None /\ rc[p] # 0
  BY DEF Remembered, Stands, Succeed
<1>3. stage \in {"print", "open"} /\ (stage = "open" <=> ~ask[p].force)
  OBVIOUS
<1> HIDE DEF stage
<1>4. Typed' /\ got'[p] \in Nat /\ \A q \in Procs \ {p} : got'[q] = got[q]
  BY <1>1, <1>2, <1>3 DEF Remembered, Typed, Stages, files
<1> QED
  BY <1>1, <1>2, <1>3, <1>4, MoveKeepsRemembered DEF Stages, Saving, Remembered, Stands

LEMMA PrintKeepsRemembered ==
    ASSUME Remembered, NEW p \in Procs, PrintRunId(p)
    PROVE  Remembered'
<1>1. /\ pc' = [pc EXCEPT ![p] = "ended"] /\ rc' = [rc EXCEPT ![p] = 0]
      /\ UNCHANGED <<ask, wire, got, files, runs>>
  BY DEF PrintRunId, Exit, request
<1>2. ask[p] \in Asks /\ (ask[p].force \/ path[ask[p].body] # None)
  BY DEF Remembered, Stands, PrintRunId, File, Fingerprint
<1>3. Typed' /\ \A q \in Procs \ {p} : rc'[q] = rc[q]
  BY <1>1 DEF Remembered, Typed, Stages, files
<1> QED
  BY <1>1, <1>2, <1>3, MoveKeepsRemembered DEF Stages, Saving, Remembered, Stands

----------------------------------------------------------------------------

\* Emptying a file leaves the one who did it with the file open.
LEMMA OpenKeepsRemembered ==
    ASSUME Remembered, NEW p \in Procs, Open(p)
    PROVE  Remembered'
<1> DEFINE i == IF tmp[File(p)] = None THEN p ELSE tmp[File(p)]
<1>1. /\ tmp' = [tmp EXCEPT ![File(p)] = i] /\ fd' = [fd EXCEPT ![p] = i] /\ content' = [content EXCEPT ![i] = None]
      /\ pc' = [pc EXCEPT ![p] = "fill"] /\ UNCHANGED <<ask, wire, got, rc, path, runs>>
  BY DEF Open, Goto, request
<1>2. ask[p] \in Asks /\ fd[p] = None /\ ~ask[p].force /\ got[p] \in Nat /\ rc[p] # 0
  BY DEF Remembered, Stands, Open, Saving
<1>3. File(p) \in Bodies
  BY <1>2 DEF File, Fingerprint, Asks
<1>4. i \in Inodes /\ (tmp[File(p)] = i \/ tmp[File(p)] = None)
  BY <1>3 DEF Remembered, Typed, Inodes
<1> HIDE DEF i
<1>5. Typed'
  BY <1>1, <1>3, <1>4 DEF Remembered, Typed, Stages
<1>6. \A q \in Procs : Stands(q)'
  <2>1. \A q \in Procs \ {p} : Stands(q)'
    BY <1>1 DEF Remembered, Typed, Stands, File
  <2>2. pc'[p] = "fill" /\ fd'[p] = i
    BY <1>1 DEF Remembered, Typed
  <2>3. Stands(p)'
    BY <1>1, <1>2, <1>4, <2>2 DEF Remembered, Stands
  <2> QED
    BY <2>1, <2>3
<1>7. ReadableOrEmptied'
  <2> SUFFICES ASSUME NEW b \in Bodies, NEW j \in {path[b], tmp'[b]} \ {None}, content'[j] = None
               PROVE  \E q \in Procs : fd'[q] = j
    BY <1>1 DEF ReadableOrEmptied
  <2>1. CASE j = i
    BY <1>1, <2>1 DEF Remembered, Typed
  <2>2. CASE j # i
    <3>1. j \in {path[b], tmp[b]} \ {None} /\ j \in Inodes
      BY <1>1, <1>3, <2>2 DEF Remembered, Typed
    <3>2. content[j] = None
      BY <1>1, <2>2, <3>1 DEF Remembered, Typed
    <3>3. PICK q \in Procs : fd[q] = j
      BY <3>1, <3>2 DEF Remembered, ReadableOrEmptied
    <3>4. q # p
      BY <1>2, <3>1, <3>3
    <3> QED
      BY <1>1, <3>3, <3>4 DEF Remembered, Typed
  <2> QED
    BY <2>1, <2>2
<1> QED
  BY <1>5, <1>6, <1>7 DEF Remembered

\* Writing makes readable what the writer has open, wherever it is.
LEMMA FillKeepsRemembered ==
    ASSUME Remembered, NEW p \in Procs, Fill(p)
    PROVE  Remembered'
<1>1. /\ content' = [content EXCEPT ![fd[p]] = got[p]] /\ fd' = [fd EXCEPT ![p] = None]
      /\ pc' = [pc EXCEPT ![p] = "replace"] /\ UNCHANGED <<ask, wire, got, rc, path, tmp, runs>>
  BY DEF Fill, Goto, request
<1>2. ask[p] \in Asks /\ fd[p] \in Inodes /\ ~ask[p].force /\ got[p] \in Nat /\ rc[p] # 0
  BY DEF Remembered, Stands, Fill, Saving
<1>3. Typed'
  BY <1>1, <1>2 DEF Remembered, Typed, Stages
<1>4. \A q \in Procs : Stands(q)'
  <2>1. \A q \in Procs \ {p} : Stands(q)'
    BY <1>1 DEF Remembered, Typed, Stands, File
  <2>2. pc'[p] = "replace" /\ fd'[p] = None
    BY <1>1 DEF Remembered, Typed
  <2>3. Stands(p)'
    BY <1>1, <1>2, <2>2 DEF Remembered, Stands
  <2> QED
    BY <2>1, <2>3
<1>5. ReadableOrEmptied'
  <2> SUFFICES ASSUME NEW b \in Bodies, NEW j \in {path[b], tmp[b]} \ {None}, content'[j] = None
               PROVE  \E q \in Procs : fd'[q] = j
    BY <1>1 DEF ReadableOrEmptied
  <2>1. j \in Inodes
    BY DEF Remembered, Typed
  <2>2. j # fd[p] /\ content[j] = None
    BY <1>1, <1>2, <2>1, ClientAssumption DEF Remembered, Typed
  <2>3. PICK q \in Procs : fd[q] = j
    BY <2>2 DEF Remembered, ReadableOrEmptied
  <2> QED
    BY <1>1, <2>2, <2>3 DEF Remembered, Typed
<1> QED
  BY <1>3, <1>4, <1>5 DEF Remembered

LEMMA ReplaceKeepsRemembered ==
    ASSUME Remembered, NEW p \in Procs, Replace(p)
    PROVE  Remembered'
<1>1. /\ ask[p] \in Asks /\ fd[p] = None /\ ~ask[p].force /\ got[p] \in Nat /\ rc[p] # 0
      /\ Stands(p) /\ (wire[p].reply = "created" => wire[p].run \in Nat)
  BY DEF Remembered, Stands, Replace, Saving
<1>2. UNCHANGED <<ask, wire, got, fd, content, runs>> /\ File(p) = ask[p].body /\ File(p) \in Bodies
  BY <1>1 DEF Replace, request, File, Fingerprint, Asks
<1>3. CASE Exit(p, 1) /\ UNCHANGED <<path, tmp>>
  <2>1. Typed' /\ rc'[p] = 1 /\ \A q \in Procs \ {p} : rc'[q] = rc[q]
    BY <1>2, <1>3 DEF Remembered, Typed, Exit, Stages
  <2>2. UNCHANGED files /\ pc' = [pc EXCEPT ![p] = "ended"]
    BY <1>2, <1>3 DEF files, Exit
  <2>3. \A q \in Procs \ {p} : ask'[q] = ask[q] /\ wire'[q] = wire[q] /\ got'[q] = got[q] /\ rc'[q] = rc[q]
    BY <1>2, <2>1
  <2>4. ask'[p] \in Asks /\ (wire'[p].reply = "created" => wire'[p].run \in Nat) /\ rc'[p] # 0 /\ fd[p] = None
    BY <1>1, <1>2, <2>1
  <2> DEFINE stage == "ended"
  <2>5. stage \in Stages \ {"idle", "fill"} /\ stage \notin Saving /\ stage # "print"
    BY DEF Stages, Saving
  <2>6. pc' = [pc EXCEPT ![p] = stage]
    BY <2>2
  <2> HIDE DEF stage
  <2> QED
    BY <2>1, <2>2, <2>3, <2>4, <2>5, <2>6, MoveKeepsRemembered
<1>4. CASE /\ tmp[File(p)] # None
           /\ path' = [path EXCEPT ![File(p)] = tmp[File(p)]] /\ tmp' = [tmp EXCEPT ![File(p)] = None]
           /\ Goto(p, "print")
  <2>1. Typed'
    BY <1>2, <1>4 DEF Remembered, Typed, Goto, Stages
  <2>2. \A b \in Bodies : path[b] # None => path'[b] # None
    BY <1>2, <1>4 DEF Remembered, Typed
  <2>3. path'[File(p)] # None
    BY <1>2, <1>4 DEF Remembered, Typed
  <2>4. \A q \in Procs : ask[q] \in Asks => File(q) \in Bodies
    BY DEF Asks, File, Fingerprint
  <2>5. ASSUME NEW q \in Procs \ {p}
        PROVE  Stands(q)'
    <3>1. Stands(q) /\ pc'[q] = pc[q] /\ rc'[q] = rc[q]
      BY <1>4 DEF Remembered, Typed, Goto
    <3>2. pc[q] = "print" \/ rc[q] = 0 => ask[q] \in Asks
      BY <3>1 DEF Stands
    <3>3. pc[q] = "print" \/ rc[q] = 0 => ask[q].force \/ path'[File(q)] # None
      BY <2>2, <2>4, <3>1, <3>2 DEF Stands
    <3> QED
      BY <1>2, <3>1, <3>3 DEF Stands, File
  <2>6. Stands(p)'
    <3>1. pc'[p] = "print" /\ rc'[p] = rc[p]
      BY <1>4 DEF Remembered, Typed, Goto
    <3> QED
      BY <1>1, <1>2, <2>3, <3>1 DEF Stands, File, Saving
  <2>7. ReadableOrEmptied'
    BY <1>2, <1>4 DEF Remembered, Typed, ReadableOrEmptied
  <2> QED
    BY <2>1, <2>5, <2>6, <2>7 DEF Remembered
<1> QED
  BY <1>3, <1>4 DEF Replace

----------------------------------------------------------------------------

\* The server and other clients add runs; a watcher changes nothing of this.
LEMMA ServerKeepsRemembered ==
    ASSUME Remembered, (\E p \in Procs : Serve(p)) \/ ReplayElsewhere
    PROVE  Remembered'
<1>1. UNCHANGED <<pc, ask, got, rc, files>>
  BY DEF Serve, ReplayElsewhere, request
<1>2. \A body, by, status : NewRun(body, by, status).id \in Nat
  BY FS_CardinalityType DEF Remembered, Typed, NewRun
<1>3. runs' = runs \/ \E run : runs' = runs \cup {run}
  BY DEF Serve, ReplayElsewhere
<1>4. IsFiniteSet(runs')
  BY <1>3, FS_AddElement DEF Remembered, Typed
<1>5. wire' = wire \/ \E p \in Procs, w \in Wires : wire' = [wire EXCEPT ![p] = w] /\ (w.reply = "created" => w.run \in Nat)
  <2>1. ASSUME NEW p \in Procs, Serve(p)
        PROVE  \E w \in Wires : wire' = [wire EXCEPT ![p] = w] /\ (w.reply = "created" => w.run \in Nat)
    <3>1. CASE \E reply \in {"limited", "refused"} : wire' = [wire EXCEPT ![p].reply = reply]
      <4>1. PICK reply \in {"limited", "refused"} : wire' = [wire EXCEPT ![p].reply = reply]
        BY <3>1
      <4>2. wire[p] \in Wires
        BY DEF Remembered, Typed
      <4>3. [wire[p] EXCEPT !.reply = reply] \in Wires /\ [wire[p] EXCEPT !.reply = reply].reply = reply
        BY <4>2 DEF Wires, Replies
      <4>4. wire' = [wire EXCEPT ![p] = [wire[p] EXCEPT !.reply = reply]]
        BY <4>1
      <4> QED
        BY <4>3, <4>4
    <3>2. ASSUME NEW reply \in {"created", "failed"}, NEW id \in Nat,
                 wire' = [wire EXCEPT ![p] = [reply |-> reply, run |-> id]]
          PROVE  \E w \in Wires : wire' = [wire EXCEPT ![p] = w] /\ (w.reply = "created" => w.run \in Nat)
      <4> DEFINE w == [reply |-> reply, run |-> id]
      <4>1. w \in Wires /\ w.run \in Nat
        BY DEF Wires, Replies
      <4> HIDE DEF w
      <4>2. wire' = [wire EXCEPT ![p] = w]
        BY <3>2 DEF w
      <4> QED
        BY <4>1, <4>2
    <3> QED
      BY <1>2, <2>1, <3>1, <3>2 DEF Serve
  <2> QED
    BY <2>1 DEF ReplayElsewhere, request
<1>6. Typed' /\ \A p \in Procs : wire'[p].reply = "created" => wire'[p].run \in Nat
  BY <1>1, <1>4, <1>5 DEF Remembered, Typed, Stands, files
<1> QED
  BY <1>1, <1>6 DEF Remembered, Stands, ReadableOrEmptied, files, File

LEMMA StepKeepsRemembered ==
    ASSUME Remembered, [Next]_vars
    PROVE  Remembered'
<1>1. CASE UNCHANGED <<pc, ask, request, rc, files, runs>>
  BY <1>1 DEF Remembered, Typed, Stands, ReadableOrEmptied, request, files, File
<1>2. ASSUME NEW w, StartWatch(w) \/ Poll(w) \/ Interrupt(w)
      PROVE  Remembered'
  BY <1>1, <1>2 DEF StartWatch, Poll, Interrupt
<1>3. CASE UNCHANGED vars
  BY <1>1, <1>3 DEF vars, request, files
<1> QED
  BY <1>2, <1>3, StartKeepsRemembered, LookUpKeepsRemembered, RequestKeepsRemembered, SucceedKeepsRemembered,
     OpenKeepsRemembered, FillKeepsRemembered, ReplaceKeepsRemembered, PrintKeepsRemembered, ServerKeepsRemembered
  DEF Next, Invocation

LEMMA InitRemembered == Init => Remembered
<1> SUFFICES ASSUME Init
             PROVE  Remembered
  OBVIOUS
<1>1. IsFiniteSet(runs)
  BY FS_EmptySet DEF Init
<1>2. NoWire \in Wires
  BY DEF NoWire, Wires, Replies
<1>3. Typed
  BY <1>1, <1>2 DEF Init, Typed, Stages
<1>4. \A p \in Procs : Stands(p)
  BY ClientAssumption DEF Init, Stands, Saving, NoWire
<1>5. ReadableOrEmptied
  BY DEF Init, ReadableOrEmptied
<1> QED
  BY <1>3, <1>4, <1>5 DEF Remembered

\* However many invocations share the state directory, fail or die: one that
\* exits 0 without --force leaves a mapping, or one that somebody has emptied.
THEOREM SuccessStays == Spec => []SuccessIsRemembered
<1>1. Init => Remembered
  BY InitRemembered
<1>2. Remembered /\ [Next]_vars => Remembered'
  BY StepKeepsRemembered
<1>3. Remembered => SuccessIsRemembered
  <2> SUFFICES ASSUME Remembered, NEW p \in Procs, rc[p] = 0, ~ask[p].force
               PROVE  /\ path[File(p)] # None
                      /\ Mapping(File(p)) # None \/ \E q \in Procs : fd[q] = path[File(p)]
    BY DEF SuccessIsRemembered
  <2>1. path[File(p)] # None /\ File(p) \in Bodies
    BY DEF Remembered, Stands, File, Fingerprint, Asks
  <2> QED
    BY <2>1 DEF Remembered, ReadableOrEmptied, Mapping
<1> QED
  BY <1>1, <1>2, <1>3, PTL DEF Spec

----------------------------------------------------------------------------
(* What invocations print, make and leave behind. *)

RunOf(id, body) == \E r \in runs : r.id = id /\ r.body = body

\* What an invocation holds, and the run the server made for it.
Holds(p) ==
    /\ pc[p] \in {"idle", "lookup", "hook", "ready"} => wire[p] = NoWire
    /\ wire[p].reply \notin {"created", "failed"} => \A r \in runs : r.by # p
    /\ wire[p].reply = "created" => \E r \in runs : r.id = wire[p].run /\ r.body = ask[p].body /\ r.by = p
    /\ pc[p] = "lookup" => ~ask[p].force
    /\ pc[p] \in {"idle", "lookup", "hook", "ready", "posted"} => got[p] = None
    /\ pc[p] = "print" \/ rc[p] = 0 => got[p] # None
    /\ got[p] # None =>
        \E r \in runs : r.id = got[p] /\ r.body = ask[p].body /\ (ask[p].force => r.by = p)

\* Server rows: numbered, and one for an invocation.
Numbered ==
    /\ \A r \in runs : r.id \in 1 .. Cardinality(runs) /\ r.body \in Bodies /\ r.by \in Procs \cup {None}
    /\ \A a, b \in runs : a.by = b.by /\ a.by \in Procs => a = b

\* An inode is of the body its creator was asked to execute: so are the files
\* that are named after the body, the run id in it and those who write to it.
Creator(i, body) == pc[i] # "idle" /\ ask[i].body = body
OfOneBody ==
    /\ \A b \in Bodies : \A i \in {path[b], tmp[b]} \ {None} : Creator(i, b)
    /\ \A p \in Procs : fd[p] # None => Creator(fd[p], ask[p].body)
    /\ \A i \in Inodes : content[i] # None => pc[i] # "idle" /\ RunOf(content[i], ask[i].body)

\* Whoever moved a state file into its place has saved it and goes on.
Mover(q, b) ==
    /\ ask[q] \in Asks /\ ask[q].body = b /\ ~ask[q].force /\ got[q] # None
    /\ pc[q] \in {"print", "ended"} /\ fd[q] = None
MovedBySomebody == \A b \in Bodies : path[b] # None => \E q \in Procs : Mover(q, b)

Watched == \A w \in Watchers : watch[w] # None => \E r \in runs : r.id = watch[w]

Exact ==
    /\ Remembered /\ retries \in [Procs -> 0 .. MaxRetries] /\ watch = [w \in Watchers |-> watch[w]]
    /\ \A p \in Procs : Holds(p)
    /\ Numbered /\ OfOneBody /\ MovedBySomebody /\ Watched

\* An invocation that goes on without touching the state directory.
LEMMA MoveKeepsExact ==
    ASSUME Exact, Remembered', NEW p \in Procs, NEW stage \in Stages \ {"idle"},
           pc' = [pc EXCEPT ![p] = stage], UNCHANGED <<files, runs, watch>>,
           \A q \in Procs \ {p} : ask'[q] = ask[q] /\ wire'[q] = wire[q] /\ got'[q] = got[q] /\ rc'[q] = rc[q],
           retries' \in [Procs -> 0 .. MaxRetries],
           ask'[p] = ask[p] \/ pc[p] = "idle",
           pc[p] \in {"print", "ended"} => stage \in {"print", "ended"} /\ got'[p] = got[p],
           Holds(p)'
    PROVE  Exact'
<1>1. pc'[p] = stage /\ \A q \in Procs \ {p} : pc'[q] = pc[q]
  BY DEF Exact, Remembered, Typed
<1>2. \A q \in Procs : Holds(q)'
  BY <1>1 DEF Exact, Holds
<1>3. \A q \in Procs : pc[q] # "idle" => pc'[q] # "idle" /\ ask'[q] = ask[q]
  BY <1>1
<1>4. \A q \in Procs : fd[q] # None => pc[q] # "idle" /\ fd[q] \in Procs
  BY DEF Exact, Remembered, Typed, Stands, Inodes
<1>5. OfOneBody'
  BY <1>3, <1>4 DEF Exact, OfOneBody, Creator, RunOf, Remembered, Typed, Inodes, files
<1>6. ASSUME NEW b \in Bodies, NEW q \in Procs, Mover(q, b) PROVE Mover(q, b)'
  BY <1>1, <1>6 DEF Mover, files
<1>7. MovedBySomebody'
  BY <1>6 DEF Exact, MovedBySomebody, files
<1> QED
  BY <1>2, <1>5, <1>7 DEF Exact, Numbered, Watched

LEMMA StartKeepsExact ==
    ASSUME Exact, NEW p \in Procs, Start(p)
    PROVE  Exact'
<1>1. PICK b \in Bodies, force \in BOOLEAN :
        /\ ask' = [ask EXCEPT ![p] = [body |-> b, force |-> force]]
        /\ Goto(p, IF force THEN "hook" ELSE "lookup")
  BY DEF Start
<1>2. PICK stage \in {"hook", "lookup"} : pc' = [pc EXCEPT ![p] = stage] /\ rc' = rc /\ (stage = "lookup" => ~force)
  BY <1>1 DEF Goto
<1>3. pc[p] = "idle" /\ UNCHANGED <<retries, wire, got, files, runs, watch>>
  BY DEF Start, request
<1>4. /\ ask'[p].force = force /\ \A q \in Procs \ {p} : ask'[q] = ask[q]
      /\ pc'[p] = stage
  BY <1>1, <1>2 DEF Exact, Remembered, Typed
<1>5. got[p] = None /\ wire[p] = NoWire /\ rc[p] # 0 /\ (\A r \in runs : r.by # p)
  BY <1>3 DEF Exact, Holds, Remembered, Stands, NoWire
<1>6. Holds(p)'
  BY <1>2, <1>3, <1>4, <1>5 DEF Holds, NoWire
<1>7. Remembered'
  BY StartKeepsRemembered DEF Exact
<1> QED
  BY <1>2, <1>3, <1>4, <1>6, <1>7, MoveKeepsExact DEF Exact, Stages

LEMMA LookUpKeepsExact ==
    ASSUME Exact, NEW p \in Procs, LookUp(p)
    PROVE  Exact'
<1>1. /\ pc[p] = "lookup" /\ UNCHANGED <<ask, retries, wire, files, runs, watch>>
  BY DEF LookUp
<1>2. /\ ask[p] \in Asks /\ ~ask[p].force /\ wire[p] = NoWire /\ got[p] = None /\ rc[p] # 0
      /\ \A r \in runs : r.by # p
  BY <1>1 DEF Exact, Holds, Remembered, Stands, NoWire
<1>3. Remembered'
  BY LookUpKeepsRemembered DEF Exact
<1>4. CASE Goto(p, "hook") /\ UNCHANGED got
  <2>1. pc' = [pc EXCEPT ![p] = "hook"] /\ rc' = rc /\ pc'[p] = "hook"
    BY <1>4 DEF Goto, Exact, Remembered, Typed
  <2>2. Holds(p)'
    BY <1>1, <1>2, <1>4, <2>1 DEF Holds, NoWire
  <2> QED
    BY <1>1, <1>3, <1>4, <2>1, <2>2, MoveKeepsExact DEF Exact, Stages
<1>5. CASE Mapping(File(p)) # None /\ got' = [got EXCEPT ![p] = Mapping(File(p))] /\ Exit(p, 0)
  <2>1. ask[p].body \in Bodies /\ File(p) = ask[p].body
    BY <1>2 DEF Asks, File, Fingerprint
  <2>2. RunOf(Mapping(File(p)), ask[p].body)
    BY <1>5, <2>1 DEF Mapping, Exact, OfOneBody, Creator, Remembered, Typed
  <2>3. /\ pc' = [pc EXCEPT ![p] = "ended"] /\ pc'[p] = "ended" /\ got'[p] = Mapping(File(p))
        /\ \A q \in Procs \ {p} : got'[q] = got[q] /\ rc'[q] = rc[q]
    BY <1>5 DEF Exit, Exact, Remembered, Typed
  <2>4. Holds(p)'
    BY <1>1, <1>2, <1>5, <2>2, <2>3 DEF Holds, NoWire, RunOf
  <2> QED
    BY <1>1, <1>3, <2>3, <2>4, MoveKeepsExact DEF Exact, Stages
<1> QED
  BY <1>4, <1>5 DEF LookUp

LEMMA RequestKeepsExact ==
    ASSUME Exact, NEW p \in Procs, PreRunHook(p) \/ Post(p) \/ Retry(p) \/ Fail(p) \/ GiveUp(p) \/ Die(p)
    PROVE  Exact'
<1>1. pc[p] # "idle" /\ UNCHANGED <<ask, got, files, runs, watch>>
  BY DEF PreRunHook, Post, Retry, Fail, GiveUp, Die, request
<1>2. PICK stage \in {"ready", "posted", "ended"} :
        /\ pc' = [pc EXCEPT ![p] = stage]
        /\ stage # "ended" => pc[p] \in {"hook", "ready", "posted"} /\ rc' = rc
        /\ stage = "ended" => \E code \in {1, 130} : rc' = [rc EXCEPT ![p] = code]
        /\ stage = "ready" =>
            \/ wire' = [wire EXCEPT ![p] = NoWire] /\ wire[p].reply = "limited"
            \/ wire' = wire /\ pc[p] = "hook"
        /\ stage = "posted" => wire' = [wire EXCEPT ![p] = [reply |-> "sent", run |-> None]] /\ pc[p] = "ready"
        /\ stage = "ended" => wire' = wire
  BY DEF PreRunHook, Post, Retry, Fail, GiveUp, Die, Goto, Exit, request
<1>3. retries' \in [Procs -> 0 .. MaxRetries]
  <2>1. CASE Retry(p)
    BY <2>1, ClientAssumption DEF Retry, Exact
  <2>2. CASE ~Retry(p)
    BY <2>2 DEF PreRunHook, Post, Fail, GiveUp, Die, request, Exact
  <2> QED
    BY <2>1, <2>2
<1>4. Remembered'
  BY RequestKeepsRemembered DEF Exact
<1>5. /\ pc'[p] = stage /\ \A q \in Procs \ {p} : wire'[q] = wire[q] /\ rc'[q] = rc[q]
      /\ stage = "ended" => rc'[p] \in {1, 130} /\ wire'[p] = wire[p]
      /\ stage = "ready" => wire'[p] = NoWire /\ (\A r \in runs : r.by # p) /\ got[p] = None /\ rc'[p] # 0
      /\ stage = "posted" => wire'[p].reply = "sent" /\ (\A r \in runs : r.by # p) /\ got[p] = None /\ rc'[p] # 0
  BY <1>2 DEF Exact, Remembered, Typed, Holds, Stands, NoWire
<1>6. Holds(p)'
  <2>1. CASE stage = "ended"
    BY <1>1, <1>5, <2>1 DEF Exact, Holds
  <2>2. CASE stage = "ready"
    BY <1>1, <1>5, <2>2 DEF Exact, Holds, NoWire
  <2>3. CASE stage = "posted"
    BY <1>1, <1>5, <2>3 DEF Exact, Holds, NoWire
  <2> QED
    BY <2>1, <2>2, <2>3
<1>7. pc[p] \in {"print", "ended"} => stage \in {"print", "ended"}
  BY <1>2
<1> QED
  BY <1>1, <1>2, <1>3, <1>4, <1>5, <1>6, <1>7, MoveKeepsExact DEF Stages

LEMMA SucceedKeepsExact ==
    ASSUME Exact, NEW p \in Procs, Succeed(p)
    PROVE  Exact'
<1>1. PICK stage \in {"print", "open"} :
        /\ pc' = [pc EXCEPT ![p] = stage] /\ got' = [got EXCEPT ![p] = wire[p].run]
        /\ UNCHANGED <<ask, retries, wire, rc, files, runs, watch>>
  BY DEF Succeed, Goto
<1>2. pc[p] = "posted" /\ wire[p].reply = "created" /\ wire[p].run \in Nat /\ rc[p] # 0
  BY DEF Succeed, Exact, Remembered, Stands
<1>3. pc'[p] = stage /\ got'[p] = wire[p].run /\ \A q \in Procs \ {p} : got'[q] = got[q]
  BY <1>1 DEF Exact, Remembered, Typed
<1>4. wire[p].run # None
  BY <1>2, ClientAssumption
<1>5. Holds(p)'
  BY <1>1, <1>2, <1>3, <1>4 DEF Exact, Holds
<1>6. Remembered'
  BY SucceedKeepsRemembered DEF Exact
<1> QED
  BY <1>1, <1>2, <1>3, <1>5, <1>6, MoveKeepsExact DEF Exact, Stages

LEMMA PrintKeepsExact ==
    ASSUME Exact, NEW p \in Procs, PrintRunId(p)
    PROVE  Exact'
<1>1. /\ pc' = [pc EXCEPT ![p] = "ended"] /\ rc' = [rc EXCEPT ![p] = 0] /\ pc[p] = "print"
      /\ UNCHANGED <<ask, retries, wire, got, files, runs, watch>>
  BY DEF PrintRunId, Exit, request
<1>2. pc'[p] = "ended" /\ got[p] # None /\ \A q \in Procs \ {p} : rc'[q] = rc[q]
  BY <1>1 DEF Exact, Remembered, Typed, Holds
<1>3. Holds(p)'
  BY <1>1, <1>2 DEF Exact, Holds
<1>4. Remembered'
  BY PrintKeepsRemembered DEF Exact
<1> QED
  BY <1>1, <1>2, <1>3, <1>4, MoveKeepsExact DEF Exact, Stages

\* The .part file that is opened is of the body that the invocation executes.
LEMMA OpenKeepsExact ==
    ASSUME Exact, NEW p \in Procs, Open(p)
    PROVE  Exact'
<1> DEFINE i == IF tmp[File(p)] = None THEN p ELSE tmp[File(p)]
<1>1. /\ tmp' = [tmp EXCEPT ![File(p)] = i] /\ fd' = [fd EXCEPT ![p] = i] /\ content' = [content EXCEPT ![i] = None]
      /\ pc' = [pc EXCEPT ![p] = "fill"] /\ pc[p] = "open"
      /\ UNCHANGED <<ask, retries, wire, got, rc, path, runs, watch>>
  BY DEF Open, Goto, request
<1>2. ask[p] \in Asks /\ File(p) = ask[p].body /\ ask[p].body \in Bodies
  BY <1>1 DEF Exact, Remembered, Stands, File, Fingerprint, Asks
<1>3. i \in Inodes /\ Creator(i, ask[p].body)
  BY <1>1, <1>2 DEF Exact, OfOneBody, Creator, Remembered, Typed, Inodes
<1> HIDE DEF i
<1>4. Remembered'
  BY OpenKeepsRemembered DEF Exact
<1>5. /\ pc'[p] = "fill" /\ \A q \in Procs \ {p} : pc'[q] = pc[q] /\ fd'[q] = fd[q]
      /\ fd'[p] = i /\ tmp'[ask[p].body] = i /\ \A b \in Bodies \ {ask[p].body} : tmp'[b] = tmp[b]
      /\ \A j \in Inodes : content'[j] # None => content'[j] = content[j]
  BY <1>1, <1>2, <1>3 DEF Exact, Remembered, Typed
<1>6. \A q \in Procs : Holds(q)'
  BY <1>1, <1>5 DEF Exact, Holds
<1>7. \A j, b : Creator(j, b) /\ j \in Procs => Creator(j, b)'
  BY <1>1, <1>5 DEF Creator
<1>8. OfOneBody'
  <2>1. \A b \in Bodies : \A j \in {path'[b], tmp'[b]} \ {None} : Creator(j, b)'
    BY <1>1, <1>3, <1>5, <1>7 DEF Exact, OfOneBody, Remembered, Typed, Inodes
  <2>2. \A q \in Procs : fd'[q] # None => Creator(fd[q], ask[q].body)'
    <3>1. Creator(i, ask[p].body) /\ i \in Procs
      BY <1>3 DEF Inodes
    <3>2. Creator(fd[p], ask[p].body)'
      BY <1>1, <1>5, <3>1 DEF Creator
    <3>3. ASSUME NEW q \in Procs \ {p}, fd'[q] # None PROVE Creator(fd[q], ask[q].body)'
      <4>1. Creator(fd[q], ask[q].body)
        BY <1>5, <3>3 DEF Exact, OfOneBody
      <4> QED
        BY <1>1, <1>5, <3>3, <4>1 DEF Creator, Exact, Remembered, Typed, Inodes
    <3> QED
      BY <3>2, <3>3
  <2>3. \A j \in Inodes : content'[j] # None => pc'[j] # "idle" /\ RunOf(content'[j], ask[j].body)
    BY <1>5 DEF Exact, OfOneBody, Inodes
  <2> QED
    BY <1>1, <2>1, <2>2, <2>3 DEF OfOneBody, RunOf
<1>9. MovedBySomebody'
  <2>1. ASSUME NEW b \in Bodies, NEW q \in Procs, Mover(q, b) PROVE Mover(q, b)'
    BY <1>1, <1>5, <2>1 DEF Mover
  <2> QED
    BY <1>1, <2>1 DEF Exact, MovedBySomebody
<1> QED
  BY <1>1, <1>4, <1>6, <1>8, <1>9 DEF Exact, Numbered, Watched

LEMMA FillKeepsExact ==
    ASSUME Exact, NEW p \in Procs, Fill(p)
    PROVE  Exact'
<1>1. /\ content' = [content EXCEPT ![fd[p]] = got[p]] /\ fd' = [fd EXCEPT ![p] = None]
      /\ pc' = [pc EXCEPT ![p] = "replace"] /\ pc[p] = "fill"
      /\ UNCHANGED <<ask, retries, wire, got, rc, path, tmp, runs, watch>>
  BY DEF Fill, Goto, request
<1>2. got[p] \in Nat /\ fd[p] \in Inodes /\ fd[p] # None
  BY <1>1, ClientAssumption DEF Exact, Remembered, Stands, Saving, Inodes
<1>3. Remembered'
  BY FillKeepsRemembered DEF Exact
<1>4. /\ pc'[p] = "replace" /\ fd'[p] = None /\ \A q \in Procs \ {p} : pc'[q] = pc[q] /\ fd'[q] = fd[q]
      /\ content'[fd[p]] = got[p] /\ \A j \in Inodes \ {fd[p]} : content'[j] = content[j]
  BY <1>1, <1>2 DEF Exact, Remembered, Typed
<1>5. \A q \in Procs : Holds(q)'
  BY <1>1, <1>4 DEF Exact, Holds
<1>6. \A j, b : Creator(j, b) /\ j \in Procs => Creator(j, b)'
  BY <1>1, <1>4 DEF Creator
<1>7. OfOneBody'
  <2>1. \A b \in Bodies : \A j \in {path[b], tmp[b]} \ {None} : Creator(j, b)'
    BY <1>6 DEF Exact, OfOneBody, Remembered, Typed, Inodes
  <2>2. \A q \in Procs : fd'[q] # None => Creator(fd[q], ask[q].body)'
    <3> SUFFICES ASSUME NEW q \in Procs, fd'[q] # None PROVE Creator(fd[q], ask[q].body)'
      OBVIOUS
    <3>1. fd'[q] = fd[q]
      BY <1>4
    <3>2. Creator(fd[q], ask[q].body) /\ fd[q] \in Procs
      BY <3>1 DEF Exact, OfOneBody, Remembered, Typed, Inodes
    <3> QED
      BY <1>1, <1>4, <3>1, <3>2 DEF Creator
  <2>3. RunOf(got[p], ask[p].body)
    BY <1>2, ClientAssumption DEF Exact, Holds, RunOf
  <2>4. pc[fd[p]] # "idle" /\ ask[fd[p]].body = ask[p].body
    BY <1>2 DEF Exact, OfOneBody, Creator
  <2>5. \A j \in Inodes : content'[j] # None => pc'[j] # "idle" /\ RunOf(content'[j], ask[j].body)
    BY <1>4, <2>3, <2>4 DEF Exact, OfOneBody, Inodes
  <2> QED
    BY <1>1, <2>1, <2>2, <2>5 DEF OfOneBody, RunOf
<1>8. MovedBySomebody'
  <2>1. ASSUME NEW b \in Bodies, NEW q \in Procs, Mover(q, b) PROVE Mover(q, b)'
    BY <1>1, <1>4, <2>1 DEF Mover
  <2> QED
    BY <1>1, <2>1 DEF Exact, MovedBySomebody
<1> QED
  BY <1>1, <1>3, <1>5, <1>7, <1>8 DEF Exact, Numbered, Watched

LEMMA ReplaceKeepsExact ==
    ASSUME Exact, NEW p \in Procs, Replace(p)
    PROVE  Exact'
<1>1. /\ pc[p] = "replace" /\ UNCHANGED <<ask, retries, wire, got, fd, content, runs, watch>>
  BY DEF Replace, request
<1>2. /\ ask[p] \in Asks /\ ~ask[p].force /\ File(p) = ask[p].body /\ ask[p].body \in Bodies
      /\ fd[p] = None /\ got[p] \in Nat /\ got[p] # None /\ rc[p] # 0
  BY <1>1, ClientAssumption DEF Exact, Remembered, Stands, Saving, File, Fingerprint, Asks
<1>3. Remembered'
  BY ReplaceKeepsRemembered DEF Exact
<1>4. CASE Exit(p, 1) /\ UNCHANGED <<path, tmp>>
  <2>1. /\ pc' = [pc EXCEPT ![p] = "ended"] /\ pc'[p] = "ended" /\ rc'[p] = 1 /\ UNCHANGED files
        /\ \A q \in Procs \ {p} : rc'[q] = rc[q]
    BY <1>1, <1>4 DEF Exit, Exact, Remembered, Typed, files
  <2>2. Holds(p)'
    BY <1>1, <2>1 DEF Exact, Holds
  <2> QED
    BY <1>1, <1>3, <2>1, <2>2, MoveKeepsExact DEF Exact, Stages
<1>5. CASE /\ tmp[File(p)] # None
           /\ path' = [path EXCEPT ![File(p)] = tmp[File(p)]] /\ tmp' = [tmp EXCEPT ![File(p)] = None]
           /\ Goto(p, "print")
  <2>1. /\ pc'[p] = "print" /\ rc' = rc /\ \A q \in Procs \ {p} : pc'[q] = pc[q]
        /\ path'[ask[p].body] = tmp[ask[p].body] /\ tmp'[ask[p].body] = None
        /\ \A b \in Bodies \ {ask[p].body} : path'[b] = path[b] /\ tmp'[b] = tmp[b]
    BY <1>2, <1>5 DEF Goto, Exact, Remembered, Typed
  <2>2. \A q \in Procs : Holds(q)'
    BY <1>1, <1>2, <2>1 DEF Exact, Holds
  <2>3. \A j, b : Creator(j, b) /\ j \in Procs => Creator(j, b)'
    BY <1>1, <2>1 DEF Creator
  <2>4. OfOneBody'
    <3>1. \A b \in Bodies : \A j \in {path'[b], tmp'[b]} \ {None} : Creator(j, b)'
      BY <2>1, <2>3 DEF Exact, OfOneBody, Remembered, Typed, Inodes
    <3>2. \A q \in Procs : fd[q] # None => Creator(fd[q], ask[q].body)'
      BY <1>1, <2>3 DEF Exact, OfOneBody, Remembered, Typed, Inodes
    <3>3. \A j \in Inodes : content[j] # None => pc'[j] # "idle" /\ RunOf(content[j], ask[j].body)
      BY <2>1 DEF Exact, OfOneBody, Inodes
    <3> QED
      BY <1>1, <3>1, <3>2, <3>3 DEF OfOneBody, RunOf, Creator
  <2>5. MovedBySomebody'
    <3>1. ASSUME NEW b \in Bodies, NEW q \in Procs, Mover(q, b) PROVE Mover(q, b)'
      BY <1>1, <2>1, <3>1 DEF Mover
    <3>2. Mover(p, ask[p].body)'
      BY <1>1, <1>2, <2>1 DEF Mover
    <3>3. ASSUME NEW b \in Bodies, path'[b] # None PROVE \E q \in Procs : Mover(q, b)'
      <4>1. CASE b = ask[p].body
        BY <1>1, <3>2, <4>1 DEF Mover
      <4>2. CASE b # ask[p].body
        BY <2>1, <3>1, <3>3, <4>2 DEF Exact, MovedBySomebody
      <4> QED
        BY <4>1, <4>2
    <3> QED
      BY <3>3 DEF MovedBySomebody
  <2> QED
    BY <1>1, <1>3, <2>2, <2>4, <2>5 DEF Exact, Numbered, Watched
<1> QED
  BY <1>4, <1>5 DEF Replace

\* A new run has a new number, and is the first of the invocation that asked.
LEMMA AddKeepsNumbered ==
    ASSUME Exact, NEW body \in Bodies, NEW by \in Procs \cup {None}, NEW status,
           by \in Procs => \A r \in runs : r.by # by,
           runs' = runs \cup {NewRun(body, by, status)}
    PROVE  Numbered'
<1> DEFINE run == NewRun(body, by, status)
<1>1. run.id = Cardinality(runs) + 1 /\ run.body = body /\ run.by = by
  BY DEF NewRun
<1>2. Cardinality(runs) \in Nat /\ IsFiniteSet(runs)
  BY FS_CardinalityType DEF Exact, Remembered, Typed
<1>3. run \notin runs
  <2>1. \A r \in runs : r.id <= Cardinality(runs)
    BY DEF Exact, Numbered
  <2> QED
    BY <1>1, <1>2, <2>1, SMT
<1>4. Cardinality(runs') = Cardinality(runs) + 1
  BY <1>2, <1>3, FS_AddElement
<1> HIDE DEF run
<1>5. \A r \in runs' : r.id \in 1 .. Cardinality(runs') /\ r.body \in Bodies /\ r.by \in Procs \cup {None}
  <2>1. \A r \in runs : r.id \in 1 .. Cardinality(runs')
    BY <1>2, <1>4, SMT DEF Exact, Numbered
  <2>2. run.id \in 1 .. Cardinality(runs')
    BY <1>1, <1>2, <1>4, SMT
  <2> QED
    BY <1>1, <2>1, <2>2 DEF Exact, Numbered, run
<1>6. \A a, b \in runs' : a.by = b.by /\ a.by \in Procs => a = b
  BY <1>1 DEF Exact, Numbered, run
<1> QED
  BY <1>5, <1>6 DEF Numbered

\* What holds of the files and of the other invocations when runs are added.
LEMMA MoreRuns ==
    ASSUME Exact, Remembered', Numbered', runs \subseteq runs', NEW p,
           UNCHANGED <<pc, ask, retries, got, rc, files, watch>>,
           \A q \in Procs \ {p} : wire'[q] = wire[q] /\ \A r \in runs' \ runs : r.by # q,
           p \in Procs => Holds(p)'
    PROVE  Exact'
<1>1. \A q \in Procs \ {p} : Holds(q)'
  BY DEF Exact, Holds
<1>2. OfOneBody' /\ MovedBySomebody' /\ Watched'
  BY DEF Exact, OfOneBody, Creator, RunOf, MovedBySomebody, Mover, Watched, files
<1> QED
  BY <1>1, <1>2 DEF Exact

LEMMA ServeKeepsExact ==
    ASSUME Exact, NEW p \in Procs, Serve(p)
    PROVE  Exact'
<1>1. wire[p].reply = "sent" /\ UNCHANGED <<pc, ask, retries, got, rc, files, watch>>
  BY DEF Serve, request
<1>2. /\ ask[p] \in Asks /\ ask[p].body \in Bodies /\ pc[p] \notin {"idle", "lookup", "hook", "ready"}
      /\ wire[p] \in Wires /\ \A r \in runs : r.by # p
  BY <1>1 DEF Exact, Holds, Remembered, Typed, Stands, NoWire, Asks
<1>3. Remembered'
  BY ServerKeepsRemembered DEF Exact
<1>4. ASSUME NEW reply \in {"limited", "refused"}, wire' = [wire EXCEPT ![p].reply = reply], runs' = runs
      PROVE  Exact'
  <2>1. wire'[p].reply = reply /\ \A q \in Procs \ {p} : wire'[q] = wire[q]
    BY <1>2, <1>4 DEF Exact, Remembered, Typed, Wires
  <2>2. Holds(p)'
    BY <1>1, <1>2, <1>4, <2>1 DEF Exact, Holds
  <2>3. Numbered'
    BY <1>4 DEF Exact, Numbered
  <2> QED
    BY <1>1, <1>3, <1>4, <2>1, <2>2, <2>3, MoreRuns
<1>5. ASSUME NEW reply \in {"created", "failed"}, NEW run, run = NewRun(ask[p].body, p, "success"),
             wire' = [wire EXCEPT ![p] = [reply |-> reply, run |-> run.id]], runs' = runs \cup {run}
      PROVE  Exact'
  <2>1. /\ wire'[p].reply = reply /\ wire'[p].run = run.id
        /\ \A q \in Procs \ {p} : wire'[q] = wire[q]
    BY <1>5 DEF Exact, Remembered, Typed
  <2>2. run.body = ask[p].body /\ run.by = p /\ run \in runs' /\ runs \subseteq runs'
    BY <1>5 DEF NewRun
  <2>3. Holds(p)'
    BY <1>1, <1>2, <2>1, <2>2 DEF Exact, Holds
  <2>4. Numbered'
    BY <1>2, <1>5, AddKeepsNumbered
  <2>5. \A q \in Procs \ {p} : \A r \in runs' \ runs : r.by # q
    BY <1>5, <2>2
  <2> QED
    BY <1>1, <1>3, <2>1, <2>2, <2>3, <2>4, <2>5, MoreRuns
<1> QED
  BY <1>4, <1>5 DEF Serve

LEMMA ReplayKeepsExact ==
    ASSUME Exact, ReplayElsewhere
    PROVE  Exact'
<1>1. PICK r \in runs : runs' = runs \cup {NewRun(r.body, None, "replay")}
  BY DEF ReplayElsewhere
<1>2. UNCHANGED <<pc, ask, retries, wire, got, rc, files, watch>>
  BY DEF ReplayElsewhere, request
<1>3. r.body \in Bodies /\ None \notin Procs /\ NewRun(r.body, None, "replay").by = None
  BY ClientAssumption DEF Exact, Numbered, NewRun
<1>4. Numbered'
  BY <1>1, <1>3, AddKeepsNumbered
<1>5. Remembered'
  BY ServerKeepsRemembered DEF Exact
<1>6. \A q \in Procs : \A x \in runs' \ runs : x.by # q
  BY <1>1, <1>3
<1> QED
  BY <1>1, <1>2, <1>3, <1>4, <1>5, <1>6, MoreRuns

LEMMA WatchKeepsExact ==
    ASSUME Exact, NEW w \in Watchers, StartWatch(w) \/ Poll(w) \/ Interrupt(w)
    PROVE  Exact'
<1>1. UNCHANGED <<pc, ask, retries, wire, got, rc, files, runs>>
  BY DEF StartWatch, Poll, Interrupt, request
<1>2. Remembered'
  BY <1>1 DEF Exact, Remembered, Typed, Stands, ReadableOrEmptied, files, File
<1>3. watch' = [watch EXCEPT ![w] = None] \/ \E r \in runs : watch' = [watch EXCEPT ![w] = r.id]
  BY DEF StartWatch, Poll, Interrupt
<1>4. Watched' /\ watch' = [v \in Watchers |-> watch'[v]]
  BY <1>1, <1>3 DEF Exact, Watched
<1>5. OfOneBody' /\ MovedBySomebody' /\ Numbered' /\ \A p \in Procs : Holds(p)'
  BY <1>1 DEF Exact, OfOneBody, Creator, RunOf, MovedBySomebody, Mover, Numbered, Holds, files
<1> QED
  BY <1>1, <1>2, <1>4, <1>5 DEF Exact

LEMMA StepKeepsExact == Exact /\ [Next]_vars => Exact'
<1> SUFFICES ASSUME Exact, [Next]_vars PROVE Exact'
  OBVIOUS
<1>1. CASE UNCHANGED vars
  <2>1. Remembered'
    BY StepKeepsRemembered DEF Exact
  <2> QED
    BY <1>1, <2>1 DEF vars, request, files, Exact, OfOneBody, Creator, RunOf, MovedBySomebody, Mover, Numbered,
                     Holds, Watched
<1>2. CASE Next
  BY <1>2, StartKeepsExact, LookUpKeepsExact, RequestKeepsExact, SucceedKeepsExact, OpenKeepsExact, FillKeepsExact,
     ReplaceKeepsExact, PrintKeepsExact, ServeKeepsExact, ReplayKeepsExact, WatchKeepsExact DEF Next, Invocation
<1> QED
  BY <1>1, <1>2

LEMMA InitExact == Init => Exact
<1> SUFFICES ASSUME Init PROVE Exact
  OBVIOUS
<1>1. Remembered
  BY InitRemembered
<1>2. retries \in [Procs -> 0 .. MaxRetries]
  BY ClientAssumption DEF Init
<1>3. \A p \in Procs : Holds(p)
  BY ClientAssumption DEF Init, Holds, NoWire
<1>4. Numbered /\ OfOneBody /\ MovedBySomebody /\ Watched /\ watch = [w \in Watchers |-> watch[w]]
  BY DEF Init, Numbered, OfOneBody, MovedBySomebody, Watched
<1> QED
  BY <1>1, <1>2, <1>3, <1>4 DEF Exact

LEMMA ExactIsConsistent == Exact => InvocationsAreConsistent
<1> SUFFICES ASSUME Exact PROVE InvocationsAreConsistent
  OBVIOUS
<1>1. TypeOK
  BY DEF Exact, Remembered, Typed, Numbered, Watched, TypeOK, Asks, Wires
<1>2. PrintedRunIsOfThisBody
  BY DEF Exact, Holds, PrintedRunIsOfThisBody
<1>3. ASSUME NEW p \in Procs PROVE Cardinality({r \in runs : r.by = p}) <= 1
  <2>1. CASE {r \in runs : r.by = p} = {}
    BY <2>1, FS_EmptySet
  <2>2. CASE {r \in runs : r.by = p} # {}
    <3>1. PICK r \in runs : r.by = p
      BY <2>2
    <3>2. {x \in runs : x.by = p} = {r}
      BY <3>1 DEF Exact, Numbered
    <3> QED
      BY <3>2, FS_Singleton
  <2> QED
    BY <2>1, <2>2
<1>4. UnreadableOnlyAfterRace
  <2> SUFFICES ASSUME NEW f \in Bodies, path[f] # None, content[path[f]] = None
               PROVE  \E p, q \in Procs : /\ p # q /\ fd[p] = path[f] /\ File(q) = f
                                          /\ ~ask[q].force /\ got[q] # None /\ pc[q] \in {"print", "ended"}
    BY DEF UnreadableOnlyAfterRace, Mapping
  <2>1. PICK p \in Procs : fd[p] = path[f]
    BY DEF Exact, Remembered, ReadableOrEmptied
  <2>2. PICK q \in Procs : Mover(q, f)
    BY DEF Exact, MovedBySomebody
  <2>3. p # q
    BY <2>1, <2>2 DEF Mover
  <2> QED
    BY <2>1, <2>2, <2>3 DEF Mover, File, Fingerprint
<1> QED
  BY <1>1, <1>2, <1>3, <1>4 DEF InvocationsAreConsistent, OneRunPerInvocation

\* However invocations share the state directory, repeat a post, are answered
\* late or killed: the run id one prints is of the body it was asked to execute,
\* none makes two runs, and a state file is unreadable only after a race.
THEOREM ConsistentInvocations == Spec => []InvocationsAreConsistent
BY InitExact, StepKeepsExact, ExactIsConsistent, PTL DEF Spec
=============================================================================
