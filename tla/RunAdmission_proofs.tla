------------------------ MODULE RunAdmission_proofs ------------------------
(***************************************************************************)
(* Proofs about RunAdmission, for every set of requests, profiles, limits, *)
(* number of workers and clock bound.                                      *)
(***************************************************************************)
EXTENDS RunAdmission, FiniteSetTheorems, TLAPS

\* A step that only answers a request, or only moves its handler on, keeps the types.
LEMMA AnswerType ==
    ASSUME TypeOK, NEW r \in Requests, NEW status \in Statuses, NEW q \in Requests \cup {None},
           Answer(r, status, q), UNCHANGED <<clock, started, rows, store>>
    PROVE  TypeOK'
BY DEF TypeOK, Answer, clock, rows, store, Stages

LEMMA GotoType ==
    ASSUME TypeOK, NEW r \in Requests, NEW stage \in Stages,
           Goto(r, stage), UNCHANGED <<clock, started, rows, store>>
    PROVE  TypeOK'
BY DEF TypeOK, Goto, clock, rows, store

\* Type correctness: every variable keeps the type the handlers rely on.
THEOREM TypeCorrect == Spec => []TypeOK
<1> USE RequestsAssumption
<1>1. Init => TypeOK
  BY DEF Init, TypeOK, Stages, Statuses, Refusals, Rows, NoRow, NoReply
<1>2. TypeOK /\ [Next]_vars => TypeOK'
  <2> SUFFICES ASSUME TypeOK, [Next]_vars PROVE TypeOK'
    OBVIOUS
  <2>1. ASSUME NEW r \in Requests, ReplayStored(r) PROVE TypeOK'
    <3>1. idem[Slot(r)].req \in Requests \cup {None}
      BY <2>1 DEF ReplayStored, TypeOK, Slot, Keyed, Rows, ProfileType
    <3> QED
      BY <2>1, <3>1, AnswerType DEF ReplayStored, Statuses, Refusals
  <2>2. ASSUME NEW r \in Requests, PassThrough(r) \/ CountRequest(r) \/ StartRun(r) PROVE TypeOK'
    BY <2>2, GotoType DEF PassThrough, CountRequest, StartRun, Stages
  <2>3. ASSUME NEW r \in Requests, Begin(r) PROVE TypeOK'
    BY <2>3 DEF Begin, TypeOK, Goto, clock, rows, store, Stages
  <2>4. ASSUME NEW r \in Requests,
               NotFound(r) \/ RefuseRate(r) \/ RefuseInput(r) \/ RefuseBudget(r) \/ EngineFails(r)
        PROVE TypeOK'
    BY <2>4, AnswerType DEF NotFound, RefuseRate, RefuseInput, RefuseBudget, EngineFails, Statuses, Refusals
  <2>5. ASSUME NEW r \in Requests, Commit(r) PROVE TypeOK'
    BY <2>5, LimitsAssumption DEF Commit, TypeOK, Goto, clock, store, Stages
  <2>6. ASSUME NEW r \in Requests,
               AnswerUnstored(r) \/ RenderFails(r) \/ StoreConflict(r) \/ Crash(r)
        PROVE TypeOK'
    BY <2>6, AnswerType DEF AnswerUnstored, RenderFails, StoreConflict, Crash, Statuses, Refusals
  <2>7. ASSUME NEW r \in Requests, StoreDelete(r) PROVE TypeOK'
    BY <2>7 DEF StoreDelete, TypeOK, Goto, clock, rows, Storing, Slot, Keyed, ProfileType, Stages
  <2>8. ASSUME NEW r \in Requests, StoreInsert(r) PROVE TypeOK'
    BY <2>8 DEF StoreInsert, TypeOK, Answer, clock, rows, Rows, Stages, Statuses, Refusals
  <2>9. CASE Tick
    BY <2>9, LimitsAssumption DEF Tick, TypeOK, rows, store
  <2>10. CASE UNCHANGED vars
    BY <2>10 DEF vars, TypeOK
  <2>11. CASE DeleteExpired
    BY <2>11 DEF DeleteExpired, TypeOK, NoRow, Rows, clock, rows
  <2> QED
    BY <2>1, <2>2, <2>3, <2>4, <2>5, <2>6, <2>7, <2>8, <2>9, <2>10, <2>11 DEF Next, Handle
<1> QED
  BY <1>1, <1>2, PTL DEF Spec

----------------------------------------------------------------------------
(* Commits and replies *)

\* Where a request stands decides whether its rows are visible and whether it
\* has been answered.
CommitInv ==
    /\ runs = events
    /\ \A r \in Requests :
        /\ pc[r] \in {"committed", "storing"} => r \in runs
        /\ r \in runs => pc[r] \in {"committed", "storing", "answered"}
        /\ pc[r] = "answered" <=> reply[r].status # "none"
        /\ reply[r].status \in Refusals => r \notin runs

LEMMA CommitInvInductive ==
    ASSUME TypeOK, CommitInv, [Next]_vars
    PROVE  CommitInv'
<1> USE DEF TypeOK, Answer, Goto, clock, rows, store, Refusals
<1>1. ASSUME NEW r \in Requests, ReplayStored(r) PROVE CommitInv'
  BY <1>1 DEF ReplayStored, CommitInv
<1>2. ASSUME NEW r \in Requests, PassThrough(r) \/ Begin(r) \/ CountRequest(r) \/ StartRun(r)
      PROVE CommitInv'
  BY <1>2 DEF PassThrough, Begin, CountRequest, StartRun, CommitInv
<1>3. ASSUME NEW r \in Requests, NotFound(r) \/ RefuseRate(r) \/ RefuseInput(r) \/ RefuseBudget(r)
      PROVE CommitInv'
  BY <1>3 DEF NotFound, RefuseRate, RefuseInput, RefuseBudget, CommitInv
<1>4. ASSUME NEW r \in Requests, EngineFails(r) PROVE CommitInv'
  BY <1>4 DEF EngineFails, CommitInv
<1>5. ASSUME NEW r \in Requests, Commit(r) PROVE CommitInv'
  BY <1>5 DEF Commit, CommitInv
<1>6. ASSUME NEW r \in Requests, AnswerUnstored(r) \/ RenderFails(r) \/ StoreConflict(r) \/ Crash(r)
      PROVE CommitInv'
  BY <1>6 DEF AnswerUnstored, RenderFails, StoreConflict, Crash, CommitInv
<1>7. ASSUME NEW r \in Requests, StoreDelete(r) \/ StoreInsert(r) PROVE CommitInv'
  BY <1>7 DEF StoreDelete, StoreInsert, CommitInv
<1>8. CASE Tick \/ DeleteExpired \/ UNCHANGED vars
  BY <1>8 DEF Tick, DeleteExpired, vars, CommitInv
<1> QED
  BY <1>1, <1>2, <1>3, <1>4, <1>5, <1>6, <1>7, <1>8 DEF Next, Handle

\* Event and run become visible together, and a refused request leaves neither.
THEOREM CommitsAreAtomic == Spec => []CommitIsAtomic
<1>1. Init => CommitInv
  BY DEF Init, CommitInv, NoReply, Refusals
<1>2. CommitInv => CommitIsAtomic
  BY DEF CommitInv, CommitIsAtomic
<1> QED
  BY <1>1, <1>2, TypeCorrect, CommitInvInductive, PTL DEF Spec

----------------------------------------------------------------------------
(* The idempotency store *)

\* Every row is the response of a committed run that was answered with it.
RowsInv ==
    \A s \in Tenants \X IdemKeys :
        idem[s] # NoRow =>
            /\ idem[s].req \in runs /\ Stored(idem[s].req) /\ Slot(idem[s].req) = s
            /\ idem[s].at = stamp[idem[s].req]

\* A handler about to insert has seen the row of a request answered before,
\* and as long as that row stands its own is not older.
PendingInv ==
    \A r \in Requests : pc[r] = "storing" =>
        /\ Storing(r)
        /\ seen[r] # NoRow => seen[r].req \in Requests /\ Stored(seen[r].req)
        /\ seen[r] = idem[Slot(r)] => idem[Slot(r)].at <= stamp[r]

StampInv == \A r \in Requests : stamp[r] <= now

StoreInv == RowsInv /\ PendingInv /\ StampInv /\ RepliesNameCommittedRuns /\ StoredRowIsYoungest

\* The slot of a keyed request is a row of the store.
LEMMA SlotType ==
    ASSUME NEW r \in Requests, Keyed(r)
    PROVE  Slot(r) \in Tenants \X IdemKeys
BY RequestsAssumption DEF Slot, Keyed, ProfileType

\* A step that writes neither the store nor a stored response keeps StoreInv
\* if the 201 it may answer names a committed run of the same slot.
LEMMA QuietStep ==
    ASSUME TypeOK, TypeOK', StoreInv, UNCHANGED <<idem, seen, stamp>>, now <= now', runs \subseteq runs',
           \A q \in Requests : pc'[q] = "storing" => pc[q] = "storing",
           \A q \in Requests : Stored(q)' <=> Stored(q),
           \A q \in Requests : reply'[q].status = "created" =>
                \/ reply'[q] = reply[q]
                \/ reply'[q].run \in runs' /\ (reply'[q].run = q \/ SameSlot(q, reply'[q].run))
    PROVE  StoreInv'
<1> USE DEF TypeOK, StoreInv
<1>1. RowsInv'
  BY DEF RowsInv
<1>2. PendingInv'
  BY SlotType DEF PendingInv
<1>3. StampInv'
  BY DEF StampInv
<1>4. RepliesNameCommittedRuns'
  <2>1. (\A s \in Tenants \X IdemKeys :
            idem[s] # NoRow =>
                idem[s].req \in runs /\ Storing(idem[s].req) /\ Slot(idem[s].req) = s)'
    BY <1>1 DEF RowsInv, Stored
  <2>2. (\A r \in Requests : reply[r].status = "created" =>
            reply[r].run \in runs /\ (reply[r].run = r \/ SameSlot(r, reply[r].run)))'
    BY DEF RepliesNameCommittedRuns
  <2> QED
    BY <2>1, <2>2 DEF RepliesNameCommittedRuns
<1>5. StoredRowIsYoungest'
  BY LimitsAssumption DEF StoredRowIsYoungest
<1> QED
  BY <1>1, <1>2, <1>3, <1>4, <1>5

LEMMA StoreInvInductive ==
    ASSUME TypeOK, TypeOK', CommitInv, CommitInv', StoreInv, [Next]_vars
    PROVE  StoreInv'
<1>1. ASSUME NEW r \in Requests, ReplayStored(r) PROVE StoreInv'
  <2> DEFINE q == idem[Slot(r)].req
  <2>1. q \in runs /\ Stored(q) /\ SameSlot(r, q)
    BY <1>1, SlotType DEF ReplayStored, Live, StoreInv, RowsInv, SameSlot, Slot, Stored, Storing
  <2>2. q # r
    BY <1>1, <2>1 DEF ReplayStored, Stored, CommitInv
  <2>3. \A p \in Requests : p # r => reply'[p] = reply[p] /\ pc'[p] = pc[p]
    BY <1>1 DEF ReplayStored, Answer, TypeOK
  <2>4. reply'[r] = [status |-> "created", run |-> q] /\ pc'[r] = "answered"
    BY <1>1 DEF ReplayStored, Answer, TypeOK
  <2>5. ~Stored(r) /\ ~Stored(r)'
    BY <1>1, <2>2, <2>4 DEF ReplayStored, Stored, CommitInv
  <2> QED
    BY <1>1, <2>1, <2>3, <2>4, <2>5, QuietStep DEF ReplayStored, Stored, clock, rows, store, TypeOK
<1>2. ASSUME NEW r \in Requests, PassThrough(r) \/ Begin(r) \/ CountRequest(r) \/ StartRun(r)
      PROVE StoreInv'
  BY <1>2, QuietStep DEF PassThrough, Begin, CountRequest, StartRun, Goto, Stored, clock, rows, store, TypeOK
<1>3. ASSUME NEW r \in Requests, NEW status \in Statuses, status # "created",
             Answer(r, status, None), pc[r] # "answered", UNCHANGED <<clock, started, rows, store>>
      PROVE StoreInv'
  <2>1. \A p \in Requests : p # r => reply'[p] = reply[p] /\ pc'[p] = pc[p]
    BY <1>3 DEF Answer, TypeOK
  <2>2. reply'[r].status # "created" /\ pc'[r] = "answered" /\ reply[r].status # "created"
    BY <1>3 DEF Answer, TypeOK, CommitInv
  <2> QED
    BY <1>3, <2>1, <2>2, QuietStep DEF Stored, clock, rows, store, TypeOK
<1>4. ASSUME NEW r \in Requests,
             \/ NotFound(r) \/ RefuseRate(r) \/ RefuseInput(r) \/ RefuseBudget(r)
             \/ EngineFails(r) \/ RenderFails(r) \/ StoreConflict(r) \/ Crash(r)
      PROVE StoreInv'
  BY <1>3, <1>4
  DEF NotFound, RefuseRate, RefuseInput, RefuseBudget, EngineFails, RenderFails, StoreConflict,
      Crash, Statuses, Refusals
<1>5. ASSUME NEW r \in Requests, Commit(r) PROVE StoreInv'
  BY <1>5, QuietStep DEF Commit, Goto, Stored, clock, store, TypeOK
<1>6. ASSUME NEW r \in Requests, AnswerUnstored(r) PROVE StoreInv'
  <2>1. \A p \in Requests : p # r => reply'[p] = reply[p] /\ pc'[p] = pc[p]
    BY <1>6 DEF AnswerUnstored, Answer, TypeOK
  <2>2. /\ reply'[r] = [status |-> "created", run |-> r] /\ pc'[r] = "answered"
        /\ r \in runs /\ ~Storing(r)
    BY <1>6 DEF AnswerUnstored, Answer, TypeOK, CommitInv
  <2> QED
    BY <1>6, <2>1, <2>2, QuietStep DEF AnswerUnstored, Stored, clock, rows, store, TypeOK
<1>7. ASSUME NEW r \in Requests, StoreDelete(r) PROVE StoreInv'
  <2> USE <1>7 DEF StoreDelete, Goto, clock, rows, TypeOK
  <2>1. Slot(r) \in Tenants \X IdemKeys /\ Storing(r) /\ ~Stored(r)
    BY SlotType DEF Storing, Stored, CommitInv
  <2>2. seen'[r] = idem[Slot(r)] /\ stamp'[r] = now /\ idem' = idem
    OBVIOUS
  <2>3. \A p \in Requests : p # r => seen'[p] = seen[p] /\ stamp'[p] = stamp[p] /\ pc'[p] = pc[p]
    OBVIOUS
  <2>4. \A p : Stored(p)' <=> Stored(p)
    BY DEF Stored
  <2>5. RowsInv'
    BY <2>1, <2>3, <2>4 DEF StoreInv, RowsInv
  <2>6. idem[Slot(r)].at <= now
    BY <2>1, RequestsAssumption DEF StoreInv, RowsInv, StampInv, NoRow
  <2>7. PendingInv'
    <3> SUFFICES ASSUME NEW p \in Requests, pc'[p] = "storing"
                 PROVE  /\ Storing(p)
                        /\ seen'[p] # NoRow => seen'[p].req \in Requests /\ Stored(seen[p].req)'
                        /\ seen'[p] = idem'[Slot(p)] => idem'[Slot(p)].at <= stamp'[p]
      BY DEF PendingInv
    <3>1. CASE p = r
      BY <3>1, <2>1, <2>2, <2>4, <2>6 DEF StoreInv, RowsInv
    <3>2. CASE p # r
      BY <3>2, <2>2, <2>3, <2>4 DEF StoreInv, PendingInv
    <3> QED
      BY <3>1, <3>2
  <2>8. StampInv'
    BY DEF StoreInv, StampInv
  <2>9. RepliesNameCommittedRuns'
    BY DEF StoreInv, RepliesNameCommittedRuns
  <2>10. StoredRowIsYoungest'
    BY <2>1, <2>2, <2>3, <2>4 DEF StoreInv, StoredRowIsYoungest
  <2> QED
    BY <2>5, <2>7, <2>8, <2>9, <2>10 DEF StoreInv
<1>8. ASSUME NEW r \in Requests, StoreInsert(r) PROVE StoreInv'
  <2> USE <1>8 DEF StoreInsert, Answer, clock, rows, TypeOK
  <2>1. Storing(r) /\ Slot(r) \in Tenants \X IdemKeys /\ r \in runs /\ ~Stored(r)
    BY SlotType DEF StoreInv, PendingInv, Storing, Stored, CommitInv
  <2>2. idem'[Slot(r)] = [req |-> r, at |-> stamp[r]] /\ idem'[Slot(r)] # NoRow
    BY <2>1, RequestsAssumption DEF NoRow
  <2>3. \A s \in Tenants \X IdemKeys : s # Slot(r) => idem'[s] = idem[s]
    OBVIOUS
  <2>4. \A p \in Requests : p # r => reply'[p] = reply[p] /\ pc'[p] = pc[p]
    OBVIOUS
  <2>5. reply'[r] = [status |-> "created", run |-> r] /\ pc'[r] = "answered" /\ Stored(r)'
    BY <2>1 DEF Stored
  <2>6. \A p \in Requests : p # r => (Stored(p)' <=> Stored(p))
    BY <2>4 DEF Stored
  <2>7. RowsInv'
    <3> SUFFICES ASSUME NEW s \in Tenants \X IdemKeys, idem'[s] # NoRow
                 PROVE  /\ idem'[s].req \in runs' /\ Stored(idem[s].req)' /\ Slot(idem'[s].req) = s
                        /\ idem'[s].at = stamp'[idem'[s].req]
      BY DEF RowsInv
    <3>1. CASE s = Slot(r)
      BY <3>1, <2>1, <2>2, <2>5
    <3>2. CASE s # Slot(r)
      BY <3>2, <2>1, <2>3, <2>6 DEF StoreInv, RowsInv
    <3> QED
      BY <3>1, <3>2
  <2>8. PendingInv'
    <3> SUFFICES ASSUME NEW p \in Requests, pc'[p] = "storing"
                 PROVE  /\ Storing(p)
                        /\ seen'[p] # NoRow => seen'[p].req \in Requests /\ Stored(seen[p].req)'
                        /\ seen'[p] = idem'[Slot(p)] => idem'[Slot(p)].at <= stamp'[p]
      BY DEF PendingInv
    <3>1. p # r /\ pc[p] = "storing" /\ seen'[p] = seen[p] /\ stamp'[p] = stamp[p]
      BY <2>4, <2>5
    <3>2. /\ Storing(p)
          /\ seen[p] # NoRow => seen[p].req \in Requests /\ Stored(seen[p].req)
          /\ seen[p] = idem[Slot(p)] => idem[Slot(p)].at <= stamp[p]
      BY <3>1 DEF StoreInv, PendingInv
    <3>3. seen[p] # idem'[Slot(r)]
      BY <3>2, <2>1, <2>2
    <3>4. Slot(p) # Slot(r) => idem'[Slot(p)] = idem[Slot(p)]
      BY <3>2, SlotType, <2>3 DEF Storing
    <3> QED
      BY <3>1, <3>2, <3>3, <3>4, <2>1, <2>6
  <2>9. StampInv'
    BY DEF StoreInv, StampInv
  <2>10. RepliesNameCommittedRuns'
    <3>1. (\A s \in Tenants \X IdemKeys :
              idem[s] # NoRow =>
                  idem[s].req \in runs /\ Storing(idem[s].req) /\ Slot(idem[s].req) = s)'
      BY <2>7 DEF RowsInv, Stored
    <3>2. (\A q \in Requests : reply[q].status = "created" =>
              reply[q].run \in runs /\ (reply[q].run = q \/ SameSlot(q, reply[q].run)))'
      BY <2>1, <2>4, <2>5 DEF StoreInv, RepliesNameCommittedRuns
    <3> QED
      BY <3>1, <3>2 DEF RepliesNameCommittedRuns
  <2>11. StoredRowIsYoungest'
    <3> SUFFICES ASSUME NEW q \in Requests, Stored(q)', now <= stamp'[q] + KeyTTL
                 PROVE  idem'[Slot(q)] # NoRow /\ stamp'[q] <= idem'[Slot(q)].at
      BY DEF StoredRowIsYoungest
    <3>1. Slot(q) \in Tenants \X IdemKeys
      BY SlotType DEF Stored, Storing
    <3>2. CASE q = r
      BY <3>2, <2>2
    <3>3. CASE q # r /\ Slot(q) = Slot(r)
      <4>1. idem[Slot(r)] # NoRow /\ stamp[q] <= idem[Slot(r)].at
        BY <3>3, <2>6 DEF StoreInv, StoredRowIsYoungest
      <4>2. idem[Slot(r)].at <= stamp[r]
        BY DEF StoreInv, PendingInv
      <4>3. idem[Slot(r)].at \in Nat /\ stamp[q] \in Nat /\ stamp[r] \in Nat
        BY <2>1 DEF Rows
      <4> QED
        BY <4>1, <4>2, <4>3, <3>3, <2>2
    <3>4. CASE q # r /\ Slot(q) # Slot(r)
      BY <3>4, <3>1, <2>3, <2>6 DEF StoreInv, StoredRowIsYoungest
    <3> QED
      BY <3>2, <3>3, <3>4
  <2> QED
    BY <2>7, <2>8, <2>9, <2>10, <2>11 DEF StoreInv
<1>9. CASE Tick
  BY <1>9, QuietStep DEF Tick, Stored, rows, store, TypeOK
<1>10. CASE UNCHANGED vars
  BY <1>10, QuietStep DEF vars, Stored, TypeOK
<1>11. CASE DeleteExpired
  <2> USE <1>11 DEF DeleteExpired, clock, rows, TypeOK
  <2>1. \A p : Stored(p)' <=> Stored(p)
    BY DEF Stored
  <2>2. \A s \in Tenants \X IdemKeys : idem'[s] = idem[s] \/ (idem'[s] = NoRow /\ Expired(s))
    OBVIOUS
  <2>3. RowsInv'
    BY <2>1, <2>2 DEF StoreInv, RowsInv
  <2>4. PendingInv'
    BY <2>1, <2>2, SlotType DEF StoreInv, PendingInv, NoRow, Storing
  <2>5. StampInv'
    BY DEF StoreInv, StampInv
  <2>6. RepliesNameCommittedRuns'
    BY <2>2 DEF StoreInv, RepliesNameCommittedRuns
  <2>7. StoredRowIsYoungest'
    <3> SUFFICES ASSUME NEW q \in Requests, Stored(q), now <= stamp[q] + KeyTTL
                 PROVE  idem'[Slot(q)] # NoRow /\ stamp[q] <= idem'[Slot(q)].at
      BY <2>1 DEF StoredRowIsYoungest
    <3>1. Slot(q) \in Tenants \X IdemKeys
      BY SlotType DEF Stored, Storing
    <3>2. idem[Slot(q)] # NoRow /\ stamp[q] <= idem[Slot(q)].at
      BY DEF StoreInv, StoredRowIsYoungest
    <3>3. idem[Slot(q)].at \in Nat /\ stamp[q] \in Nat /\ now \in Nat /\ KeyTTL \in Nat
      BY <3>1, LimitsAssumption DEF Rows
    <3>4. ~Expired(Slot(q))
      BY <3>2, <3>3 DEF Expired, Live
    <3> QED
      BY <2>2, <3>1, <3>2, <3>4
  <2> QED
    BY <2>3, <2>4, <2>5, <2>6, <2>7 DEF StoreInv
<1> QED
  BY <1>1, <1>2, <1>4, <1>5, <1>6, <1>7, <1>8, <1>9, <1>10, <1>11 DEF Next, Handle

AdmissionInv == TypeOK /\ CommitInv /\ StoreInv

LEMMA InitInv == Init => AdmissionInv
<1> SUFFICES ASSUME Init PROVE AdmissionInv
  OBVIOUS
<1>1. TypeOK
  BY RequestsAssumption DEF Init, TypeOK, Stages, Statuses, Refusals, Rows, NoRow, NoReply
<1>2. CommitInv
  BY DEF Init, CommitInv, NoReply, Refusals
<1>3. StoreInv
  BY RequestsAssumption
  DEF Init, StoreInv, RowsInv, PendingInv, StampInv, RepliesNameCommittedRuns, StoredRowIsYoungest,
      Stored, NoReply
<1> QED
  BY <1>1, <1>2, <1>3 DEF AdmissionInv

LEMMA AdmissionInvariant == Spec => []AdmissionInv
<1>1. AdmissionInv /\ TypeOK' /\ [Next]_vars => AdmissionInv'
  <2> SUFFICES ASSUME AdmissionInv, TypeOK', [Next]_vars PROVE AdmissionInv'
    OBVIOUS
  <2>1. CommitInv'
    BY CommitInvInductive DEF AdmissionInv
  <2> QED
    BY <2>1, StoreInvInductive DEF AdmissionInv
<1> QED
  BY <1>1, InitInv, TypeCorrect, PTL DEF Spec

\* Every stored response and every 201 names a committed run of the same
\* tenant and key.
THEOREM RepliesCommitted == Spec => []RepliesNameCommittedRuns
<1>1. AdmissionInv => RepliesNameCommittedRuns
  BY DEF AdmissionInv, StoreInv
<1> QED
  BY <1>1, AdmissionInvariant, PTL

\* The row of a key is never older than a response that was stored under it.
THEOREM YoungestRow == Spec => []StoredRowIsYoungest
<1>1. AdmissionInv => StoredRowIsYoungest
  BY DEF AdmissionInv, StoreInv
<1> QED
  BY <1>1, AdmissionInvariant, PTL

\* No request is handled while a response stored under its key is alive.
THEOREM NeverReexecuted == Spec => StoredPostNeverReexecuted
<1>1. ASSUME AdmissionInv, NEW r \in Requests, NEW q \in Requests,
             PassThrough(r), SameSlot(q, r), Stored(q)
      PROVE  now > stamp[q] + KeyTTL
  <2>1. now <= stamp[q] + KeyTTL => idem[Slot(q)] # NoRow /\ stamp[q] <= idem[Slot(q)].at
    BY <1>1 DEF AdmissionInv, StoreInv, StoredRowIsYoungest
  <2>2. ~Live(idem[Slot(q)])
    BY <1>1 DEF Slot, PassThrough, SameSlot
  <2>3. Slot(q) \in Tenants \X IdemKeys
    BY <1>1, SlotType DEF SameSlot
  <2>4. idem[Slot(q)].at \in Nat /\ stamp[q] \in Nat /\ now \in Nat /\ KeyTTL \in Nat
    BY <1>1, <2>3, LimitsAssumption DEF AdmissionInv, TypeOK, Rows
  <2> QED
    BY <2>1, <2>2, <2>4 DEF Live
<1>2. AdmissionInv /\ [Next]_vars =>
        [\A r, q \in Requests :
            (PassThrough(r) /\ SameSlot(q, r) /\ Stored(q)) => now > stamp[q] + KeyTTL]_vars
  BY <1>1
<1> QED
  BY <1>2, AdmissionInvariant, PTL DEF Spec, StoredPostNeverReexecuted

----------------------------------------------------------------------------
(* The limits *)

\* No clock runs backwards, and the pool has no more handlers than workers.
PoolInv ==
    /\ dayStart <= now
    /\ Cardinality(InHandler) <= Workers

\* Everything a limit is about: what its check counts, and what has passed the
\* check and is not counted yet.
RateLoad(rule) == EventsInWindow(rule) \cup RateAdmitted(rule)
BudgetLoad(s) == RunsToday(s) \cup BudgetAdmitted(s)

\* A set of requests is finite, and no larger than one that contains it.
LEMMA Smaller ==
    ASSUME NEW A \in SUBSET Requests, NEW B \in SUBSET A
    PROVE  /\ IsFiniteSet(A) /\ Cardinality(A) \in Nat
           /\ IsFiniteSet(B) /\ Cardinality(B) \in Nat
           /\ Cardinality(B) <= Cardinality(A)
<1>1. IsFiniteSet(A)
  BY RequestsAssumption, FS_Subset
<1>2. IsFiniteSet(B) /\ Cardinality(B) <= Cardinality(A)
  BY <1>1, FS_Subset
<1> QED
  BY <1>1, <1>2, FS_CardinalityType

\* A count below the limit and no more admitted requests than workers.
LEMMA Overshoot ==
    ASSUME NEW counted \in SUBSET Requests, NEW admitted \in SUBSET Requests, NEW cap \in Nat,
           Cardinality(counted) < cap, Cardinality(admitted) <= Workers
    PROVE  Cardinality(counted \cup admitted) <= cap + Workers - 1
<1>1. /\ IsFiniteSet(counted) /\ Cardinality(counted) \in Nat
      /\ IsFiniteSet(admitted) /\ Cardinality(admitted) \in Nat
  BY Smaller
<1>2. IsFiniteSet(counted \cap admitted) /\ Cardinality(counted \cap admitted) \in Nat
  BY Smaller
<1>3. Cardinality(counted \cup admitted)
        = Cardinality(counted) + Cardinality(admitted) - Cardinality(counted \cap admitted)
  BY <1>1, FS_Union
<1> QED
  BY <1>1, <1>2, <1>3, LimitsAssumption

LEMMA PoolInvInductive ==
    ASSUME TypeOK, PoolInv, [Next]_vars
    PROVE  PoolInv'
<1> USE DEF clock
<1>1. ASSUME NEW r \in Requests, Begin(r) PROVE PoolInv'
  <2>1. IsFiniteSet(InHandler) /\ Cardinality(InHandler) \in Nat
    BY Smaller DEF InHandler
  <2>2. InHandler' \subseteq InHandler \cup {r}
    BY <1>1 DEF Begin, Goto, InHandler, TypeOK
  <2>3. /\ IsFiniteSet(InHandler \cup {r})
        /\ Cardinality(InHandler \cup {r}) <= Cardinality(InHandler) + 1
    BY <2>1, FS_AddElement
  <2>4. Cardinality(InHandler \cup {r}) <= Workers
    BY <1>1, <2>1, <2>3, FS_CardinalityType, LimitsAssumption DEF Begin
  <2>5. Cardinality(InHandler') <= Workers
    BY <2>2, <2>3, <2>4, FS_Subset, FS_CardinalityType, LimitsAssumption
  <2> QED
    BY <1>1, <2>5 DEF PoolInv, Begin
<1>2. ASSUME InHandler' \subseteq InHandler, dayStart' <= now' PROVE PoolInv'
  <2>1. Cardinality(InHandler') <= Cardinality(InHandler) /\ Cardinality(InHandler) \in Nat
        /\ Cardinality(InHandler') \in Nat
    BY <1>2, Smaller DEF InHandler
  <2> QED
    BY <1>2, <2>1, LimitsAssumption DEF PoolInv
<1>3. CASE Tick \/ DeleteExpired \/ UNCHANGED vars
  BY <1>2, <1>3 DEF Tick, DeleteExpired, vars, InHandler, PoolInv, TypeOK
<1>4. ASSUME NEW r \in Requests, Handle(r) \/ Crash(r), ~Begin(r)
      PROVE InHandler' \subseteq InHandler /\ dayStart' <= now'
  <2> USE DEF Answer, Goto, InHandler, PoolInv, TypeOK
  <2>1. CASE ReplayStored(r) \/ PassThrough(r)
    BY <2>1 DEF ReplayStored, PassThrough
  <2>2. CASE NotFound(r) \/ RefuseRate(r) \/ CountRequest(r) \/ RefuseInput(r) \/ RefuseBudget(r)
    BY <2>2 DEF NotFound, RefuseRate, CountRequest, RefuseInput, RefuseBudget
  <2>3. CASE StartRun(r) \/ EngineFails(r) \/ Commit(r)
    BY <2>3 DEF StartRun, EngineFails, Commit
  <2>4. CASE AnswerUnstored(r) \/ RenderFails(r) \/ Crash(r)
    BY <2>4 DEF AnswerUnstored, RenderFails, Crash
  <2>5. CASE StoreDelete(r) \/ StoreInsert(r) \/ StoreConflict(r)
    BY <2>5 DEF StoreDelete, StoreInsert, StoreConflict
  <2> QED
    BY <1>4, <2>1, <2>2, <2>3, <2>4, <2>5 DEF Handle
<1> QED
  BY <1>1, <1>2, <1>3, <1>4 DEF Next

\* Only the rate check adds to the load of a rule.
LEMMA RateLoadShrinks ==
    ASSUME AdmissionInv, PoolInv, [Next]_vars, NEW rule \in RateRules,
           ~ \E r \in Requests : CountRequest(r)
    PROVE  RateLoad(rule)' \subseteq RateLoad(rule)
<1> USE DEF clock, rows, AdmissionInv, TypeOK, CommitInv, RateLoad, EventsInWindow, RateAdmitted
<1>1. rule.window \in Nat
  BY LimitsAssumption
<1>2. CASE Tick \/ DeleteExpired \/ UNCHANGED vars
  BY <1>1, <1>2 DEF Tick, DeleteExpired, vars
<1>3. ASSUME NEW r \in Requests, Handle(r) \/ Crash(r)
      PROVE RateLoad(rule)' \subseteq RateLoad(rule)
  <2> USE DEF Answer, Goto
  <2>1. CASE ReplayStored(r) \/ PassThrough(r) \/ Begin(r)
    BY <2>1 DEF ReplayStored, PassThrough, Begin
  <2>2. CASE NotFound(r) \/ RefuseRate(r) \/ RefuseInput(r) \/ RefuseBudget(r)
    BY <2>2 DEF NotFound, RefuseRate, RefuseInput, RefuseBudget
  <2>3. CASE StartRun(r) \/ EngineFails(r)
    BY <2>3 DEF StartRun, EngineFails
  <2>4. CASE Commit(r)
    BY <2>4 DEF Commit
  <2>5. CASE AnswerUnstored(r) \/ RenderFails(r) \/ Crash(r)
    BY <2>5 DEF AnswerUnstored, RenderFails, Crash
  <2>6. CASE StoreDelete(r) \/ StoreInsert(r) \/ StoreConflict(r)
    BY <2>6 DEF StoreDelete, StoreInsert, StoreConflict
  <2> QED
    BY <1>3, <2>1, <2>2, <2>3, <2>4, <2>5, <2>6 DEF Handle
<1> QED
  BY <1>2, <1>3 DEF Next

\* Only the budget check adds to the load of a budget scope.
LEMMA BudgetLoadShrinks ==
    ASSUME AdmissionInv, PoolInv, [Next]_vars, NEW s \in BudgetScopes,
           ~ \E r \in Requests : StartRun(r)
    PROVE  BudgetLoad(s)' \subseteq BudgetLoad(s)
<1> USE DEF clock, rows, AdmissionInv, TypeOK, CommitInv, BudgetLoad, RunsToday, BudgetAdmitted
<1>1. CASE Tick \/ DeleteExpired \/ UNCHANGED vars
  BY <1>1 DEF Tick, DeleteExpired, vars, PoolInv
<1>2. ASSUME NEW r \in Requests, Handle(r) \/ Crash(r)
      PROVE BudgetLoad(s)' \subseteq BudgetLoad(s)
  <2> USE DEF Answer, Goto
  <2>1. CASE ReplayStored(r) \/ PassThrough(r) \/ Begin(r)
    BY <2>1 DEF ReplayStored, PassThrough, Begin
  <2>2. CASE NotFound(r) \/ RefuseRate(r) \/ CountRequest(r) \/ RefuseInput(r) \/ RefuseBudget(r)
    BY <2>2 DEF NotFound, RefuseRate, CountRequest, RefuseInput, RefuseBudget
  <2>3. CASE EngineFails(r)
    BY <2>3 DEF EngineFails
  <2>4. CASE Commit(r)
    BY <2>4 DEF Commit
  <2>5. CASE AnswerUnstored(r) \/ RenderFails(r) \/ Crash(r)
    BY <2>5 DEF AnswerUnstored, RenderFails, Crash
  <2>6. CASE StoreDelete(r) \/ StoreInsert(r) \/ StoreConflict(r)
    BY <2>6 DEF StoreDelete, StoreInsert, StoreConflict
  <2> QED
    BY <1>2, <2>1, <2>2, <2>3, <2>4, <2>5, <2>6 DEF Handle
<1> QED
  BY <1>1, <1>2 DEF Next

LEMMA RateBoundInductive ==
    ASSUME AdmissionInv, PoolInv, PoolInv', RateOvershootBounded, [Next]_vars
    PROVE  RateOvershootBounded'
<1> SUFFICES ASSUME NEW rule \in RateRules
             PROVE  Cardinality(RateLoad(rule)') <= rule.cap + Workers - 1
  BY DEF RateOvershootBounded, RateLoad
<1>1. rule.cap \in Nat /\ Workers \in Nat
  BY LimitsAssumption
<1>2. CASE ~ \E r \in Requests : CountRequest(r)
  <2>1. RateLoad(rule)' \subseteq RateLoad(rule) /\ RateLoad(rule) \subseteq Requests
    BY <1>2, RateLoadShrinks DEF RateLoad, EventsInWindow, RateAdmitted, AdmissionInv, TypeOK
  <2>2. /\ Cardinality(RateLoad(rule)') <= Cardinality(RateLoad(rule))
        /\ Cardinality(RateLoad(rule)) \in Nat /\ Cardinality(RateLoad(rule)') \in Nat
    BY <2>1, Smaller
  <2>3. Cardinality(RateLoad(rule)) <= rule.cap + Workers - 1
    BY DEF RateOvershootBounded, RateLoad
  <2> QED
    BY <1>1, <2>2, <2>3
<1>3. ASSUME NEW r \in Requests, CountRequest(r)
      PROVE  Cardinality(RateLoad(rule)') <= rule.cap + Workers - 1
  <2> USE DEF AdmissionInv, TypeOK
  <2>1. /\ EventsInWindow(rule)' = EventsInWindow(rule)
        /\ EventsInWindow(rule) \subseteq Requests
    BY <1>3 DEF CountRequest, EventsInWindow, clock, rows
  <2>2. CASE rule.scope \notin Profile[r].rate
    <3>1. RateAdmitted(rule)' = RateAdmitted(rule)
      BY <1>3, <2>2 DEF CountRequest, Goto, RateAdmitted
    <3> QED
      BY <2>1, <3>1 DEF RateLoad, RateOvershootBounded
  <2>3. CASE rule.scope \in Profile[r].rate
    <3>1. Cardinality(EventsInWindow(rule)) < rule.cap
      <4>1. Cardinality(EventsInWindow(rule)) \in Nat
        BY <2>1, Smaller
      <4> QED
        BY <1>1, <1>3, <2>3, <4>1 DEF CountRequest, RateLimited
    <3>2. RateAdmitted(rule)' \subseteq InHandler' /\ InHandler' \subseteq Requests
      BY DEF RateAdmitted, InHandler
    <3>3. Cardinality(RateAdmitted(rule)') <= Workers
      BY <1>1, <3>2, Smaller DEF PoolInv
    <3> QED
      BY <1>1, <2>1, <3>1, <3>2, <3>3, Overshoot DEF RateLoad
  <2> QED
    BY <2>2, <2>3
<1> QED
  BY <1>2, <1>3

LEMMA BudgetBoundInductive ==
    ASSUME AdmissionInv, PoolInv, PoolInv', RunBudgetOvershootBounded, [Next]_vars
    PROVE  RunBudgetOvershootBounded'
<1> SUFFICES ASSUME NEW s \in BudgetScopes, RunCap[s] # NoLimit
             PROVE  Cardinality(BudgetLoad(s)') <= RunCap[s] + Workers - 1
  BY DEF RunBudgetOvershootBounded, BudgetLoad
<1>1. RunCap[s] \in Nat /\ Workers \in Nat
  BY LimitsAssumption
<1>2. CASE ~ \E r \in Requests : StartRun(r)
  <2>1. BudgetLoad(s)' \subseteq BudgetLoad(s) /\ BudgetLoad(s) \subseteq Requests
    BY <1>2, BudgetLoadShrinks DEF BudgetLoad, RunsToday, BudgetAdmitted, AdmissionInv, TypeOK
  <2>2. /\ Cardinality(BudgetLoad(s)') <= Cardinality(BudgetLoad(s))
        /\ Cardinality(BudgetLoad(s)) \in Nat /\ Cardinality(BudgetLoad(s)') \in Nat
    BY <2>1, Smaller
  <2>3. Cardinality(BudgetLoad(s)) <= RunCap[s] + Workers - 1
    BY DEF RunBudgetOvershootBounded, BudgetLoad
  <2> QED
    BY <1>1, <2>2, <2>3
<1>3. ASSUME NEW r \in Requests, StartRun(r)
      PROVE  Cardinality(BudgetLoad(s)') <= RunCap[s] + Workers - 1
  <2> USE DEF AdmissionInv, TypeOK
  <2>1. RunsToday(s)' = RunsToday(s) /\ RunsToday(s) \subseteq Requests
    BY <1>3 DEF StartRun, RunsToday, clock, rows
  <2>2. CASE s \notin Profile[r].budget
    <3>1. BudgetAdmitted(s)' = BudgetAdmitted(s)
      BY <1>3, <2>2 DEF StartRun, Goto, BudgetAdmitted
    <3> QED
      BY <2>1, <3>1 DEF BudgetLoad, RunBudgetOvershootBounded
  <2>3. CASE s \in Profile[r].budget
    <3>1. Cardinality(RunsToday(s)) < RunCap[s]
      <4>1. Cardinality(RunsToday(s)) \in Nat
        BY <2>1, Smaller
      <4>2. ~(Cardinality(RunsToday(s)) + 1 > RunCap[s])
        BY <1>3, <2>3 DEF StartRun, OverBudget, OverRuns
      <4> QED
        BY <1>1, <4>1, <4>2
    <3>2. BudgetAdmitted(s)' \subseteq InHandler' /\ InHandler' \subseteq Requests
      BY DEF BudgetAdmitted, InHandler
    <3>3. Cardinality(BudgetAdmitted(s)') <= Workers
      BY <1>1, <3>2, Smaller DEF PoolInv
    <3> QED
      BY <1>1, <2>1, <3>1, <3>2, <3>3, Overshoot DEF BudgetLoad
  <2> QED
    BY <2>2, <2>3
<1> QED
  BY <1>2, <1>3

LEMMA InitPool == Init => PoolInv /\ RateOvershootBounded /\ RunBudgetOvershootBounded
<1> SUFFICES ASSUME Init PROVE PoolInv /\ RateOvershootBounded /\ RunBudgetOvershootBounded
  OBVIOUS
<1>1. Cardinality(InHandler) = 0
  BY FS_EmptySet DEF Init, InHandler
<1>2. ASSUME NEW rule \in RateRules
      PROVE  Cardinality(EventsInWindow(rule) \cup RateAdmitted(rule)) = 0
  BY FS_EmptySet DEF Init, EventsInWindow, RateAdmitted
<1>3. ASSUME NEW s \in BudgetScopes
      PROVE  Cardinality(RunsToday(s) \cup BudgetAdmitted(s)) = 0
  BY FS_EmptySet DEF Init, RunsToday, BudgetAdmitted
<1>4. Workers \in Nat \ {0} /\ PoolInv
  BY <1>1, LimitsAssumption DEF Init, PoolInv
<1>5. RateOvershootBounded
  <2>1. \A rule \in RateRules : rule.cap \in Nat
    BY LimitsAssumption
  <2> QED
    BY <1>2, <1>4, <2>1 DEF RateOvershootBounded
<1>6. RunBudgetOvershootBounded
  <2>1. \A s \in BudgetScopes : RunCap[s] \in Nat \cup {NoLimit}
    BY LimitsAssumption
  <2> QED
    BY <1>3, <1>4, <2>1 DEF RunBudgetOvershootBounded
<1> QED
  BY <1>4, <1>5, <1>6

LEMMA PoolInvariant == Spec => []PoolInv
BY InitPool, PoolInvInductive, TypeCorrect, PTL DEF Spec

\* However the handlers interleave, a rate window holds at most one request
\* more than the limit for each further worker thread.
THEOREM RateBounded == Spec => []RateOvershootBounded
BY InitPool, PoolInvariant, AdmissionInvariant, RateBoundInductive, PTL DEF Spec

\* The same for the runs of a day in a budget scope.
THEOREM RunBudgetBounded == Spec => []RunBudgetOvershootBounded
BY InitPool, PoolInvariant, AdmissionInvariant, BudgetBoundInductive, PTL DEF Spec

----------------------------------------------------------------------------
(* RunAdmission implements RunLedger *)

\* A handler that answers r changes the meaning of r's response alone.
LEMMA MeaningOfAnswer ==
    ASSUME TypeOK, NEW r \in Requests, NEW status, NEW q, Answer(r, status, q)
    PROVE  [p \in Requests |-> Meaning(reply'[p])]
             = [[p \in Requests |-> Meaning(reply[p])] EXCEPT ![r] = Meaning([status |-> status, run |-> q])]
BY DEF TypeOK, Answer

\* Every step of the handlers is a step of the ledger, or changes nothing a
\* sender can see.
LEMMA LedgerStep ==
    ASSUME AdmissionInv, AdmissionInv', [Next]_vars
    PROVE  [Ledger!Next]_(Ledger!vars)
<1> DEFINE told == [p \in Requests |-> Meaning(reply[p])]
           toldNext == [p \in Requests |-> Meaning(reply'[p])]
<1> USE DEF Ledger!vars, Ledger!Next
<1>1. CASE UNCHANGED <<runs, reply>>
  BY <1>1
<1>2. ASSUME NEW r \in Requests, pc[r] # "answered" PROVE told[r] = Ledger!Pending
  BY <1>2 DEF AdmissionInv, CommitInv, Meaning, Refusals, Ledger!Pending
<1>3. ASSUME NEW r \in Requests, NEW status \in Refusals,
             pc[r] # "answered", Answer(r, status, None), UNCHANGED runs
      PROVE  Ledger!Refuse(r)
  <2>1. toldNext = [told EXCEPT ![r] = [kind |-> "refused"]]
    BY <1>3, MeaningOfAnswer DEF AdmissionInv, Meaning, Refusals
  <2>2. r \notin runs
    BY <1>3 DEF AdmissionInv, CommitInv, TypeOK, Answer
  <2> QED
    BY <1>2, <1>3, <2>1, <2>2 DEF Ledger!Refuse, Ledger!Refused
<1>4. ASSUME NEW r \in Requests, NEW status \in {"server_error", "lost"},
             pc[r] # "answered", Answer(r, status, None), UNCHANGED runs
      PROVE  Ledger!Fail(r)
  <2>1. toldNext = [told EXCEPT ![r] = [kind |-> "failed"]]
    BY <1>4, MeaningOfAnswer DEF AdmissionInv, Meaning, Refusals
  <2> QED
    BY <1>2, <1>4, <2>1 DEF Ledger!Fail, Ledger!Failed
<1>5. ASSUME NEW r \in Requests, NEW q \in Requests,
             pc[r] # "answered", Answer(r, "created", q), UNCHANGED runs
      PROVE  Ledger!Succeed(r, q)
  <2>1. toldNext = [told EXCEPT ![r] = [kind |-> "success", run |-> q]]
    BY <1>5, MeaningOfAnswer DEF AdmissionInv, Meaning, Refusals
  <2>2. reply'[r] = [status |-> "created", run |-> q]
    BY <1>5 DEF AdmissionInv, TypeOK, Answer
  <2>3. q \in runs /\ (q = r \/ SameSlot(r, q))
    BY <1>5, <2>2 DEF AdmissionInv, StoreInv, RepliesNameCommittedRuns
  <2> QED
    BY <1>2, <1>5, <2>1, <2>3 DEF Ledger!Succeed, Ledger!Success
<1>6. ASSUME NEW r \in Requests, Handle(r) \/ Crash(r)
      PROVE  [Ledger!Next]_(Ledger!vars)
  <2>1. CASE PassThrough(r) \/ Begin(r) \/ CountRequest(r) \/ StartRun(r) \/ StoreDelete(r)
    BY <2>1, <1>1 DEF PassThrough, Begin, CountRequest, StartRun, StoreDelete, Goto, rows
  <2>2. CASE NotFound(r) \/ RefuseRate(r) \/ RefuseInput(r) \/ RefuseBudget(r)
    BY <2>2, <1>3 DEF NotFound, RefuseRate, RefuseInput, RefuseBudget, Refusals, rows
  <2>3. CASE EngineFails(r)
    BY <2>3, <1>3, <1>4 DEF EngineFails, Refusals, rows
  <2>4. CASE RenderFails(r) \/ StoreConflict(r) \/ Crash(r)
    BY <2>4, <1>4 DEF RenderFails, StoreConflict, Crash, rows
  <2>5. CASE AnswerUnstored(r) \/ StoreInsert(r)
    BY <2>5, <1>5 DEF AnswerUnstored, StoreInsert, rows
  <2>6. CASE ReplayStored(r)
    <3>1. idem[Slot(r)].req \in Requests
      BY <2>6, SlotType DEF ReplayStored, Live, AdmissionInv, StoreInv, RowsInv, TypeOK
    <3> QED
      BY <2>6, <3>1, <1>5 DEF ReplayStored, rows
  <2>7. CASE Commit(r)
    <3>1. r \notin runs /\ pc[r] # "answered" /\ told = toldNext /\ runs' = runs \cup {r}
      BY <2>7 DEF Commit, Goto, AdmissionInv, CommitInv
    <3>2. Ledger!Execute(r)
      BY <3>1, <1>2 DEF Ledger!Execute
    <3> QED
      BY <3>2
  <2> QED
    BY <1>6, <2>1, <2>2, <2>3, <2>4, <2>5, <2>6, <2>7 DEF Handle
<1>7. CASE Tick \/ DeleteExpired \/ UNCHANGED vars
  BY <1>7, <1>1 DEF Tick, DeleteExpired, vars, rows
<1> QED
  BY <1>6, <1>7 DEF Next

\* The admission path keeps the promise RunLedger states to the senders.
THEOREM ImplementsLedger == Spec => KeepsLedger
<1>1. Init => Ledger!Init
  BY DEF Init, NoReply, Meaning, Refusals, Ledger!Init, Ledger!Pending
<1> QED
  BY <1>1, AdmissionInvariant, LedgerStep, PTL DEF Spec, KeepsLedger, Ledger!Spec

----------------------------------------------------------------------------
(* Sums *)

\* One unit for each part of each amount: what a sum counts.
Units(amount, S) == UNION {{q} \X (1 .. amount[q]) : q \in S}

LEMMA UnitsOfOne ==
    ASSUME NEW q, NEW n \in Nat
    PROVE  IsFiniteSet({q} \X (1 .. n)) /\ Cardinality({q} \X (1 .. n)) = n
<1>1. IsFiniteSet({q}) /\ Cardinality({q}) = 1
  BY FS_Singleton
<1>2. IsFiniteSet(1 .. n) /\ Cardinality(1 .. n) = n
  BY FS_Interval
<1>3. IsFiniteSet({q} \X (1 .. n)) /\ Cardinality({q} \X (1 .. n)) = 1 * n
  BY <1>1, <1>2, FS_Product
<1> QED
  BY <1>3

LEMMA UnitsAreFinite ==
    ASSUME NEW S, IsFiniteSet(S), NEW amount, \A q \in S : amount[q] \in Nat
    PROVE  IsFiniteSet(Units(amount, S))
<1> DEFINE part == [q \in S |-> {q} \X (1 .. amount[q])]
<1> DEFINE parts == {{q} \X (1 .. amount[q]) : q \in S}
<1>1. part \in Surjection(S, parts)
  BY DEF Surjection
<1>2. IsFiniteSet(parts)
  BY <1>1, FS_Surjection
<1>3. ASSUME NEW p \in parts
      PROVE  IsFiniteSet(p)
  <2>1. PICK q \in S : p = {q} \X (1 .. amount[q])
    OBVIOUS
  <2>2. amount[q] \in Nat
    OBVIOUS
  <2> QED
    BY <2>1, <2>2, UnitsOfOne
<1> QED
  BY <1>2, <1>3, FS_UNION DEF Units

LEMMA UnitsOfUnion ==
    ASSUME NEW S, IsFiniteSet(S), NEW T, IsFiniteSet(T), S \cap T = {},
           NEW amount, \A q \in S \cup T : amount[q] \in Nat
    PROVE  Cardinality(Units(amount, S \cup T)) = Cardinality(Units(amount, S)) + Cardinality(Units(amount, T))
<1>1. Units(amount, S \cup T) = Units(amount, S) \cup Units(amount, T)
  BY DEF Units
<1>2. Units(amount, S) \cap Units(amount, T) = {}
  <2>1. \A u \in Units(amount, S) : u[1] \in S
    BY DEF Units
  <2>2. \A u \in Units(amount, T) : u[1] \in T
    BY DEF Units
  <2> QED
    BY <2>1, <2>2
<1>3. IsFiniteSet(Units(amount, S)) /\ IsFiniteSet(Units(amount, T))
  BY UnitsAreFinite
<1>4. /\ Cardinality(Units(amount, S)) \in Nat /\ Cardinality(Units(amount, T)) \in Nat
      /\ Cardinality({}) = 0
  BY <1>3, FS_CardinalityType, FS_EmptySet
<1>5. Cardinality(Units(amount, S) \cup Units(amount, T))
        = Cardinality(Units(amount, S)) + Cardinality(Units(amount, T)) - Cardinality(Units(amount, S) \cap Units(amount, T))
  BY <1>3, FS_Union
<1>6. Cardinality(Units(amount, S) \cap Units(amount, T)) = 0
  BY <1>2, <1>4
<1>7. Cardinality(Units(amount, S) \cup Units(amount, T)) = Cardinality(Units(amount, S)) + Cardinality(Units(amount, T))
  BY <1>4, <1>5, <1>6
<1> QED
  BY <1>1, <1>7

\* The recursion over the set has one solution, the number of units.
LEMMA TotalCountsUnits ==
    ASSUME NEW S, IsFiniteSet(S), NEW amount, \A q \in S : amount[q] \in Nat
    PROVE  Total(amount, S) = Cardinality(Units(amount, S))
<1> DEFINE pick(s) == CHOOSE x \in s : TRUE
<1> DEFINE Body(g) == [s \in SUBSET S |-> IF s = {} THEN 0 ELSE amount[pick(s)] + g[s \ {pick(s)}]]
<1> DEFINE count == [s \in SUBSET S |-> Cardinality(Units(amount, s))]
<1> DEFINE sum == CHOOSE g : g = Body(g)
<1>1. Total(amount, S) = sum[S]
  BY DEF Total, MapThenSumSet, MapThenFoldSet
<1>2. ASSUME NEW s \in SUBSET S
      PROVE  count[s] = IF s = {} THEN 0 ELSE amount[pick(s)] + count[s \ {pick(s)}]
  <2>1. CASE s = {}
    <3>1. Units(amount, s) = {}
      BY <2>1 DEF Units
    <3> QED
      BY <2>1, <3>1, FS_EmptySet
  <2>2. CASE s # {}
    <3>1. PICK x : x = pick(s)
      OBVIOUS
    <3>2. x \in s /\ s = (s \ {x}) \cup {x} /\ (s \ {x}) \cap {x} = {} /\ s \ {x} \in SUBSET S
      BY <2>2, <3>1
    <3>3. IsFiniteSet(s \ {x}) /\ IsFiniteSet({x})
      BY <3>2, FS_Subset, FS_Singleton
    <3>4. Units(amount, {x}) = {x} \X (1 .. amount[x]) /\ amount[x] \in Nat
      BY <3>2 DEF Units
    <3>5. Cardinality(Units(amount, {x})) = amount[x]
      BY <3>4, UnitsOfOne
    <3>6. \A q \in (s \ {x}) \cup {x} : amount[q] \in Nat
      BY <3>2
    <3>7. Cardinality(Units(amount, (s \ {x}) \cup {x})) = Cardinality(Units(amount, s \ {x})) + amount[x]
      BY <3>2, <3>3, <3>5, <3>6, UnitsOfUnion
    <3>8. Cardinality(Units(amount, s \ {x})) \in Nat
      BY <3>3, <3>6, UnitsAreFinite, FS_CardinalityType
    <3>9. count[s] = Cardinality(Units(amount, s)) /\ count[s \ {x}] = Cardinality(Units(amount, s \ {x}))
      BY <3>2
    <3>10. count[s] = amount[x] + count[s \ {x}]
      BY <3>2, <3>4, <3>7, <3>8, <3>9
    <3> QED
      BY <2>2, <3>1, <3>10
  <2> QED
    BY <2>1, <2>2
<1>3. count = Body(count)
  BY <1>2
<1> HIDE DEF count
<1>4. sum = Body(sum)
  BY <1>3
<1> HIDE DEF sum
<1>5. \A s \in SUBSET S : sum[s] = IF s = {} THEN 0 ELSE amount[pick(s)] + sum[s \ {pick(s)}]
  BY <1>4
<1> DEFINE Bad == {s \in SUBSET S : sum[s] # count[s]}
<1>6. Bad = {}
  <2> SUFFICES ASSUME Bad # {}
               PROVE  FALSE
    OBVIOUS
  <2>1. Bad \subseteq FiniteSubsetsOf(S)
    BY FS_Subset DEF FiniteSubsetsOf
  <2>2. IsWellFoundedOn(StrictSubsetOrdering(S), FiniteSubsetsOf(S))
    BY FS_StrictSubsetOrderingWellFounded
  <2>3. PICK s \in Bad : \A t \in Bad : ~(<<t, s>> \in StrictSubsetOrdering(S))
    BY <2>1, <2>2, WFMin
  <2>4. s \in SUBSET S /\ s # {}
    BY <1>2, <1>5
  <2>5. PICK x : x = pick(s)
    OBVIOUS
  <2>6. x \in s
    BY <2>4, <2>5
  <2>7. s \ {x} \in SUBSET S /\ <<s \ {x}, s>> \in StrictSubsetOrdering(S)
    BY <2>4, <2>6 DEF StrictSubsetOrdering
  <2>8. sum[s \ {x}] = count[s \ {x}]
    BY <2>3, <2>7
  <2>9. count[s] = amount[x] + count[s \ {x}]
    BY <1>2, <2>4, <2>5
  <2>10. sum[s] = amount[x] + sum[s \ {x}]
    BY <1>5, <2>4, <2>5
  <2> QED
    BY <2>8, <2>9, <2>10
<1> QED
  BY <1>1, <1>6 DEF count

LEMMA TotalIsNatural ==
    ASSUME NEW S, IsFiniteSet(S), NEW amount, \A q \in S : amount[q] \in Nat
    PROVE  Total(amount, S) \in Nat
BY TotalCountsUnits, UnitsAreFinite, FS_CardinalityType

\* A part of a set has no more than the set.
LEMMA TotalGrows ==
    ASSUME NEW S, IsFiniteSet(S), NEW T \in SUBSET S, NEW amount, \A q \in S : amount[q] \in Nat
    PROVE  Total(amount, T) <= Total(amount, S)
<1>1. IsFiniteSet(T) /\ \A q \in T : amount[q] \in Nat
  BY FS_Subset
<1>2. Units(amount, T) \in SUBSET Units(amount, S) /\ IsFiniteSet(Units(amount, S))
  BY UnitsAreFinite DEF Units
<1>3. Cardinality(Units(amount, T)) <= Cardinality(Units(amount, S))
  BY <1>2, FS_Subset
<1> QED
  BY <1>1, <1>3, TotalCountsUnits

LEMMA TotalOfUnion ==
    ASSUME NEW S, IsFiniteSet(S), NEW T, IsFiniteSet(T), S \cap T = {},
           NEW amount, \A q \in S \cup T : amount[q] \in Nat
    PROVE  Total(amount, S \cup T) = Total(amount, S) + Total(amount, T)
<1>1. IsFiniteSet(S \cup T)
  BY FS_Union
<1>2. Total(amount, S \cup T) = Cardinality(Units(amount, S \cup T))
  BY <1>1, TotalCountsUnits
<1>3. Total(amount, S) = Cardinality(Units(amount, S)) /\ Total(amount, T) = Cardinality(Units(amount, T))
  BY TotalCountsUnits
<1> QED
  BY <1>2, <1>3, UnitsOfUnion

LEMMA TotalOfOne ==
    ASSUME NEW q, NEW amount, amount[q] \in Nat
    PROVE  Total(amount, {q}) = amount[q]
<1>1. Units(amount, {q}) = {q} \X (1 .. amount[q]) /\ IsFiniteSet({q})
  BY FS_Singleton DEF Units
<1>2. \A p \in {q} : amount[p] \in Nat
  OBVIOUS
<1>3. Total(amount, {q}) = Cardinality(Units(amount, {q}))
  BY <1>1, <1>2, TotalCountsUnits
<1> QED
  BY <1>1, <1>3, UnitsOfOne

\* The sum of amounts that are at most m.
LEMMA TotalIsAtMost ==
    ASSUME NEW S, IsFiniteSet(S), NEW m \in Nat, NEW amount, \A q \in S : amount[q] \in 0 .. m
    PROVE  Total(amount, S) <= Cardinality(S) * m
<1>1. Units(amount, S) \in SUBSET (S \X (1 .. m))
  BY DEF Units
<1>2. IsFiniteSet(1 .. m) /\ Cardinality(1 .. m) = m
  BY FS_Interval
<1>3. IsFiniteSet(S \X (1 .. m)) /\ Cardinality(S \X (1 .. m)) = Cardinality(S) * m
  BY <1>2, FS_Product
<1>4. Cardinality(Units(amount, S)) <= Cardinality(S \X (1 .. m))
  BY <1>1, <1>3, FS_Subset
<1>5. Total(amount, S) = Cardinality(Units(amount, S))
  BY TotalCountsUnits
<1> QED
  BY <1>3, <1>4, <1>5

\* The sum depends on the amounts in the set alone.
LEMMA TotalOfSame ==
    ASSUME NEW S, IsFiniteSet(S), NEW amount, NEW other, \A q \in S : amount[q] \in Nat /\ other[q] = amount[q]
    PROVE  Total(other, S) = Total(amount, S)
<1>1. Units(other, S) = Units(amount, S)
  BY DEF Units
<1>2. Total(other, S) = Cardinality(Units(other, S))
  BY TotalCountsUnits
<1>3. Total(amount, S) = Cardinality(Units(amount, S))
  BY TotalCountsUnits
<1> QED
  BY <1>1, <1>2, <1>3

\* The greatest of a finite set of natural numbers.
LEMMA GreatestBounds ==
    ASSUME NEW S \in SUBSET Nat, IsFiniteSet(S), S # {}
    PROVE  Max(S) \in S /\ \A x \in S : x <= Max(S)
<1> DEFINE above(x) == {y \in S : y > x}
<1> DEFINE T == {above(x) : x \in S}
<1>1. T \subseteq FiniteSubsetsOf(S) /\ T # {}
  <2>1. \A x \in S : above(x) \in SUBSET S /\ IsFiniteSet(above(x))
    BY FS_Subset
  <2> QED
    BY <2>1 DEF FiniteSubsetsOf
<1>2. PICK t \in T : \A u \in T : ~(<<u, t>> \in StrictSubsetOrdering(S))
  BY <1>1, FS_StrictSubsetOrderingWellFounded, WFMin
<1>3. PICK x \in S : t = above(x)
  OBVIOUS
<1>4. ASSUME NEW y \in S
      PROVE  x >= y
  <2> SUFFICES ASSUME y > x
               PROVE  FALSE
    OBVIOUS
  <2>1. ~(y > y) /\ \A z \in S : z > y => z > x
    OBVIOUS
  <2>2. y \in above(x) /\ y \notin above(y) /\ above(y) \subseteq above(x) /\ above(x) \subseteq S
    BY <2>1
  <2> HIDE DEF above
  <2>3. <<above(y), above(x)>> \in StrictSubsetOrdering(S)
    BY <2>2 DEF StrictSubsetOrdering
  <2> QED
    BY <1>2, <1>3, <2>3
<1>5. \A y \in S : x >= y
  BY <1>4
<1>6. Max(S) \in S /\ \A y \in S : Max(S) >= y
  BY <1>5 DEF Max
<1> QED
  BY <1>6

----------------------------------------------------------------------------
(* What a day may spend beyond its caps *)

MaxCost == Max({0} \cup Costs)

LEMMA TokensAreBounded ==
    /\ MaxTokens \in Nat
    /\ \A r \in Requests : Profile[r].tokens \in 0 .. MaxTokens /\ Tokens[r] \in 0 .. Profile[r].tokens
<1> DEFINE asked == [r \in Requests |-> Profile[r].tokens]
<1> DEFINE S == {Profile[r].tokens : r \in Requests}
<1>1. \A r \in Requests : Profile[r].tokens \in Nat
  BY RequestsAssumption DEF ProfileType
<1>2. asked \in Surjection(Requests, S)
  BY DEF Surjection
<1>3. IsFiniteSet(S)
  BY <1>2, RequestsAssumption, FS_Surjection
<1>4. IsFiniteSet(S \cup {0}) /\ S \cup {0} = {0} \cup S
  BY <1>3, FS_AddElement
<1>5. {0} \cup S \in SUBSET Nat /\ {0} \cup S # {} /\ IsFiniteSet({0} \cup S)
  BY <1>1, <1>4
<1>6. MaxTokens \in {0} \cup S /\ \A x \in {0} \cup S : x <= MaxTokens
  BY <1>5, GreatestBounds DEF MaxTokens
<1>7. MaxTokens \in Nat /\ \A r \in Requests : Profile[r].tokens <= MaxTokens
  BY <1>5, <1>6
<1>8. \A r \in Requests : Tokens[r] \in 0 .. Profile[r].tokens
  BY <1>1 DEF Tokens
<1> QED
  BY <1>1, <1>7, <1>8

LEMMA CostsAreBounded ==
    MaxCost \in Nat /\ \A c \in Costs \cup {0} : c \in 0 .. MaxCost
<1>1. Costs \cup {0} \in SUBSET Nat /\ Costs \cup {0} # {} /\ IsFiniteSet(Costs \cup {0})
      /\ Costs \cup {0} = {0} \cup Costs
  BY LimitsAssumption, FS_AddElement
<1>2. MaxCost \in Costs \cup {0} /\ \A x \in Costs \cup {0} : x <= MaxCost
  BY <1>1, GreatestBounds DEF MaxCost
<1> QED
  BY <1>1, <1>2

LEMMA Products ==
    ASSUME NEW k \in Nat, NEW l \in Nat, NEW m \in Nat, k <= l
    PROVE  k * m <= l * m /\ k * m \in Nat
OBVIOUS

\* The tokens of the day with those of the runs that are under way.
TokenLoadBounded ==
    \A s \in BudgetScopes :
        TokenCap[s] # NoLimit => Total(Tokens, BudgetLoad(s)) <= TokenCap[s] + (Workers - 1) * MaxTokens

\* The costs of the day, and the greatest cost for each run that is under way.
CostLoadBounded ==
    \A s \in BudgetScopes :
        CostCap[s] # NoLimit /\ CostCap[s] > 0 =>
            CostToday(s) + Cardinality(BudgetAdmitted(s)) * MaxCost <= CostCap[s] - 1 + Workers * MaxCost

LEMMA TokenBoundInductive ==
    ASSUME AdmissionInv, PoolInv, PoolInv', TokenLoadBounded, [Next]_vars
    PROVE  TokenLoadBounded'
<1> SUFFICES ASSUME NEW s \in BudgetScopes, TokenCap[s] # NoLimit
             PROVE  Total(Tokens, BudgetLoad(s)') <= TokenCap[s] + (Workers - 1) * MaxTokens
  BY DEF TokenLoadBounded, Tokens
<1> DEFINE slack == (Workers - 1) * MaxTokens
<1>1. TokenCap[s] \in Nat /\ Workers \in Nat \ {0} /\ MaxTokens \in Nat /\ slack \in Nat /\ Workers - 1 \in Nat
  BY LimitsAssumption, TokensAreBounded, Products
<1>2. \A q \in Requests : Tokens[q] \in Nat /\ Tokens[q] \in 0 .. MaxTokens
  BY TokensAreBounded
<1>3. CASE ~ \E r \in Requests : StartRun(r)
  <2>1. BudgetLoad(s)' \in SUBSET BudgetLoad(s) /\ BudgetLoad(s) \in SUBSET Requests
    BY <1>3, BudgetLoadShrinks DEF BudgetLoad, RunsToday, BudgetAdmitted, AdmissionInv, TypeOK
  <2>2. IsFiniteSet(BudgetLoad(s)) /\ IsFiniteSet(BudgetLoad(s)')
    BY <2>1, Smaller
  <2>3. Total(Tokens, BudgetLoad(s)') <= Total(Tokens, BudgetLoad(s))
    BY <1>2, <2>1, <2>2, TotalGrows
  <2>4. Total(Tokens, BudgetLoad(s)') \in Nat /\ Total(Tokens, BudgetLoad(s)) \in Nat
    BY <1>2, <2>1, <2>2, TotalIsNatural
  <2> QED
    BY <1>1, <2>3, <2>4 DEF TokenLoadBounded
<1>4. ASSUME NEW r \in Requests, StartRun(r)
      PROVE  Total(Tokens, BudgetLoad(s)') <= TokenCap[s] + slack
  <2>1. RunsToday(s)' = RunsToday(s) /\ RunsToday(s) \in SUBSET Requests /\ r \notin RunsToday(s)
    BY <1>4 DEF StartRun, RunsToday, clock, rows, AdmissionInv, TypeOK, CommitInv
  <2>2. CASE s \notin Profile[r].budget
    <3>1. BudgetAdmitted(s)' = BudgetAdmitted(s)
      BY <1>4, <2>2 DEF StartRun, Goto, BudgetAdmitted, AdmissionInv, TypeOK
    <3> QED
      BY <2>1, <3>1 DEF BudgetLoad, TokenLoadBounded
  <2>3. CASE s \in Profile[r].budget
    <3> DEFINE known == RunsToday(s) \cup {r}
    <3> DEFINE others == BudgetAdmitted(s)' \ known
    <3>1. BudgetLoad(s)' = known \cup others /\ known \cap others = {}
      BY <1>4, <2>1, <2>3 DEF BudgetLoad, BudgetAdmitted, StartRun, Goto, AdmissionInv, TypeOK
    <3>2. known \in SUBSET Requests /\ others \in SUBSET Requests /\ IsFiniteSet(known) /\ IsFiniteSet(others)
      BY <2>1, Smaller DEF BudgetAdmitted
    <3>3. Total(Tokens, known) <= TokenCap[s]
      <4>1. Total(Tokens, known) = Total(Tokens, RunsToday(s)) + Total(Tokens, {r})
        BY <1>2, <2>1, <3>2, Smaller, TotalOfUnion, FS_Singleton
      <4>2. Total(Tokens, {r}) = Tokens[r] /\ Tokens[r] <= Profile[r].tokens /\ Tokens[r] \in Nat /\ Profile[r].tokens \in Nat
        BY <1>2, TotalOfOne, TokensAreBounded
      <4>3. Total(Tokens, RunsToday(s)) \in Nat
        BY <1>2, <2>1, Smaller, TotalIsNatural
      <4>4. ~(Total(Tokens, RunsToday(s)) + Profile[r].tokens > TokenCap[s])
        BY <1>4, <2>3 DEF StartRun, OverBudget, OverTokens, TokensToday
      <4> QED
        BY <1>1, <4>1, <4>2, <4>3, <4>4
    <3>4. Cardinality(others) <= Workers - 1 /\ Cardinality(others) \in Nat
      <4>1. others \cup {r} \in SUBSET InHandler' /\ InHandler' \in SUBSET Requests /\ r \notin others
        BY <1>4, <2>1 DEF BudgetAdmitted, InHandler, StartRun, Goto, AdmissionInv, TypeOK
      <4>2. Cardinality(others \cup {r}) <= Cardinality(InHandler') /\ Cardinality(InHandler') \in Nat
        BY <4>1, Smaller
      <4>3. Cardinality(others \cup {r}) = Cardinality(others) + 1 /\ Cardinality(others) \in Nat
        BY <3>2, <4>1, FS_AddElement, FS_CardinalityType
      <4> QED
        BY <1>1, <4>2, <4>3 DEF PoolInv
    <3>5. Total(Tokens, others) <= slack
      <4>1. Total(Tokens, others) <= Cardinality(others) * MaxTokens
        BY <1>1, <1>2, <3>2, TotalIsAtMost
      <4>2. Cardinality(others) * MaxTokens <= slack /\ Cardinality(others) * MaxTokens \in Nat
        BY <1>1, <3>4, Products
      <4>3. Total(Tokens, others) \in Nat
        BY <1>2, <3>2, TotalIsNatural
      <4> QED
        BY <1>1, <4>1, <4>2, <4>3
    <3>6. Total(Tokens, known \cup others) = Total(Tokens, known) + Total(Tokens, others)
      BY <1>2, <3>1, <3>2, TotalOfUnion
    <3>7. Total(Tokens, known) \in Nat /\ Total(Tokens, others) \in Nat
      BY <1>2, <3>2, TotalIsNatural
    <3> QED
      BY <1>1, <3>1, <3>3, <3>5, <3>6, <3>7
  <2> QED
    BY <2>2, <2>3
<1> QED
  BY <1>3, <1>4

\* No step but the budget check and the commit adds to what is spent.
LEMMA SpendShrinks ==
    ASSUME AdmissionInv, PoolInv, [Next]_vars, NEW s \in BudgetScopes,
           ~ \E r \in Requests : StartRun(r) \/ Commit(r)
    PROVE  RunsToday(s)' \subseteq RunsToday(s) /\ BudgetAdmitted(s)' \subseteq BudgetAdmitted(s) /\ cost' = cost
<1> USE DEF clock, rows, AdmissionInv, TypeOK, CommitInv, RunsToday, BudgetAdmitted
<1>1. CASE Tick \/ DeleteExpired \/ UNCHANGED vars
  BY <1>1 DEF Tick, DeleteExpired, vars, PoolInv
<1>2. ASSUME NEW r \in Requests, Handle(r) \/ Crash(r)
      PROVE RunsToday(s)' \subseteq RunsToday(s) /\ BudgetAdmitted(s)' \subseteq BudgetAdmitted(s) /\ cost' = cost
  <2> USE DEF Answer, Goto
  <2>1. CASE ReplayStored(r) \/ PassThrough(r) \/ Begin(r)
    BY <2>1 DEF ReplayStored, PassThrough, Begin
  <2>2. CASE NotFound(r) \/ RefuseRate(r) \/ CountRequest(r) \/ RefuseInput(r) \/ RefuseBudget(r)
    BY <2>2 DEF NotFound, RefuseRate, CountRequest, RefuseInput, RefuseBudget
  <2>3. CASE EngineFails(r)
    BY <2>3 DEF EngineFails
  <2>4. CASE AnswerUnstored(r) \/ RenderFails(r) \/ Crash(r)
    BY <2>4 DEF AnswerUnstored, RenderFails, Crash
  <2>5. CASE StoreDelete(r) \/ StoreInsert(r) \/ StoreConflict(r)
    BY <2>5 DEF StoreDelete, StoreInsert, StoreConflict
  <2> QED
    BY <1>2, <2>1, <2>2, <2>3, <2>4, <2>5 DEF Handle
<1> QED
  BY <1>1, <1>2 DEF Next

LEMMA CostBoundInductive ==
    ASSUME AdmissionInv, AdmissionInv', PoolInv, PoolInv', CostLoadBounded, [Next]_vars
    PROVE  CostLoadBounded'
<1> SUFFICES ASSUME NEW s \in BudgetScopes, CostCap[s] # NoLimit, CostCap[s] > 0
             PROVE  CostToday(s)' + Cardinality(BudgetAdmitted(s)') * MaxCost <= CostCap[s] - 1 + Workers * MaxCost
  BY DEF CostLoadBounded, MaxCost
<1> DEFINE spent == CostToday(s)
<1> DEFINE going == Cardinality(BudgetAdmitted(s))
<1> DEFINE spentNext == CostToday(s)'
<1> DEFINE goingNext == Cardinality(BudgetAdmitted(s)')
<1>1. CostCap[s] \in Nat /\ Workers \in Nat /\ MaxCost \in Nat
  BY LimitsAssumption, CostsAreBounded
<1>2. /\ \A q \in Requests : cost[q] \in Nat /\ cost'[q] \in Nat
      /\ RunsToday(s) \in SUBSET Requests /\ RunsToday(s)' \in SUBSET Requests
      /\ BudgetAdmitted(s) \in SUBSET InHandler /\ BudgetAdmitted(s)' \in SUBSET InHandler'
      /\ InHandler \in SUBSET Requests /\ InHandler' \in SUBSET Requests
  BY DEF AdmissionInv, TypeOK, RunsToday, BudgetAdmitted, InHandler
<1>3. going \in Nat /\ goingNext \in Nat /\ goingNext <= Workers
  <2>1. Cardinality(BudgetAdmitted(s)) \in Nat
    BY <1>2, Smaller
  <2>2. Cardinality(BudgetAdmitted(s)') <= Cardinality(InHandler') /\ Cardinality(InHandler') \in Nat
        /\ Cardinality(BudgetAdmitted(s)') \in Nat
    BY <1>2, Smaller
  <2> QED
    BY <1>1, <2>1, <2>2 DEF PoolInv
<1>4. IsFiniteSet(RunsToday(s)) /\ IsFiniteSet(RunsToday(s)')
  BY <1>2, Smaller
<1>5. spent = Total(cost, RunsToday(s)) /\ spentNext = Total(cost', RunsToday(s)')
  BY DEF CostToday, Total, MapThenSumSet, MapThenFoldSet
<1>6. spent \in Nat /\ spentNext \in Nat
  BY <1>2, <1>4, <1>5, TotalIsNatural
<1>7. spent + going * MaxCost <= CostCap[s] - 1 + Workers * MaxCost
  BY DEF CostLoadBounded
<1>8. CASE ~ \E r \in Requests : StartRun(r) \/ Commit(r)
  <2>1. RunsToday(s)' \in SUBSET RunsToday(s) /\ BudgetAdmitted(s)' \in SUBSET BudgetAdmitted(s) /\ cost' = cost
    BY <1>8, SpendShrinks
  <2>2. spentNext <= spent
    BY <1>2, <1>4, <1>5, <2>1, TotalGrows
  <2>3. goingNext <= going
    BY <1>2, <2>1, Smaller
  <2>4. goingNext * MaxCost <= going * MaxCost /\ goingNext * MaxCost \in Nat /\ going * MaxCost \in Nat
    BY <1>1, <1>3, <2>3, Products
  <2>5. Workers * MaxCost \in Nat
    BY <1>1, Products
  <2> HIDE DEF spent, spentNext, going, goingNext
  <2>6. spentNext + goingNext * MaxCost <= CostCap[s] - 1 + Workers * MaxCost
    BY <1>1, <1>6, <1>7, <2>2, <2>4, <2>5
  <2> QED
    BY <2>6 DEF spentNext, goingNext
<1>9. ASSUME NEW r \in Requests, StartRun(r)
      PROVE  spentNext + goingNext * MaxCost <= CostCap[s] - 1 + Workers * MaxCost
  <2>1. RunsToday(s)' = RunsToday(s) /\ cost' = cost
    BY <1>9 DEF StartRun, RunsToday, clock, rows
  <2>2. spentNext = spent
    BY <1>5, <2>1
  <2>3. CASE s \notin Profile[r].budget
    <3>1. BudgetAdmitted(s)' = BudgetAdmitted(s)
      BY <1>9, <2>3 DEF StartRun, Goto, BudgetAdmitted, AdmissionInv, TypeOK
    <3> QED
      BY <1>7, <2>2, <3>1
  <2>4. CASE s \in Profile[r].budget
    <3>1. ~(spent >= CostCap[s])
      BY <1>9, <2>4 DEF StartRun, OverBudget, OverCost
    <3>2. goingNext * MaxCost <= Workers * MaxCost /\ goingNext * MaxCost \in Nat /\ Workers * MaxCost \in Nat
      BY <1>1, <1>3, Products
    <3> HIDE DEF spent, spentNext, going, goingNext
    <3> QED
      BY <1>1, <1>6, <2>2, <3>1, <3>2
  <2> QED
    BY <2>3, <2>4
<1>10. ASSUME NEW r \in Requests, Commit(r)
       PROVE  spentNext + goingNext * MaxCost <= CostCap[s] - 1 + Workers * MaxCost
  <2>1. PICK c \in Costs \cup {0} : cost' = [cost EXCEPT ![r] = c]
    BY <1>10 DEF Commit
  <2>2. /\ pc[r] = "running" /\ r \notin runs /\ runs' = runs \cup {r} /\ UNCHANGED <<dayStart, started>>
        /\ pc' = [pc EXCEPT ![r] = "committed"]
    BY <1>10 DEF Commit, Goto, clock, AdmissionInv, CommitInv, TypeOK
  <2>3. /\ BudgetAdmitted(s)' = BudgetAdmitted(s) \ {r}
        /\ RunsToday(s)' \subseteq RunsToday(s) \cup {r}
        /\ r \in RunsToday(s)' => r \in BudgetAdmitted(s)
    BY <2>2 DEF BudgetAdmitted, RunsToday, AdmissionInv, TypeOK
  <2>4. cost'[r] = c /\ c \in 0 .. MaxCost /\ \A q \in RunsToday(s) : cost'[q] = cost[q]
    BY <2>1, <2>2, CostsAreBounded DEF AdmissionInv, TypeOK, RunsToday
  <2>5. Total(cost', RunsToday(s)) = Total(cost, RunsToday(s))
    BY <1>2, <1>4, <2>4, TotalOfSame
  <2>6. IsFiniteSet(BudgetAdmitted(s))
    BY <1>2, Smaller
  <2>7. CASE r \notin RunsToday(s)'
    <3>1. RunsToday(s)' \in SUBSET RunsToday(s)
      BY <2>3, <2>7
    <3>2. Total(cost', RunsToday(s)') <= Total(cost', RunsToday(s))
      BY <1>2, <1>4, <3>1, TotalGrows
    <3>3. goingNext <= going
      BY <1>2, <2>3, Smaller
    <3>4. goingNext * MaxCost <= going * MaxCost /\ goingNext * MaxCost \in Nat /\ going * MaxCost \in Nat
      BY <1>1, <1>3, <3>3, Products
    <3>5. Workers * MaxCost \in Nat
      BY <1>1, Products
    <3>6. spentNext <= spent
      BY <1>5, <2>5, <3>2
    <3> HIDE DEF spent, spentNext, going, goingNext
    <3> QED
      BY <1>1, <1>6, <1>7, <3>4, <3>5, <3>6
  <2>8. CASE r \in RunsToday(s)'
    <3>1. r \in BudgetAdmitted(s) /\ r \notin RunsToday(s) /\ RunsToday(s)' \in SUBSET (RunsToday(s) \cup {r})
      BY <2>2, <2>3, <2>8 DEF RunsToday
    <3>2. IsFiniteSet(RunsToday(s) \cup {r}) /\ RunsToday(s) \cup {r} \in SUBSET Requests /\ IsFiniteSet({r})
      BY <1>2, <1>4, FS_AddElement, FS_Singleton
    <3>3. Total(cost', RunsToday(s)') <= Total(cost', RunsToday(s) \cup {r})
      BY <1>2, <3>1, <3>2, TotalGrows
    <3>4. Total(cost', RunsToday(s) \cup {r}) = Total(cost', RunsToday(s)) + Total(cost', {r})
      BY <1>2, <1>4, <3>1, <3>2, TotalOfUnion
    <3>5. Total(cost', {r}) = c
      BY <2>4, TotalOfOne
    <3>6. spentNext <= spent + c
      BY <1>5, <2>5, <3>3, <3>4, <3>5
    <3>7. goingNext = going - 1
      BY <2>3, <2>6, <3>1, FS_RemoveElement
    <3> HIDE DEF spent, spentNext, going, goingNext
    <3>8. goingNext * MaxCost + MaxCost = going * MaxCost
      BY <1>1, <1>3, <3>7
    <3>9. goingNext * MaxCost \in Nat /\ going * MaxCost \in Nat /\ Workers * MaxCost \in Nat
      BY <1>1, <1>3, Products
    <3> QED
      BY <1>1, <1>6, <1>7, <2>4, <3>6, <3>8, <3>9
  <2> QED
    BY <2>7, <2>8
<1> QED
  BY <1>8, <1>9, <1>10

LEMMA InitSpend == Init => TokenLoadBounded /\ CostLoadBounded
<1> SUFFICES ASSUME Init, NEW s \in BudgetScopes
             PROVE  /\ TokenCap[s] # NoLimit => Total(Tokens, BudgetLoad(s)) <= TokenCap[s] + (Workers - 1) * MaxTokens
                    /\ CostCap[s] # NoLimit /\ CostCap[s] > 0 =>
                         CostToday(s) + Cardinality(BudgetAdmitted(s)) * MaxCost <= CostCap[s] - 1 + Workers * MaxCost
  BY DEF TokenLoadBounded, CostLoadBounded
<1>1. RunsToday(s) = {} /\ BudgetAdmitted(s) = {} /\ BudgetLoad(s) = {}
  BY DEF Init, RunsToday, BudgetAdmitted, BudgetLoad
<1>2. IsFiniteSet({}) /\ Cardinality({}) = 0
  BY FS_EmptySet
<1>3. \A amount : Units(amount, {}) = {}
  BY DEF Units
<1>4. Total(Tokens, {}) = 0 /\ Total(cost, {}) = 0
  BY <1>2, <1>3, TotalCountsUnits
<1>5. CostToday(s) = 0 /\ Total(Tokens, BudgetLoad(s)) = 0 /\ Cardinality(BudgetAdmitted(s)) = 0
  BY <1>1, <1>2, <1>4 DEF CostToday
<1>6. /\ Workers \in Nat /\ Workers - 1 \in Nat /\ MaxTokens \in Nat /\ MaxCost \in Nat
      /\ TokenCap[s] \in Nat \cup {NoLimit} /\ CostCap[s] \in Nat \cup {NoLimit}
  BY LimitsAssumption, TokensAreBounded, CostsAreBounded
<1>7. (Workers - 1) * MaxTokens \in Nat /\ Workers * MaxCost \in Nat
  BY <1>6, Products
<1> QED
  BY <1>5, <1>6, <1>7

\* However the handlers interleave, each further worker thread carries a day's
\* tokens past the cap by one run's, and each worker its costs by one run's.
THEOREM SpendBounded == Spec => []SpendOvershootBounded
<1>1. AdmissionInv /\ AdmissionInv' /\ PoolInv /\ PoolInv' /\ TokenLoadBounded /\ CostLoadBounded /\ [Next]_vars
        => TokenLoadBounded' /\ CostLoadBounded'
  BY TokenBoundInductive, CostBoundInductive
<1>2. AdmissionInv /\ TokenLoadBounded /\ CostLoadBounded => SpendOvershootBounded
  <2> SUFFICES ASSUME AdmissionInv, TokenLoadBounded, CostLoadBounded, NEW s \in BudgetScopes
               PROVE  /\ TokenCap[s] # NoLimit => TokensToday(s) <= TokenCap[s] + (Workers - 1) * MaxTokens
                      /\ CostCap[s] # NoLimit /\ CostCap[s] > 0 => CostToday(s) <= CostCap[s] - 1 + Workers * MaxCost
    BY DEF SpendOvershootBounded, TokenBudgetOvershootBounded, CostBudgetOvershootBounded, MaxCost
  <2>1. /\ BudgetLoad(s) \in SUBSET Requests /\ RunsToday(s) \in SUBSET BudgetLoad(s)
        /\ BudgetAdmitted(s) \in SUBSET Requests /\ RunsToday(s) \in SUBSET Requests
        /\ \A q \in Requests : cost[q] \in Nat /\ Tokens[q] \in Nat
    BY TokensAreBounded DEF BudgetLoad, RunsToday, BudgetAdmitted, AdmissionInv, TypeOK
  <2>2. IsFiniteSet(BudgetLoad(s)) /\ IsFiniteSet(RunsToday(s)) /\ Cardinality(BudgetAdmitted(s)) \in Nat
    BY <2>1, Smaller
  <2>3. /\ TokensToday(s) <= Total(Tokens, BudgetLoad(s))
        /\ TokensToday(s) \in Nat /\ Total(Tokens, BudgetLoad(s)) \in Nat /\ CostToday(s) \in Nat
    BY <2>1, <2>2, TotalGrows, TotalIsNatural DEF TokensToday, CostToday
  <2>4. /\ Workers \in Nat /\ Workers - 1 \in Nat /\ MaxTokens \in Nat /\ MaxCost \in Nat
        /\ TokenCap[s] \in Nat \cup {NoLimit} /\ CostCap[s] \in Nat \cup {NoLimit}
    BY LimitsAssumption, TokensAreBounded, CostsAreBounded
  <2>5. (Workers - 1) * MaxTokens \in Nat /\ Workers * MaxCost \in Nat /\ Cardinality(BudgetAdmitted(s)) * MaxCost \in Nat
    BY <2>2, <2>4, Products
  <2> QED
    BY <2>3, <2>4, <2>5 DEF TokenLoadBounded, CostLoadBounded
<1> QED
  BY InitSpend, PoolInvariant, AdmissionInvariant, <1>1, <1>2, PTL DEF Spec
=============================================================================
