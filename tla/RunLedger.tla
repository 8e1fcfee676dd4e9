----------------------------- MODULE RunLedger -----------------------------
(***************************************************************************)
(* What the control plane promises to the sender of a run-creating POST,   *)
(* whatever happens inside: a POST is executed at most once and before it  *)
(* is answered, a success names a persisted run of a POST the answer may   *)
(* be shared with (itself, or one with the same tenant and                 *)
(* Idempotency-Key), and a refusal (4xx) leaves nothing behind.  A failure *)
(* (5xx, or a lost connection) promises nothing either way.                *)
(***************************************************************************)
CONSTANTS
    Posts,             \* the POST requests
    MayShare           \* the pairs <<p, q>> such that p may be told the run of q

VARIABLES
    ledger,            \* the POSTs whose run is persisted
    answer             \* what each sender has been told

Pending == [kind |-> "pending"]
Refused == [kind |-> "refused"]
Failed  == [kind |-> "failed"]
Success(q) == [kind |-> "success", run |-> q]

Init ==
    /\ ledger = {}
    /\ answer = [p \in Posts |-> Pending]

\* The run of p is persisted; nobody has been answered about p yet.
Execute(p) ==
    /\ answer[p] = Pending
    /\ p \notin ledger
    /\ ledger' = ledger \cup {p}
    /\ UNCHANGED answer

\* p is told the run of q.
Succeed(p, q) ==
    /\ answer[p] = Pending
    /\ q \in ledger
    /\ q = p \/ <<p, q>> \in MayShare
    /\ answer' = [answer EXCEPT ![p] = Success(q)]
    /\ UNCHANGED ledger

\* p is refused: it has left no run.
Refuse(p) ==
    /\ answer[p] = Pending
    /\ p \notin ledger
    /\ answer' = [answer EXCEPT ![p] = Refused]
    /\ UNCHANGED ledger

\* p fails: the sender cannot know whether its run is persisted.
Fail(p) ==
    /\ answer[p] = Pending
    /\ answer' = [answer EXCEPT ![p] = Failed]
    /\ UNCHANGED ledger

Next ==
    \E p \in Posts :
        \/ Execute(p)
        \/ \E q \in Posts : Succeed(p, q)
        \/ Refuse(p)
        \/ Fail(p)

vars == <<ledger, answer>>

Spec == Init /\ [][Next]_vars
=============================================================================
