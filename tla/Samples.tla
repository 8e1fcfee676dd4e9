------------------------------ MODULE Samples ------------------------------
(***************************************************************************)
(* Functions that keep no state are checked on samples: a behaviour draws   *)
(* one sample of one kind and stops, and an invariant compares what the     *)
(* code computes for it with a definition that does not follow the code.    *)
(***************************************************************************)
VARIABLE sample

NothingDrawn == sample = [kind |-> "none"]
Drawn(kind) == sample.kind = kind
Draw(kind, value) == sample' = [kind |-> kind, of |-> value]

\* One sample out of a set.
DrawsFrom(kind, Values) == NothingDrawn /\ [][NothingDrawn /\ \E v \in Values : Draw(kind, v)]_sample
=============================================================================
