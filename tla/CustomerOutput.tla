--------------------------- MODULE CustomerOutput ---------------------------
(***************************************************************************)
(* What a customer is given of a finished run (customer_output.py): its     *)
(* result and its fields without the keys that govern a run.                *)
(***************************************************************************)
EXTENDS TLC

(* A JSON value is a leaf, an object, or a list or a tuple of values; two   *)
(* keys stand for the governance keys, which go at any depth.               *)
GovernanceKeys == {"run_id", "tenant_id"}
\* Mutant: lists are returned as they are.
RECURSIVE StripGovernanceOfObjects(_)
StripGovernanceOfObjects(v) ==
  IF v.kind # "dict" THEN v
  ELSE [v EXCEPT !.of = [k \in DOMAIN v.of \ GovernanceKeys |-> StripGovernanceOfObjects(v.of[k])]]

RECURSIVE StripGovernance(_)
StripGovernance(v) ==
  CASE v.kind \notin {"dict", "list", "tuple"} -> v
    [] v.kind = "dict" ->
         [v EXCEPT !.of = [k \in DOMAIN v.of \ GovernanceKeys |-> StripGovernance(v.of[k])]]
    [] v.kind \in {"list", "tuple"} ->
         [kind |-> "list", of |-> [i \in DOMAIN v.of |-> StripGovernance(v.of[i])]]

\* The optional facets are left out when they are missing or strip to nothing.
CustomerOutput(result, fields) ==
  LET cleaned == StripGovernance(fields)
      body == ("result" :> StripGovernance(result))
  IN  IF fields.kind = "dict" /\ DOMAIN cleaned.of # {} THEN body @@ ("fields" :> cleaned)
      ELSE body
=============================================================================
