------------------------------- MODULE Trees -------------------------------
(***************************************************************************)
(* JSON values as trees.  A value is its kind and its items: an object has  *)
(* the kind "dict" and a value for each of its keys, a list the kind "list" *)
(* (or "tuple") and a value for each index, and the kind of any other value *)
(* is the value itself.                                                     *)
(***************************************************************************)
EXTENDS Integers, Sequences, FiniteSets

NoItems == [k \in {} |-> 0]
Leaf(value) == [kind |-> value, of |-> NoItems]
Obj(items)  == [kind |-> "dict", of |-> items]
List(items) == [kind |-> "list", of |-> items]
EmptyObj    == Obj(NoItems)

IsObj(v)  == v.kind = "dict"
Keys(v)   == DOMAIN v.of
Has(v, k) == IsObj(v) /\ k \in Keys(v)

\* deep_merge of the client, _deep_merge of the rules and
\* _merge_input_template of the demo server: objects are merged key by key,
\* anything else of the overlay replaces what the base has.
RECURSIVE DeepMerge(_, _)
DeepMerge(base, overlay) ==
  Obj([k \in Keys(base) \cup Keys(overlay) |->
         IF k \notin Keys(overlay) THEN base.of[k]
         ELSE IF k \in Keys(base) /\ IsObj(base.of[k]) /\ IsObj(overlay.of[k])
              THEN DeepMerge(base.of[k], overlay.of[k])
              ELSE overlay.of[k]])

\* {**base, **overlay}: the overlay's keys replace the base's, at the top only.
ShallowMerge(base, overlay) ==
  Obj([k \in Keys(base) \cup Keys(overlay) |->
         IF k \in Keys(overlay) THEN overlay.of[k] ELSE base.of[k]])

\* The value at a path of keys.
RECURSIVE At(_, _)
At(v, p) == IF p = <<>> THEN v ELSE At(v.of[Head(p)], Tail(p))
=============================================================================
