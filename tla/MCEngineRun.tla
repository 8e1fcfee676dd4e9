---------------------------- MODULE MCEngineRun ----------------------------
(***************************************************************************)
(* Instances of EngineRun for TLC: small graphs with a cycle, a join, a    *)
(* dangling successor, a routed edge and two effects on one key.           *)
(***************************************************************************)
EXTENDS EngineRun, TLC

CONSTANTS a, b, c, d, e, k1, v1, v2, t1, t2

NoEffect == [key |-> k1, type |-> "write", value |-> v1]
NoRouting == << >>
Graph(name, nodes, entry, kind, next, routing, effect) ==
    [name |-> name, nodes |-> nodes, entry |-> entry,
     kind |-> kind @@ [n \in Names |-> "module"], next |-> next @@ [n \in Names |-> <<>>],
     routing |-> [n \in Names |-> IF n = b THEN routing ELSE NoRouting],
     effect |-> [n \in Names |-> [NoEffect EXCEPT !.type = effect[n]]]]
Writes == [n \in Names |-> "write"]

\* ai -> routing -(approve)-> effect -> back to ai; otherwise the ai step, a
\* module, and e, which is no step of the pipeline.
Governed == Graph("governed", {a, b, c, d}, <<a>>,
    (a :> "ai") @@ (b :> "routing") @@ (c :> "effect"),
    (a :> <<b>>) @@ (b :> <<a, d, e>>) @@ (c :> <<a>>),
    (("approve" :> c) @@ ("reject" :> e)), Writes)

\* Two entries, a routing step without a model, joins, two effects of different types on one key.
Diamond == Graph("diamond", {a, b, c, d}, <<b, c>>,
    (a :> "effect") @@ (b :> "routing") @@ (c :> "effect"),
    (b :> <<c, d>>) @@ (c :> <<d>>) @@ (d :> <<a, b>>),
    ("manual_review" :> a), (c :> "delete") @@ Writes)

\* Three sagas in a row, the last after an effect.
Sagas == Graph("sagas", {a, b, c, d}, <<a>>,
    (a :> "saga") @@ (b :> "saga") @@ (c :> "effect") @@ (d :> "saga"),
    (a :> <<b>>) @@ (b :> <<c>>) @@ (c :> <<d>>),
    NoRouting, Writes)

GovernedOnly == {Governed}
AllPipelines == {Governed, Diamond, Sagas}
NoBlobs == {}

\* A snapshot that another engine wrote for its second run of "governed".
Foreign ==
    [kind |-> "done", pipe |-> Governed, tenant |-> t1, dry |-> FALSE, id |-> <<"governed", 2>>,
     trace |-> <<a>>, rollback |-> <<>>, out |-> [n \in Names |-> IF n = a THEN "timeout" ELSE None],
     effects |-> <<>>, timeout |-> TRUE]
OneForeignBlob == {[id |-> Foreign.id, of |-> Foreign]}
=============================================================================
