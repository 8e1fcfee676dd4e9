---------------------------- MODULE MCAuditTrail ----------------------------
(* Two runs whose rows may share a file, and a reader. *)
EXTENDS AuditTrail, TLC

CONSTANTS r1, r2, x1, t1

MCOwner == r1 :> t1 @@ r2 :> t1
MCTenant == x1 :> t1
Two(x, y) == r1 :> x @@ r2 :> y
Deployed(kind, fan, f1, f2, bulky, readers, wanted) ==
    [sinks |-> fan, store |-> kind, file |-> Two(f1, f2), id |-> Two(1, 1), bulky |-> bulky, readers |-> readers, wanted |-> x1 :> wanted]
OfOneEngine(c) == [c EXCEPT !.id = Two(1, 2)]
File == <<"file">>

MCScenes ==
    {Deployed("jsonl", File, 1, 1, {r1}, {x1}, None), Deployed("jsonl", File, 1, 2, {r1}, {x1}, None),
     Deployed("jsonl", File, 1, 1, {r1, r2}, {}, None),
     Deployed("jsonl", File, 1, 2, {r2}, {x1}, r1), OfOneEngine(Deployed("jsonl", File, 1, 1, {r2}, {x1}, r1)),
     Deployed("jsonl", <<"file", "object", "siem">>, 1, 1, {}, {}, None),
     Deployed("db", File, 1, 1, {}, {x1}, None)}
=============================================================================
