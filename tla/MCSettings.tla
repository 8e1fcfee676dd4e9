----------------------------- MODULE MCSettings -----------------------------
(* Three sessions of one or two tenants; two routing models exist at first. *)
EXTENDS Settings, TLC

CONSTANTS s1, s2, s3, t1, t2

Of(scope, name, active) == [scope |-> scope, name |-> name, config |-> None, active |-> active]
Two(x, y) == 1 :> x @@ 2 :> y
Asks(x, y, z) == s1 :> x @@ s2 :> y @@ s3 :> z
Own == {Two(Of(t1, "x", TRUE), Of(t1, "y", FALSE)), Two(Of(Global, "x", TRUE), Of(t1, "x", TRUE))}
Mixed == {Two(Of(t2, "x", TRUE), Of(t1, "x", TRUE)), Two(Of(Global, "x", TRUE), Of(Global, "y", FALSE))}
One == {Two(Of(Global, "x", TRUE), Of(t2, "y", TRUE))}
Start(ms, owners, asks) == [models : ms, asks : asks, owners : {owners}]

MCScenarios ==
    Start(Own, Asks(t1, t1, t1), {Asks("activate", "activate", "activate"), Asks("upsert", "activate", "resolve")})
    \cup Start(One, Asks(t1, t1, t1), {Asks("put", "patch", "resolve"), Asks("put", "put", "resolve"), Asks("flags", "flags", "resolve")})
    \cup Start(Mixed, Asks(t1, t1, t2), {Asks("upsert", "activate", "activate"), Asks("upsert", "upsert", "activate")})
=============================================================================
