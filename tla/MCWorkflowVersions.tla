------------------------- MODULE MCWorkflowVersions -------------------------
(* Instances of WorkflowVersions for TLC. *)
EXTENDS WorkflowVersions, TLC

CONSTANTS s1, s2, s3, s4, w1, w2

AllOps == OpKinds
Sym == Permutations(Sessions)
=============================================================================
