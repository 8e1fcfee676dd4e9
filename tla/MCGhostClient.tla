---------------------------- MODULE MCGhostClient ----------------------------
(* Instances of GhostClient for TLC. *)
EXTENDS GhostClient

CONSTANTS p1, p2, p3, x1, w1, w2, i1
=============================================================================
