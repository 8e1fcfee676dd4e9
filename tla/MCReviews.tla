------------------------------ MODULE MCReviews ------------------------------
(* Instances of Reviews for TLC. *)
EXTENDS Reviews, TLC

CONSTANTS a, b, c

Two == [r \in {a, b} |-> r]
=============================================================================
