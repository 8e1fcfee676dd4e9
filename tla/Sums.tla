-------------------------------- MODULE Sums --------------------------------
(***************************************************************************)
(* sum(): of a list of numbers, of its beginnings, and of some of its       *)
(* places.                                                                  *)
(***************************************************************************)
EXTENDS Integers, Sequences

Sums(numbers) ==
  LET sum[n \in 0 .. Len(numbers)] == IF n = 0 THEN 0 ELSE sum[n - 1] + numbers[n] IN sum
Total(numbers) == Sums(numbers)[Len(numbers)]
SumOver(numbers, places) == Total([i \in DOMAIN numbers |-> IF i \in places THEN numbers[i] ELSE 0])
=============================================================================
