----------------------------- MODULE MCFeeVault -----------------------------
(***************************************************************************)
(* Three characters of one player over three epochs. Half of them are the  *)
(* "decile", so that the cutoff, the ties at it and the rounding matter.   *)
(***************************************************************************)
EXTENDS Claims

MCDailyCost == [n \in 0..2 |-> IF n = 2 THEN 9 ELSE 4 * n]
MCWeight    == [d \in 0..3 |-> 10 + d]
=============================================================================
