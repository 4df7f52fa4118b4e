----------------------------- MODULE MCPayments ----------------------------
(* TLC instance of Payments alone.                                         *)
EXTENDS Payments, TLC

Symmetry == Permutations(Sessions) \cup Permutations(Charges)
=============================================================================
