-------------------------- MODULE MCContributions --------------------------
(* TLC instance of Contributions.                                          *)
EXTENDS Contributions, TLC

Symmetry == Permutations(Requests) \cup Permutations(Slots)
=============================================================================
