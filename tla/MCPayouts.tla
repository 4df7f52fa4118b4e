----------------------------- MODULE MCPayouts -----------------------------
(* TLC instance of Payouts: one member requests two payouts that her       *)
(* shares and the cash cover one at a time, but not together.              *)
EXTENDS Payouts, TLC

CONSTANTS alice, bob

MembersDef == {alice, bob}
OwnerDef == [p \in Payouts |-> alice]
AmountDef == [p \in Payouts |-> 2]
ShareValueDef == [m \in MembersDef |-> 3]

Symmetry == Permutations(Sessions) \cup Permutations(Payouts)
=============================================================================
