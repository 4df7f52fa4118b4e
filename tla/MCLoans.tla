------------------------------ MODULE MCLoans ------------------------------
(* TLC instance of Loans: one borrower; the smallest repayment is more     *)
(* than half of what a loan of 20 with interest 1 owes.                    *)
EXTENDS Loans, TLC

CONSTANTS alice, bob

MembersDef == {alice, bob}
BorrowerDef == [l \in Loans |-> alice]
PrincipalDef == [l \in Loans |-> 20]
ShareValueDef == [m \in MembersDef |-> 7]

Symmetry == Permutations(Sessions) \cup Permutations(Loans) \cup Permutations(Repayments)
=============================================================================
