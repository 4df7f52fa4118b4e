------------------------- MODULE MCLoansAndMembers -------------------------
(* TLC instance of LoansAndMembers: that of Loans, three people, two fees  *)
(* of which one is 0, one user with refresh tokens, and three users who    *)
(* may administer the platform.                                            *)
EXTENDS LoansAndMembers, MCLoans

CONSTANTS f1, f2

FeeAmountDef == f1 :> 5 @@ f2 :> 0
=============================================================================
