----------------------------- MODULE MCTreasury ----------------------------
(* TLC instance of Treasury: a loan and a payout that the contributions    *)
(* cover one at a time, but not together.                                  *)
EXTENDS Treasury

CONSTANTS alice, bob, l1, p1, c1, c2, s1, s2, s3

MembersDef == {alice, bob}
BorrowerDef == [l \in {l1} |-> alice]
PrincipalDef == [l \in {l1} |-> 20]
OwnerDef == [p \in {p1} |-> bob]
AmountDef == [p \in {p1} |-> 15]
ContributionDef == [c \in {c1, c2} |-> IF c = c1 THEN 20 ELSE 10]
ShareValueDef == [m \in MembersDef |-> 15]

(* Two of the three sessions serve requests: the two of the loan service,  *)
(* whose disbursement and repayment may wait for each other, or one of     *)
(* each service.  The third stays idle, as it may under FairSpec.          *)
VARIABLE serving

Idle ==
  /\ \A s \in LoanSessions \ serving : loanPc[s] = "idle"
  /\ \A s \in PayoutSessions \ serving : payoutPc[s] = "idle"

MCInit == Init /\ serving \in {{s1, s2}, {s1, s3}}

MCNext == Next /\ UNCHANGED serving /\ Idle'

MCSpec == MCInit /\ [][MCNext]_<<vars, serving>> /\ Lending!Fairness /\ Paying!Fairness
=============================================================================
