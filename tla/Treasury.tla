------------------------------ MODULE Treasury -----------------------------
(***************************************************************************)
(* One Chama's Cash account shared by everything that moves it: loans      *)
(* (Loans), payouts (Payouts), and contributions, which bring cash in when *)
(* they are confirmed and take it out when they are reversed               *)
(* (app/services/contribution.py), without asking how much there is.       *)
(* Disbursements and payout completions are admitted against the account   *)
(* under its row lock (app/services/finance.py).                           *)
(***************************************************************************)
EXTENDS Integers, FiniteSets, Functions

CONSTANTS
  LoanSessions, PayoutSessions,
  Loans, Repayments, Amounts, BorrowerOf, PrincipalOf,
  Payouts, OwnerOf, AmountOf,
  Contributions, ContributionAmountOf,
  Members, ShareValueOf,
  None

ASSUME TreasuryAssumption ==
  /\ LoanSessions \cap PayoutSessions = {}
  /\ ContributionAmountOf \in [Contributions -> Nat]

VARIABLES
  cash, cashLock,
  loanStatus, loanApprovedBy, repayment, loanLedger, rowLock, loanPc, loanTask,
  payoutStatus, payoutApprovedBy, payoutLedger, payoutPc, payoutTask,
  contributionLedger   \* sources posted: <<"CONFIRMATION", c>>, <<"REVERSAL", c>>

loanVars == <<loanStatus, loanApprovedBy, repayment, loanLedger, rowLock, loanPc, loanTask>>
payoutVars == <<payoutStatus, payoutApprovedBy, payoutLedger, payoutPc, payoutTask>>
vars == <<cash, cashLock, loanVars, payoutVars, contributionLedger>>

Lending == INSTANCE Loans WITH
  Sessions <- LoanSessions, OpeningCash <- 0, status <- loanStatus,
  approvedBy <- loanApprovedBy, ledger <- loanLedger, pc <- loanPc, task <- loanTask

Paying == INSTANCE Payouts WITH
  Sessions <- PayoutSessions, OpeningCash <- 0, status <- payoutStatus,
  approvedBy <- payoutApprovedBy, ledger <- payoutLedger, pc <- payoutPc, task <- payoutTask

ASSUME ServicesAssumption == Lending!LoanAssumption /\ Paying!PayoutAssumption

Init ==
  /\ Lending!Init
  /\ Paying!Init
  /\ contributionLedger = {}

(* ContributionService._settle, as far as cash goes.                       *)
ConfirmContribution(c) ==
  /\ <<"CONFIRMATION", c>> \notin contributionLedger
  /\ cashLock = None
  /\ cash' = cash + ContributionAmountOf[c]
  /\ contributionLedger' = contributionLedger \cup {<<"CONFIRMATION", c>>}
  /\ UNCHANGED <<cashLock, loanVars, payoutVars>>

(* Bug: a retry reverses again.                                            *)
ReverseContributionAgain(c) ==
  /\ <<"CONFIRMATION", c>> \in contributionLedger
  /\ cashLock = None
  /\ cash' = cash - ContributionAmountOf[c]
  /\ contributionLedger' = contributionLedger \cup {<<"REVERSAL", c>>}
  /\ UNCHANGED <<cashLock, loanVars, payoutVars>>

(* ContributionService.reverse, as far as cash goes.                       *)
ReverseContribution(c) ==
  /\ <<"CONFIRMATION", c>> \in contributionLedger
  /\ <<"REVERSAL", c>> \notin contributionLedger
  /\ cashLock = None
  /\ cash' = cash - ContributionAmountOf[c]
  /\ contributionLedger' = contributionLedger \cup {<<"REVERSAL", c>>}
  /\ UNCHANGED <<cashLock, loanVars, payoutVars>>

Next ==
  \/ Lending!Next /\ UNCHANGED <<payoutVars, contributionLedger>>
  \/ Paying!Next /\ UNCHANGED <<loanVars, contributionLedger>>
  \/ \E c \in Contributions : ConfirmContribution(c) \/ ReverseContribution(c)

Spec == Init /\ [][Next]_vars

(* Requests of both services are served on, and the lock on the account    *)
(* they share is granted in turn.                                          *)
FairSpec == Spec /\ Lending!Fairness /\ Paying!Fairness
-----------------------------------------------------------------------------
StandingContributions ==
  {c \in Contributions : /\ <<"CONFIRMATION", c>> \in contributionLedger
                         /\ <<"REVERSAL", c>> \notin contributionLedger}

Contributed == SumFunction([c \in StandingContributions |-> ContributionAmountOf[c]])

(* Type invariant.                                                         *)
TypeOK ==
  /\ Lending!Typed
  /\ Paying!Typed
  /\ cashLock \in LoanSessions \cup PayoutSessions \cup {None}
  /\ contributionLedger \subseteq {"CONFIRMATION", "REVERSAL"} \X Contributions

(* "Concurrent disbursements/payout completions are serialized and cannot  *)
(* collectively overspend the Chama's cash" (LoanService.disburse,         *)
(* PayoutService.complete): an admission takes out only what is there,     *)
(* while repayments and contributions come in and are reversed.            *)
AdmissionsAreCovered ==
  [][\/ \E l \in Loans : <<"DISBURSEMENT", l>> \in loanLedger' \ loanLedger
     \/ \E p \in Payouts : <<"COMPLETION", p>> \in payoutLedger' \ payoutLedger
     => cash' >= 0]_vars

(* The cash that admissions are decided on is what the Chama's postings    *)
(* add up to: loans and payouts lose none of each other's movements.       *)
CashIsTheBalance == cash = Contributed + Lending!Balance + Paying!Balance

(* Nobody waits for ever for the account, whichever service holds it: a    *)
(* refused request gives the lock back, and of a disbursement and a        *)
(* repayment that wait for each other (disburse locks the account first,   *)
(* record_repayment the loan) one is aborted and the other goes on.        *)
RequestsEnd == Lending!RequestsEnd /\ Paying!RequestsEnd
-----------------------------------------------------------------------------
(* The inductive invariant: what each service knows of its own rows, and   *)
(* that whoever has been admitted holds the lock and is still covered.     *)
LendingInv == Lending!Inv /\ Lending!LockHolder /\ Lending!AdmittedCash
PayingInv == Paying!RequestsInv /\ Paying!LockHolder /\ Paying!AdmittedCash

FinitelyManyConfirmed ==
  IsFiniteSet({c \in Contributions : <<"CONFIRMATION", c>> \in contributionLedger})

ReversedWereConfirmed ==
  \A c \in Contributions :
    <<"REVERSAL", c>> \in contributionLedger => <<"CONFIRMATION", c>> \in contributionLedger

ContributionsInv ==
  /\ contributionLedger \subseteq {"CONFIRMATION", "REVERSAL"} \X Contributions
  /\ FinitelyManyConfirmed
  /\ ReversedWereConfirmed

Inv == TypeOK /\ LendingInv /\ PayingInv /\ ContributionsInv /\ CashIsTheBalance
=============================================================================
