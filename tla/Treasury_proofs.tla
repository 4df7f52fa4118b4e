-------------------------- MODULE Treasury_proofs --------------------------
(***************************************************************************)
(* Proofs about Treasury: what was proved of loans and of payouts alone    *)
(* carries over to the account they share.                                 *)
(*                                                                         *)
(* The proofs of each service are instantiated like the service itself.    *)
(* To the provers that instance (LP, PP) is another copy of the service's  *)
(* definitions, so the first part shows that the copies agree.             *)
(***************************************************************************)
EXTENDS Treasury, Sums_proofs

LP == INSTANCE Loans_proofs WITH
  Sessions <- LoanSessions, OpeningCash <- 0, status <- loanStatus,
  approvedBy <- loanApprovedBy, ledger <- loanLedger, pc <- loanPc, task <- loanTask

PP == INSTANCE Payouts_proofs WITH
  Sessions <- PayoutSessions, OpeningCash <- 0, status <- payoutStatus,
  approvedBy <- payoutApprovedBy, ledger <- payoutLedger, pc <- payoutPc, task <- payoutTask

-----------------------------------------------------------------------------
LEMMA SameSums ==
  ASSUME NEW f
  PROVE  /\ Lending!SumFunction(f) = LP!SumFunction(f)
         /\ Paying!SumFunction(f) = PP!SumFunction(f)
  BY DEF Lending!SumFunction, LP!SumFunction, Lending!SumFunctionOnSet,
         LP!SumFunctionOnSet, Lending!FoldFunctionOnSet,
         LP!FoldFunctionOnSet, Lending!MapThenFoldSet, LP!MapThenFoldSet,
         Paying!SumFunction, PP!SumFunction, Paying!SumFunctionOnSet,
         PP!SumFunctionOnSet, Paying!FoldFunctionOnSet,
         PP!FoldFunctionOnSet, Paying!MapThenFoldSet, PP!MapThenFoldSet

LEMMA SameFiniteSets ==
  ASSUME NEW S
  PROVE  /\ Lending!IsFiniteSet(S) <=> LP!IsFiniteSet(S)
         /\ Paying!IsFiniteSet(S) <=> PP!IsFiniteSet(S)
  BY DEF Lending!IsFiniteSet, LP!IsFiniteSet, Paying!IsFiniteSet, PP!IsFiniteSet

LEMMA ServiceConstants == LP!LoanAssumption /\ PP!PayoutAssumption
  BY ServicesAssumption
     DEF Lending!LoanAssumption, LP!LoanAssumption, Lending!RepaymentRows,
         LP!RepaymentRows,
         Paying!PayoutAssumption, PP!PayoutAssumption

LEMMA SamePaid ==
  ASSUME NEW l
  PROVE  /\ Lending!PaidInterest(l) = LP!PaidInterest(l)
         /\ Lending!PaidPrincipal(l) = LP!PaidPrincipal(l)
<1>1. Lending!PaidInterest(l) = LP!PaidInterest(l)
  BY SameSums DEF Lending!PaidInterest, LP!PaidInterest, Lending!confirmed_by_loan,
                  LP!confirmed_by_loan
<1>2. Lending!PaidPrincipal(l) = LP!PaidPrincipal(l)
  BY SameSums DEF Lending!PaidPrincipal, LP!PaidPrincipal,
                  Lending!confirmed_by_loan, LP!confirmed_by_loan
<1>3. QED
  BY <1>1, <1>2

LentAlike == Lending!Balance = LP!Balance
PaidAlike == Paying!Balance = PP!Balance

LEMMA SameLendingBalance == LentAlike
  BY SameSums
     DEF LentAlike, Lending!Balance, LP!Balance, Lending!StandingReceipts,
                    LP!StandingReceipts, Lending!DisbursedLoans,
                    LP!DisbursedLoans, Lending!Disbursement,
                    LP!Disbursement, Lending!Receipt,
                    LP!Receipt, Lending!Reversal, LP!Reversal

LEMMA SameLendingInv == Lending!Inv <=> LP!Inv
<1>1. Lending!Typed <=> LP!Typed
  BY DEF Lending!Typed, LP!Typed, Lending!Statuses, LP!Statuses, Lending!Labels,
         LP!Labels, Lending!Tasks, LP!Tasks, Lending!RepaymentRows,
         LP!RepaymentRows, Lending!Operations, LP!Operations,
         Lending!Transitions, LP!Transitions, Lending!Disbursement,
         LP!Disbursement, Lending!Receipt, LP!Receipt, Lending!Reversal,
         LP!Reversal
<1>2. Lending!RowsInv <=> LP!RowsInv
  <2>1. Lending!InterestIsPaidFirst <=> LP!InterestIsPaidFirst
    BY SamePaid DEF Lending!InterestIsPaidFirst, LP!InterestIsPaidFirst,
                    Lending!HasReversed, LP!HasReversed,
                    Lending!interest_for, LP!interest_for
  <2>2. Lending!FinitelyMany <=> LP!FinitelyMany
    BY SameFiniteSets DEF Lending!FinitelyMany, LP!FinitelyMany,
                          Lending!DisbursedLoans,
                          LP!DisbursedLoans,
                          Lending!Disbursement,
                          LP!Disbursement
  <2>3. QED
    BY <2>1, <2>2
       DEF Lending!RowsInv, LP!RowsInv, Lending!RowsAreBacked, LP!RowsAreBacked,
           Lending!NothingLentWithoutApproval,
           LP!NothingLentWithoutApproval, Lending!ApprovalOnRecord,
           LP!ApprovalOnRecord, Lending!Approved, LP!Approved,
           Lending!Disbursement, LP!Disbursement, Lending!Receipt,
           LP!Receipt, Lending!Reversal, LP!Reversal
<1>3. ASSUME NEW s \in LoanSessions
      PROVE  Lending!InFlight(s) <=> LP!InFlight(s)
  <2>1. Lending!InterestInFlight(s) <=> LP!InterestInFlight(s)
    BY SamePaid DEF Lending!InterestInFlight, LP!InterestInFlight,
                    Lending!HasReversed, LP!HasReversed,
                    Lending!interest_for, LP!interest_for
  <2>2. QED
    BY <2>1
       DEF Lending!InFlight, LP!InFlight, Lending!TaskInFlight, LP!TaskInFlight,
           Lending!RepaymentInFlight, LP!RepaymentInFlight,
           Lending!Repaying, LP!Repaying, Lending!ReversalInFlight,
           LP!ReversalInFlight, Lending!ApprovalInFlight,
           LP!ApprovalInFlight, Lending!Approved, LP!Approved,
           Lending!Statuses, LP!Statuses, Lending!Tasks, LP!Tasks,
           Lending!RepaymentRows, LP!RepaymentRows, Lending!Operations,
           LP!Operations, Lending!Transitions, LP!Transitions,
           Lending!Disbursement, LP!Disbursement, Lending!Reversal,
           LP!Reversal
<1>4. QED
  BY <1>1, <1>2, <1>3 DEF Lending!Inv, LP!Inv

LEMMA SameLendingNext == Lending!Next <=> LP!Next
<1>1. ASSUME NEW s \in LoanSessions
      PROVE  Lending!Start(s) <=> LP!Start(s)
  BY DEF Lending!Start, LP!Start, Lending!CheckLimit, LP!CheckLimit,
         Lending!BeginDisburse, LP!BeginDisburse, Lending!BeginRepay,
         LP!BeginRepay, Lending!BeginTransition, LP!BeginTransition,
         Lending!BeginReverse, LP!BeginReverse, Lending!Begin, LP!Begin,
         Lending!Request, LP!Request, Lending!Row, LP!Row, Lending!May,
         LP!May, Lending!Allowed, LP!Allowed, Lending!Goto, LP!Goto,
         Lending!Rows, LP!Rows, Lending!Locks, LP!Locks,
         Lending!Transitions, LP!Transitions
<1>2. ASSUME NEW s \in LoanSessions
      PROVE  Lending!Run(s) <=> LP!Run(s)
  <2>1. \A l : /\ Lending!OutstandingInterest(l) = LP!OutstandingInterest(l)
               /\ Lending!OutstandingPrincipal(l) = LP!OutstandingPrincipal(l)
    BY SamePaid
       DEF Lending!OutstandingInterest, LP!OutstandingInterest,
           Lending!OutstandingPrincipal, LP!OutstandingPrincipal,
           Lending!interest_for, LP!interest_for
  <2>2. Lending!ReadOwed(s) <=> LP!ReadOwed(s)
    BY <2>1
       DEF Lending!ReadOwed, LP!ReadOwed, Lending!interest_for, LP!interest_for,
           Lending!InterestPortion, LP!InterestPortion, Lending!Minimum,
           LP!Minimum, Lending!StatusFrom, LP!StatusFrom, Lending!Refuse,
           LP!Refuse, Lending!Finish, LP!Finish, Lending!Goto, LP!Goto,
           Lending!Rows, LP!Rows, Lending!Locks, LP!Locks
  <2>3. Lending!Recompute(s) <=> LP!Recompute(s)
    BY <2>1 DEF Lending!Recompute, LP!Recompute, Lending!interest_for,
                LP!interest_for, Lending!StatusFrom, LP!StatusFrom,
                Lending!Goto, LP!Goto, Lending!Rows, LP!Rows,
                Lending!Locks, LP!Locks
  <2>4. QED
    BY <2>2, <2>3
       DEF Lending!Run, LP!Run, Lending!CheckCash, LP!CheckCash, Lending!InsertLoan,
           LP!InsertLoan, Lending!RefuseDisburse, LP!RefuseDisburse,
           Lending!Admit, LP!Admit, Lending!PostDisbursement,
           LP!PostDisbursement, Lending!FindReversal, LP!FindReversal,
           Lending!AbortDeadlocked, LP!AbortDeadlocked, Lending!Cycle,
           LP!Cycle, Lending!Allowed, LP!Allowed, Lending!Refuse,
           LP!Refuse, Lending!Finish, LP!Finish, Lending!Goto, LP!Goto,
           Lending!Rows, LP!Rows, Lending!Locks, LP!Locks,
           Lending!Disbursement, LP!Disbursement, Lending!Reversal,
           LP!Reversal
<1>3. ASSUME NEW s \in LoanSessions
      PROVE  Lending!Wait(s) <=> LP!Wait(s)
  BY DEF Lending!Wait, LP!Wait, Lending!WriteStatus, LP!WriteStatus,
         Lending!LockCash, LP!LockCash, Lending!FlushDisbursed,
         LP!FlushDisbursed, Lending!FlushRepayment, LP!FlushRepayment,
         Lending!Changes, LP!Changes, Lending!PostRepayment,
         LP!PostRepayment, Lending!PostReversal, LP!PostReversal,
         Lending!MarkReversed, LP!MarkReversed, Lending!Allowed,
         LP!Allowed, Lending!Becomes, LP!Becomes, Lending!Finish,
         LP!Finish, Lending!Goto, LP!Goto, Lending!Rows, LP!Rows,
         Lending!Locks, LP!Locks, Lending!Receipt, LP!Receipt,
         Lending!Reversal, LP!Reversal
<1>4. ASSUME NEW s \in LoanSessions
      PROVE  Lending!Crash(s) <=> LP!Crash(s)
  BY DEF Lending!Crash, LP!Crash, Lending!Refuse, LP!Refuse, Lending!Finish,
         LP!Finish, Lending!Goto, LP!Goto, Lending!Rows, LP!Rows
<1>5. QED
  BY <1>1, <1>2, <1>3, <1>4 DEF Lending!Next, LP!Next

LEMMA SameLendingCash ==
  /\ Lending!LockHolder <=> LP!LockHolder
  /\ Lending!AdmittedCash <=> LP!AdmittedCash
  BY DEF Lending!LockHolder, LP!LockHolder, Lending!AdmittedCash, LP!AdmittedCash

LEMMA SamePayingBalance == PaidAlike
  BY SameSums DEF PaidAlike, Paying!Balance, PP!Balance, Paying!PaidOut, PP!PaidOut,
                             Paying!Completion,
                             PP!Completion,
                             Paying!Reversal,
                             PP!Reversal

LEMMA SamePayingInv == Paying!RequestsInv <=> PP!RequestsInv
<1>1. Paying!FinitelyMany <=> PP!FinitelyMany
  BY SameFiniteSets DEF Paying!FinitelyMany, PP!FinitelyMany, Paying!Completion,
                        PP!Completion
<1>2. QED
  BY <1>1
     DEF Paying!RequestsInv, PP!RequestsInv, Paying!Typed, PP!Typed,
         Paying!StatusIsBacked, PP!StatusIsBacked,
         Paying!NothingPaidWithoutApproval, PP!NothingPaidWithoutApproval,
         Paying!TasksInFlight, PP!TasksInFlight,
         Paying!WritersWereAdmitted, PP!WritersWereAdmitted,
         Paying!ApprovalOnRecord, PP!ApprovalOnRecord, Paying!PastApproval,
         PP!PastApproval, Paying!SeenCompleted, PP!SeenCompleted,
         Paying!Statuses, PP!Statuses, Paying!Labels, PP!Labels,
         Paying!Tasks, PP!Tasks, Paying!Operations, PP!Operations,
         Paying!Allowed, PP!Allowed, Paying!Completion, PP!Completion,
         Paying!Reversal, PP!Reversal

LEMMA SamePayingNext == Paying!Next <=> PP!Next
<1>1. ASSUME NEW s \in PayoutSessions
      PROVE  Paying!Start(s) <=> PP!Start(s)
  <2>1. \A m : Paying!AvailableShareValue(m) = PP!AvailableShareValue(m)
    BY SameSums DEF Paying!AvailableShareValue, PP!AvailableShareValue
  <2>2. QED
    BY <2>1 DEF Paying!Start, PP!Start, Paying!CheckShares, PP!CheckShares,
                Paying!Load, PP!Load, Paying!Goto, PP!Goto,
                Paying!Rows, PP!Rows, Paying!Operations,
                PP!Operations
<1>2. ASSUME NEW s \in PayoutSessions
      PROVE  Paying!Run(s) <=> PP!Run(s)
  BY DEF Paying!Run, PP!Run, Paying!CheckCash, PP!CheckCash, Paying!InsertRequest,
         PP!InsertRequest, Paying!CheckTransition, PP!CheckTransition,
         Paying!WriteStatus, PP!WriteStatus, Paying!CheckCompleted,
         PP!CheckCompleted, Paying!Admit, PP!Admit, Paying!PostCompletion,
         PP!PostCompletion, Paying!Refuse, PP!Refuse, Paying!Advance,
         PP!Advance, Paying!Finish, PP!Finish, Paying!Goto, PP!Goto,
         Paying!Rows, PP!Rows, Paying!Allowed, PP!Allowed, Paying!Becomes,
         PP!Becomes, Paying!Completion, PP!Completion
<1>3. ASSUME NEW s \in PayoutSessions
      PROVE  Paying!Wait(s) <=> PP!Wait(s)
  BY DEF Paying!Wait, PP!Wait, Paying!LockCash, PP!LockCash, Paying!PostReversal,
         PP!PostReversal, Paying!Goto, PP!Goto, Paying!Rows, PP!Rows,
         Paying!Reversal, PP!Reversal
<1>4. ASSUME NEW s \in PayoutSessions
      PROVE  Paying!Crash(s) <=> PP!Crash(s)
  BY DEF Paying!Crash, PP!Crash, Paying!Refuse, PP!Refuse, Paying!Finish, PP!Finish,
         Paying!Goto, PP!Goto, Paying!Rows, PP!Rows
<1>5. QED
  BY <1>1, <1>2, <1>3, <1>4 DEF Paying!Next, PP!Next

LEMMA SamePayingCash ==
  /\ Paying!LockHolder <=> PP!LockHolder
  /\ Paying!AdmittedCash <=> PP!AdmittedCash
  BY DEF Paying!LockHolder, PP!LockHolder, Paying!AdmittedCash, PP!AdmittedCash

-----------------------------------------------------------------------------
(* What a step of a service does to its own state and to the account.      *)
LendingStep ==
  /\ LendingInv'
  /\ cash' \in Int /\ Lending!Balance \in Int /\ Lending!Balance' \in Int
  /\ cash' = cash + (Lending!Balance' - Lending!Balance)
  /\ cashLock' = cashLock \/ {cashLock, cashLock'} \subseteq LoanSessions \cup {None}
  /\ cash' = cash \/ cashLock \in LoanSessions \cup {None}
  /\ \A l \in Loans : <<"DISBURSEMENT", l>> \in loanLedger' \ loanLedger => cash' >= 0

LEMMA LendingSteps == LendingInv /\ Lending!Next => LendingStep
<1> SUFFICES ASSUME LendingInv, Lending!Next PROVE LendingStep
  OBVIOUS
<1>1. LP!Inv /\ LP!LockHolder /\ LP!AdmittedCash /\ LP!Next
  BY SameLendingInv, SameLendingCash, SameLendingNext DEF LendingInv
<1>2. LP!Inv'
  BY <1>1, ServiceConstants, LP!NextInv
<1>3. LP!LockHolder' /\ (cashLock' = cashLock \/ {cashLock, cashLock'} \subseteq LoanSessions \cup {None})
  BY <1>1, ServiceConstants, LP!StepKeepsLockHolder
<1>4. LP!AdmittedCash'
  BY <1>1, ServiceConstants, LP!StepKeepsAdmittedCash
<1>5. LendingInv'
  <2>1. LP!Inv' /\ LP!LockHolder' /\ LP!AdmittedCash' => LendingInv'
    <3>1. LP!Inv /\ LP!LockHolder /\ LP!AdmittedCash => LendingInv
      BY SameLendingInv, SameLendingCash DEF LendingInv
    <3>2. QED
      BY <3>1, SameLendingInv, SameLendingCash, PTL DEF LendingInv
  <2>2. QED
    BY <1>2, <1>3, <1>4, <2>1
<1>6. /\ LP!Balance \in Int /\ LP!Balance' \in Int
      /\ cash' = cash + (LP!Balance' - LP!Balance)
  BY <1>1, ServiceConstants, LP!StepMovesBalance
<1>7. Lending!Balance = LP!Balance /\ Lending!Balance' = LP!Balance'
  <2>1. LentAlike /\ LentAlike'
    BY SameLendingBalance, PTL
  <2>2. QED
    BY <2>1 DEF LentAlike
<1>8. cash' = cash \/ cashLock \in LoanSessions \cup {None}
  BY <1>1, ServiceConstants, LP!StepRespectsLock
<1>9. \A l \in Loans : <<"DISBURSEMENT", l>> \in loanLedger' \ loanLedger => cash' >= 0
  BY <1>1, ServiceConstants, LP!DisbursementIsCovered DEF LP!Disbursement
<1>10. cash' \in Int
  BY <1>2 DEF LP!Inv, LP!Typed
<1>11. QED
  BY <1>3, <1>5, <1>6, <1>7, <1>8, <1>9, <1>10 DEF LendingStep

PayingStep ==
  /\ PayingInv'
  /\ cash' \in Int /\ Paying!Balance \in Int /\ Paying!Balance' \in Int
  /\ cash' = cash + (Paying!Balance' - Paying!Balance)
  /\ cashLock' = cashLock \/ {cashLock, cashLock'} \subseteq PayoutSessions \cup {None}
  /\ cash' = cash \/ cashLock \in PayoutSessions \cup {None}
  /\ \A p \in Payouts : <<"COMPLETION", p>> \in payoutLedger' \ payoutLedger => cash' >= 0

LEMMA PayingSteps == PayingInv /\ Paying!Next => PayingStep
<1> SUFFICES ASSUME PayingInv, Paying!Next PROVE PayingStep
  OBVIOUS
<1>1. PP!RequestsInv /\ PP!LockHolder /\ PP!AdmittedCash /\ PP!Next
  BY SamePayingInv, SamePayingCash, SamePayingNext DEF PayingInv
<1>2. PP!RequestsInv'
  BY <1>1, ServiceConstants, PP!RequestsNext
<1>3. PP!LockHolder' /\ (cashLock' = cashLock \/ {cashLock, cashLock'} \subseteq PayoutSessions \cup {None})
  BY <1>1, ServiceConstants, PP!StepKeepsLockHolder
<1>4. PP!AdmittedCash'
  BY <1>1, ServiceConstants, PP!StepKeepsAdmittedCash
<1>5. PayingInv'
  <2>1. PP!RequestsInv' /\ PP!LockHolder' /\ PP!AdmittedCash' => PayingInv'
    <3>1. PP!RequestsInv /\ PP!LockHolder /\ PP!AdmittedCash => PayingInv
      BY SamePayingInv, SamePayingCash DEF PayingInv
    <3>2. QED
      BY <3>1, SamePayingInv, SamePayingCash, PTL DEF PayingInv
  <2>2. QED
    BY <1>2, <1>3, <1>4, <2>1
<1>6. /\ PP!Balance \in Int /\ PP!Balance' \in Int
      /\ cash' = cash + (PP!Balance' - PP!Balance)
  <2>1. PP!FinitelyMany /\ PP!FinitelyMany' => PP!BalanceTyped /\ PP!BalanceTyped'
    BY ServiceConstants, PP!BalanceType, PTL
  <2>2. PP!BalanceTyped /\ PP!BalanceTyped'
    BY <1>1, <1>2, <2>1 DEF PP!RequestsInv
  <2>3. QED
    BY <1>1, <2>2, ServiceConstants, PP!StepMovesCash DEF PP!BalanceTyped
<1>7. Paying!Balance = PP!Balance /\ Paying!Balance' = PP!Balance'
  <2>1. PaidAlike /\ PaidAlike'
    BY SamePayingBalance, PTL
  <2>2. QED
    BY <2>1 DEF PaidAlike
<1>8. cash' = cash \/ cashLock \in PayoutSessions \cup {None}
  BY <1>1, ServiceConstants, PP!StepRespectsLock
<1>9. \A p \in Payouts : <<"COMPLETION", p>> \in payoutLedger' \ payoutLedger => cash' >= 0
  BY <1>1, ServiceConstants, PP!PostedIsCovered DEF PP!Completion
<1>10. cash' \in Int
  BY <1>2 DEF PP!RequestsInv, PP!Typed
<1>11. QED
  BY <1>3, <1>5, <1>6, <1>7, <1>8, <1>9, <1>10 DEF PayingStep

-----------------------------------------------------------------------------
(* What others do to the account leaves a service alone, as long as they   *)
(* ask for the lock.                                                       *)
AskForTheLock(S) ==
  /\ cash' \in Int
  /\ cashLock' = cashLock \/ {cashLock, cashLock'} \cap S = {}
  /\ cash' = cash \/ cashLock \notin S

LEMMA LendingRests ==
  ASSUME LendingInv, UNCHANGED loanVars, AskForTheLock(LoanSessions)
  PROVE  LendingInv' /\ Lending!Balance' = Lending!Balance /\ Lending!Balance \in Int
<1>1. LP!Inv
  BY SameLendingInv DEF LendingInv
<1>2. LP!Inv'
  BY <1>1, ServiceConstants, LP!OthersKeepInv DEF loanVars, AskForTheLock
<1>3. Lending!Inv'
  BY <1>2, SameLendingInv, PTL
<1>4. Lending!LockHolder' /\ Lending!AdmittedCash'
  BY DEF LendingInv, loanVars, AskForTheLock, Lending!LockHolder, Lending!AdmittedCash
<1>5. Lending!Balance' = Lending!Balance
  BY DEF loanVars, Lending!Balance, Lending!StandingReceipts, Lending!DisbursedLoans,
         Lending!Disbursement, Lending!Receipt, Lending!Reversal
<1>6. Lending!Balance \in Int
  BY <1>1, ServiceConstants, LP!BalanceType, SameLendingBalance DEF LentAlike, LP!BalanceTyped
<1>7. QED
  BY <1>3, <1>4, <1>5, <1>6 DEF LendingInv

LEMMA PayingRests ==
  ASSUME PayingInv, UNCHANGED payoutVars, AskForTheLock(PayoutSessions)
  PROVE  PayingInv' /\ Paying!Balance' = Paying!Balance /\ Paying!Balance \in Int
<1>1. PP!RequestsInv
  BY SamePayingInv DEF PayingInv
<1>2. PP!RequestsInv'
  BY <1>1, ServiceConstants, PP!OthersKeepRequests DEF payoutVars, AskForTheLock
<1>3. Paying!RequestsInv'
  BY <1>2, SamePayingInv, PTL
<1>4. Paying!LockHolder' /\ Paying!AdmittedCash'
  BY DEF PayingInv, payoutVars, AskForTheLock, Paying!LockHolder, Paying!AdmittedCash
<1>5. Paying!Balance' = Paying!Balance
  BY DEF payoutVars, Paying!Balance, Paying!PaidOut, Paying!Completion, Paying!Reversal
<1>6. Paying!Balance \in Int
  BY <1>1, ServiceConstants, PP!BalanceType, SamePayingBalance
     DEF PaidAlike, PP!BalanceTyped, PP!RequestsInv
<1>7. QED
  BY <1>3, <1>4, <1>5, <1>6 DEF PayingInv

(* The same of the contributions.                                          *)
LEMMA ContributionsRest ==
  ASSUME ContributionsInv, UNCHANGED contributionLedger
  PROVE  ContributionsInv' /\ Contributed' = Contributed
  BY DEF ContributionsInv, FinitelyManyConfirmed, ReversedWereConfirmed, Contributed,
         StandingContributions

Shares == [c \in StandingContributions |-> ContributionAmountOf[c]]

SharesTyped ==
  /\ Contributed = SumFunction(Shares) /\ Contributed \in Int
  /\ DOMAIN Shares = StandingContributions /\ IsFiniteSet(StandingContributions)
  /\ \A c \in StandingContributions :
       Shares[c] = ContributionAmountOf[c] /\ Shares[c] \in Int

LEMMA SharesType == FinitelyManyConfirmed => SharesTyped
<1> SUFFICES ASSUME FinitelyManyConfirmed PROVE SharesTyped
  OBVIOUS
<1>1. IsFiniteSet(StandingContributions)
  <2>1. StandingContributions
          \subseteq {c \in Contributions : <<"CONFIRMATION", c>> \in contributionLedger}
    BY DEF StandingContributions
  <2>2. QED
    BY <2>1, FS_Subset DEF FinitelyManyConfirmed
<1>2. /\ DOMAIN Shares = StandingContributions
      /\ \A c \in StandingContributions :
           Shares[c] = ContributionAmountOf[c] /\ Shares[c] \in Int
  BY TreasuryAssumption DEF StandingContributions, Shares
<1>3. SumFunction(Shares) \in Int
  BY <1>1, <1>2, TotalType
<1>4. QED
  BY <1>1, <1>2, <1>3 DEF SharesTyped, Contributed, Shares

LEMMA ConfirmationAdds ==
  ASSUME ContributionsInv, NEW c \in Contributions, ConfirmContribution(c)
  PROVE  /\ ContributionsInv'
         /\ Contributed \in Int /\ Contributed' = Contributed + ContributionAmountOf[c]
<1>1. StandingContributions' = StandingContributions \cup {c} /\ c \notin StandingContributions
  BY DEF ConfirmContribution, ContributionsInv, ReversedWereConfirmed, StandingContributions
<1>2. {d \in Contributions : <<"CONFIRMATION", d>> \in contributionLedger'}
        = {d \in Contributions : <<"CONFIRMATION", d>> \in contributionLedger} \cup {c}
  BY DEF ConfirmContribution
<1>3. FinitelyManyConfirmed'
  <2>1. PICK S : S = {d \in Contributions : <<"CONFIRMATION", d>> \in contributionLedger}
    OBVIOUS
  <2>2. IsFiniteSet(S)
    BY <2>1 DEF ContributionsInv, FinitelyManyConfirmed
  <2>3. S \cup {c} = {d \in Contributions : <<"CONFIRMATION", d>> \in contributionLedger'}
    BY <1>2, <2>1
  <2>4. IsFiniteSet(S \cup {c})
    BY <2>2, FS_AddElement
  <2>5. QED
    BY <2>3, <2>4 DEF FinitelyManyConfirmed
<1>4. ContributionsInv'
  BY <1>3 DEF ConfirmContribution, ContributionsInv, ReversedWereConfirmed
<1>5. SharesTyped /\ SharesTyped'
  BY <1>3, SharesType, PTL DEF ContributionsInv
<1>6. PICK next : next = Shares'
  OBVIOUS
<1>7. SumFunction(next) = SumFunction(Shares) + next[c]
  BY <1>1, <1>5, <1>6, TotalAdds DEF SharesTyped
<1>8. QED
  BY <1>1, <1>4, <1>5, <1>6, <1>7 DEF SharesTyped

LEMMA ReversalTakes ==
  ASSUME ContributionsInv, NEW c \in Contributions, ReverseContribution(c)
  PROVE  /\ ContributionsInv'
         /\ Contributed \in Int /\ Contributed = Contributed' + ContributionAmountOf[c]
         /\ Contributed' \in Int
<1>1. StandingContributions = StandingContributions' \cup {c} /\ c \notin StandingContributions'
  BY DEF ReverseContribution, ContributionsInv, ReversedWereConfirmed, StandingContributions
<1>2. {d \in Contributions : <<"CONFIRMATION", d>> \in contributionLedger'}
        = {d \in Contributions : <<"CONFIRMATION", d>> \in contributionLedger}
  BY DEF ReverseContribution
<1>3. FinitelyManyConfirmed'
  <2>1. PICK S : S = {d \in Contributions : <<"CONFIRMATION", d>> \in contributionLedger}
    OBVIOUS
  <2>2. IsFiniteSet(S)
    BY <2>1 DEF ContributionsInv, FinitelyManyConfirmed
  <2>3. S = {d \in Contributions : <<"CONFIRMATION", d>> \in contributionLedger'}
    BY <1>2, <2>1
  <2>4. QED
    BY <2>2, <2>3 DEF FinitelyManyConfirmed
<1>4. ContributionsInv'
  BY <1>3 DEF ReverseContribution, ContributionsInv, ReversedWereConfirmed
<1>5. SharesTyped /\ SharesTyped'
  BY <1>3, SharesType, PTL DEF ContributionsInv
<1>6. PICK next : next = Shares'
  OBVIOUS
<1>7. SumFunction(Shares) = SumFunction(next) + Shares[c]
  BY <1>1, <1>5, <1>6, TotalAdds DEF SharesTyped
<1>8. QED
  BY <1>1, <1>4, <1>5, <1>6, <1>7 DEF SharesTyped

-----------------------------------------------------------------------------
THEOREM InitInv == Init => Inv
<1> SUFFICES ASSUME Init PROVE Inv
  OBVIOUS
<1>1. Lending!Init /\ Paying!Init /\ contributionLedger = {}
  BY DEF Init
<1>2. LP!Init /\ PP!Init
  BY <1>1 DEF Lending!Init, LP!Init, Paying!Init, PP!Init
<1>3. LendingInv
  <2>1. Lending!Inv
    BY <1>2, ServiceConstants, LP!InitInv, SameLendingInv
  <2>2. QED
    BY <1>1, <2>1, ServiceConstants
       DEF Lending!Init, LendingInv, Lending!LockHolder, Lending!AdmittedCash, LP!LoanAssumption
<1>4. PayingInv
  <2>1. PP!Inv
    BY <1>2, ServiceConstants, PP!InitInv
  <2>2. QED
    BY <2>1, SamePayingInv, SamePayingCash DEF PayingInv, PP!Inv
<1>5. StandingContributions = {} /\ FinitelyManyConfirmed
  <2>1. {c \in Contributions : <<"CONFIRMATION", c>> \in contributionLedger} = {}
    BY <1>1
  <2>2. QED
    BY <2>1, FS_EmptySet DEF StandingContributions, FinitelyManyConfirmed
<1>6. CashIsTheBalance
  <2>1. Contributed = 0
    BY <1>5, SharesType, TotalOfNothing DEF SharesTyped
  <2>2. cash = 0 + LP!Balance /\ cash = 0 + PP!Balance
    BY <1>2, ServiceConstants, LP!CashInit, PP!InitInv
       DEF LP!CashIsTheBalance, PP!Inv, PP!CashIsTheBalance
  <2>3. cash = 0 /\ LP!Balance \in Int /\ PP!Balance \in Int
    BY <1>1, <1>2, ServiceConstants, LP!InitInv, PP!InitInv, LP!BalanceType, PP!BalanceType
       DEF Lending!Init, LP!BalanceTyped, PP!BalanceTyped, PP!Inv, PP!RequestsInv
  <2>4. QED
    BY <2>1, <2>2, <2>3, SameLendingBalance, SamePayingBalance
       DEF CashIsTheBalance, LentAlike, PaidAlike
<1>7. ContributionsInv
  BY <1>1, <1>5 DEF ContributionsInv, ReversedWereConfirmed
<1>8. TypeOK
  BY <1>1, <1>3, <1>4, <1>7
     DEF TypeOK, LendingInv, PayingInv, ContributionsInv, Lending!Inv, Paying!RequestsInv,
         Lending!Init
<1>9. QED
  BY <1>3, <1>4, <1>6, <1>7, <1>8 DEF Inv

THEOREM NextInv == Inv /\ [Next]_vars => Inv'
<1> SUFFICES ASSUME Inv, [Next]_vars PROVE Inv'
  OBVIOUS
<1>1. cash \in Int
  BY DEF Inv, TypeOK, Lending!Typed
<1>2. CASE Lending!Next /\ UNCHANGED <<payoutVars, contributionLedger>>
  <2>1. LendingStep
    BY <1>2, LendingSteps DEF Inv
  <2>2. AskForTheLock(PayoutSessions)
    BY <2>1, TreasuryAssumption, ServiceConstants DEF LendingStep, AskForTheLock, PP!PayoutAssumption
  <2>3. PayingInv' /\ Paying!Balance' = Paying!Balance /\ Paying!Balance \in Int
    BY <1>2, <2>2, PayingRests DEF Inv
  <2>4. ContributionsInv' /\ Contributed' = Contributed /\ Contributed \in Int
    BY <1>2, ContributionsRest, SharesType DEF Inv, SharesTyped, ContributionsInv
  <2>5. CashIsTheBalance'
    BY <1>1, <2>1, <2>3, <2>4 DEF Inv, CashIsTheBalance, LendingStep
  <2>6. TypeOK'
    BY <2>1, <2>3, <2>4
       DEF Inv, TypeOK, LendingStep, LendingInv, PayingInv, ContributionsInv, Lending!Inv,
           Paying!RequestsInv
  <2>7. QED
    BY <2>1, <2>3, <2>4, <2>5, <2>6 DEF Inv, LendingStep
<1>3. CASE Paying!Next /\ UNCHANGED <<loanVars, contributionLedger>>
  <2>1. PayingStep
    BY <1>3, PayingSteps DEF Inv
  <2>2. AskForTheLock(LoanSessions)
    BY <2>1, TreasuryAssumption, ServiceConstants DEF PayingStep, AskForTheLock, LP!LoanAssumption
  <2>3. LendingInv' /\ Lending!Balance' = Lending!Balance /\ Lending!Balance \in Int
    BY <1>3, <2>2, LendingRests DEF Inv
  <2>4. ContributionsInv' /\ Contributed' = Contributed /\ Contributed \in Int
    BY <1>3, ContributionsRest, SharesType DEF Inv, SharesTyped, ContributionsInv
  <2>5. CashIsTheBalance'
    BY <1>1, <2>1, <2>3, <2>4 DEF Inv, CashIsTheBalance, PayingStep
  <2>6. TypeOK'
    BY <2>1, <2>3, <2>4
       DEF Inv, TypeOK, PayingStep, LendingInv, PayingInv, ContributionsInv, Lending!Inv,
           Paying!RequestsInv
  <2>7. QED
    BY <2>1, <2>3, <2>4, <2>5, <2>6 DEF Inv, PayingStep
<1>4. ASSUME NEW c \in Contributions, ConfirmContribution(c) \/ ReverseContribution(c)
      PROVE  Inv'
  <2>1. ContributionAmountOf[c] \in Nat
    BY TreasuryAssumption
  <2>2. /\ ContributionsInv' /\ Contributed \in Int /\ Contributed' \in Int
        /\ cash' = cash + (Contributed' - Contributed)
    BY <1>1, <1>4, <2>1, ConfirmationAdds, ReversalTakes
       DEF Inv, ConfirmContribution, ReverseContribution
  <2>3. /\ UNCHANGED <<cashLock, loanVars, payoutVars>> /\ cashLock = None
        /\ cash' \in Int
    BY <1>1, <1>4, <2>1 DEF ConfirmContribution, ReverseContribution
  <2>4. AskForTheLock(LoanSessions) /\ AskForTheLock(PayoutSessions)
    BY <2>3, ServiceConstants DEF AskForTheLock, LP!LoanAssumption, PP!PayoutAssumption
  <2>5. /\ LendingInv' /\ Lending!Balance' = Lending!Balance /\ Lending!Balance \in Int
        /\ PayingInv' /\ Paying!Balance' = Paying!Balance /\ Paying!Balance \in Int
    BY <2>3, <2>4, LendingRests, PayingRests DEF Inv
  <2>6. CashIsTheBalance'
    BY <1>1, <2>2, <2>5 DEF Inv, CashIsTheBalance
  <2>7. TypeOK'
    BY <2>2, <2>3, <2>5
       DEF Inv, TypeOK, LendingInv, PayingInv, ContributionsInv, Lending!Inv, Paying!RequestsInv
  <2>8. QED
    BY <2>2, <2>5, <2>6, <2>7 DEF Inv
<1>5. CASE UNCHANGED vars
  <2>1. AskForTheLock(LoanSessions) /\ AskForTheLock(PayoutSessions)
    BY <1>1, <1>5 DEF vars, AskForTheLock
  <2>2. /\ LendingInv' /\ Lending!Balance' = Lending!Balance
        /\ PayingInv' /\ Paying!Balance' = Paying!Balance
    BY <1>5, <2>1, LendingRests, PayingRests DEF Inv, vars
  <2>3. ContributionsInv' /\ Contributed' = Contributed
    BY <1>5, ContributionsRest DEF Inv, vars
  <2>4. QED
    BY <1>5, <2>2, <2>3
       DEF Inv, vars, CashIsTheBalance, TypeOK, LendingInv, PayingInv, ContributionsInv,
           Lending!Inv, Paying!RequestsInv
<1>6. QED
  BY <1>2, <1>3, <1>4, <1>5 DEF Next

THEOREM SpecInv == Spec => []Inv
  BY InitInv, NextInv, PTL DEF Spec

-----------------------------------------------------------------------------
(* Rows, postings, sessions and locks of both services have their types    *)
(* while they share the account.                                           *)
THEOREM TypeCorrect == Spec => []TypeOK
<1>1. Inv => TypeOK
  BY DEF Inv
<1>2. QED
  BY <1>1, SpecInv, PTL

(* The cash that loans and payouts are admitted on is what the postings of *)
(* both of them and of the contributions add up to.                        *)
THEOREM CashIsWhatWasPosted == Spec => []CashIsTheBalance
<1>1. Inv => CashIsTheBalance
  BY DEF Inv
<1>2. QED
  BY <1>1, SpecInv, PTL

(* No loan and no payout is paid out of cash that is not there, whichever  *)
(* of the two services admits it and whatever the other one, repayments    *)
(* and contributions do in between.                                        *)
THEOREM AdmissionsCovered == Spec => AdmissionsAreCovered
<1> DEFINE Covered ==
      \/ \E l \in Loans : <<"DISBURSEMENT", l>> \in loanLedger' \ loanLedger
      \/ \E p \in Payouts : <<"COMPLETION", p>> \in payoutLedger' \ payoutLedger
      => cash' >= 0
<1>1. Inv /\ [Next]_vars => Covered
  <2> SUFFICES ASSUME Inv, [Next]_vars PROVE Covered
    OBVIOUS
  <2>1. CASE Lending!Next /\ UNCHANGED <<payoutVars, contributionLedger>>
    BY <2>1, LendingSteps DEF Inv, LendingStep, payoutVars
  <2>2. CASE Paying!Next /\ UNCHANGED <<loanVars, contributionLedger>>
    BY <2>2, PayingSteps DEF Inv, PayingStep, loanVars
  <2>3. CASE UNCHANGED <<loanVars, payoutVars>>
    BY <2>3 DEF loanVars, payoutVars
  <2>4. QED
    BY <2>1, <2>2, <2>3 DEF Next, vars, ConfirmContribution, ReverseContribution
<1> HIDE DEF Covered
<1>2. [][Covered]_vars => AdmissionsAreCovered
  BY DEF Covered, AdmissionsAreCovered
<1>3. QED
  BY <1>1, <1>2, SpecInv, PTL DEF Spec
=============================================================================
