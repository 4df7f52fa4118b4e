------------------------------- MODULE Loans -------------------------------
(***************************************************************************)
(* Loans, their repayments and the cash they move, translated from         *)
(* LoanService (app/services/loan.py) and app/services/finance.py on       *)
(* PostgreSQL, with sessions as app/db/session.py makes them               *)
(* (autoflush=False, expire_on_commit=False).                              *)
(*                                                                         *)
(* A session tests the status it loaded; the UPDATE it later commits names *)
(* the row by id, and is only sent when the status it sets differs from    *)
(* the one it loaded.  A flushed UPDATE locks the loan row and             *)
(* lock_cash_account locks the Chama's Cash account row, both to the end   *)
(* of the transaction; any posting to Cash waits while another transaction *)
(* holds the account.  A request that is refused on what it has loaded     *)
(* leaves no trace, so such a test is the guard of the step that loads.    *)
(*                                                                         *)
(* Left out: roles, tenure, terms and dates, and the audit trail.  Amounts *)
(* are cents.                                                              *)
(***************************************************************************)
EXTENDS Integers, FiniteSets, Functions

CONSTANTS
  Sessions,
  Loans,        \* ids of loans that may be applied for
  Repayments,   \* ids of repayments that may be recorded
  Amounts,      \* what a repayment may bring
  Members,
  BorrowerOf,
  PrincipalOf,
  ShareValueOf, \* ShareValueOf[m]: units of ACTIVE shares at the unit price
  OpeningCash,
  None

RepaymentRows ==
  [loan : Loans, amount : Amounts, interest : Nat, status : {"CONFIRMED", "REVERSED"}]

ASSUME LoanAssumption ==
  /\ None \notin Sessions /\ None \notin Members
  /\ None \notin Loans /\ None \notin Repayments /\ None \notin RepaymentRows
  /\ Amounts \subseteq Nat \ {0}
  /\ BorrowerOf \in [Loans -> Members]
  /\ PrincipalOf \in [Loans -> Nat \ {0}]
  /\ ShareValueOf \in [Members -> Nat]
  /\ OpeningCash \in Nat

VARIABLES
  status,     \* loans.status, "ABSENT" when there is no row
  approvedBy, \* loans.approved_by_user_id
  repayment,  \* repayment[i]: the loan_repayments row, or None
  ledger,     \* sources posted: <<kind, loan or repayment>>
  cash,       \* available_chama_cash: the sum of the Chama's Cash entries
  cashLock,   \* the session that has locked the Cash account, or None
  rowLock,    \* rowLock[l]: the session with a flushed UPDATE of l, or None
  pc,         \* where each session is
  task        \* its request

vars == <<status, approvedBy, repayment, ledger, cash, cashLock, rowLock, pc, task>>

Rows == <<status, approvedBy, repayment, ledger, cash>>
Locks == <<cashLock, rowLock>>

Disbursement(l) == <<"DISBURSEMENT", l>>
Receipt(i) == <<"REPAYMENT", i>>
Reversal(i) == <<"REVERSAL", i>>

Statuses == {"ABSENT", "DRAFT", "SUBMITTED", "APPROVED", "REJECTED", "CANCELLED",
             "DISBURSED", "PARTIALLY_REPAID", "REPAID"}
Transitions == {"submit", "approve", "reject", "cancel"}
Operations == {"apply", "disburse", "repay", "reverse"} \cup Transitions

(* interest_for: 5 % of the principal, rounded half up to the cent.        *)
interest_for(l) == (PrincipalOf[l] * 5 + 50) \div 100

Row(l, amount, interest, state) ==
  [loan |-> l, amount |-> amount, interest |-> interest, status |-> state]

confirmed_by_loan(l) ==
  {i \in Repayments : /\ repayment[i] # None
                      /\ repayment[i].loan = l
                      /\ repayment[i].status = "CONFIRMED"}

PaidInterest(l) == SumFunction([i \in confirmed_by_loan(l) |-> repayment[i].interest])
PaidPrincipal(l) ==
  SumFunction([i \in confirmed_by_loan(l) |-> repayment[i].amount - repayment[i].interest])

(* outstanding_for                                                         *)
OutstandingInterest(l) == interest_for(l) - PaidInterest(l)
OutstandingPrincipal(l) == PrincipalOf[l] - PaidPrincipal(l)
Owed(l) == OutstandingPrincipal(l) + OutstandingInterest(l)

(* _status_from_outstanding                                                *)
StatusFrom(l, principal, interest) ==
  IF principal <= 0 /\ interest <= 0 THEN "REPAID"
  ELSE IF principal = PrincipalOf[l] /\ interest = interest_for(l) THEN "DISBURSED"
  ELSE "PARTIALLY_REPAID"

Init ==
  /\ status = [l \in Loans |-> "ABSENT"]
  /\ approvedBy = [l \in Loans |-> None]
  /\ repayment = [i \in Repayments |-> None]
  /\ ledger = {}
  /\ cash = OpeningCash
  /\ cashLock = None
  /\ rowLock = [l \in Loans |-> None]
  /\ pc = [s \in Sessions |-> "idle"]
  /\ task = [s \in Sessions |-> None]

Goto(s, label) == pc' = [pc EXCEPT ![s] = label]

(* The request a session serves, with the status it loaded; the portions   *)
(* and the status to be written are filled in when they are computed.      *)
Request(l, operation, actor, id, row) ==
  [op |-> operation, loan |-> l, seen |-> status[l], next |-> status[l],
   by |-> actor, id |-> id, row |-> row]

Begin(s, request, label) ==
  /\ pc[s] = "idle"
  /\ task' = [task EXCEPT ![s] = request]
  /\ Goto(s, label)
  /\ UNCHANGED <<Rows, Locks>>

(* The request is over, answered or refused: its transaction ends and with *)
(* it the locks it may hold.                                               *)
Finish(s) ==
  /\ Goto(s, "idle")
  /\ task' = [task EXCEPT ![s] = None]
  /\ cashLock' = IF cashLock = s THEN None ELSE cashLock
  /\ rowLock' = [l \in Loans |-> IF rowLock[l] = s THEN None ELSE rowLock[l]]

Refuse(s) == Finish(s) /\ UNCHANGED Rows

(* apply, _check_principal_limit: the share value ...                      *)
CheckLimit(s, l) ==
  /\ status[l] = "ABSENT"
  /\ \A t \in Sessions : pc[t] # "idle" => task[t].loan # l
  /\ PrincipalOf[l] <= 3 * ShareValueOf[BorrowerOf[l]]
  /\ Begin(s, Request(l, "apply", BorrowerOf[l], None, None), "cashCheck")

(* ... and the cash, without a lock.                                       *)
CheckCash(s) ==
  /\ pc[s] = "cashCheck"
  /\ IF PrincipalOf[task[s].loan] <= cash
     THEN Goto(s, "insert") /\ UNCHANGED <<Rows, Locks, task>>
     ELSE Refuse(s)

InsertLoan(s) ==
  /\ pc[s] = "insert"
  /\ status' = [status EXCEPT ![task[s].loan] = "DRAFT"]
  /\ Finish(s)
  /\ UNCHANGED <<approvedBy, repayment, ledger, cash>>

(* Bug: nothing keeps the borrower from approving.                         *)
MayByAnyone(operation, actor, l) ==
  operation = "submit" => actor = BorrowerOf[l]

(* Who may decide: submit is for the borrower, approve and reject are for  *)
(* somebody else (_forbid_self_action).                                    *)
May(operation, actor, l) ==
  /\ operation = "submit" => actor = BorrowerOf[l]
  /\ operation \in {"approve", "reject"} => actor # BorrowerOf[l]

Allowed(operation) ==
  CASE operation = "submit"  -> "DRAFT"
    [] operation = "approve" -> "SUBMITTED"
    [] operation = "reject"  -> "SUBMITTED"
    [] operation = "cancel"  -> "APPROVED"
    [] operation = "disburse" -> "APPROVED"

(* Bug: a status the enum does not have.                                   *)
BecomesWithdrawn(operation) ==
  CASE operation = "submit"  -> "SUBMITTED"
    [] operation = "approve" -> "APPROVED"
    [] operation = "reject"  -> "REJECTED"
    [] operation = "cancel"  -> "WITHDRAWN"

Becomes(operation) ==
  CASE operation = "submit"  -> "SUBMITTED"
    [] operation = "approve" -> "APPROVED"
    [] operation = "reject"  -> "REJECTED"
    [] operation = "cancel"  -> "CANCELLED"

(* submit, approve, reject, cancel: _transition on the loaded status.      *)
BeginTransition(s, l, operation, actor) ==
  /\ status[l] = Allowed(operation)
  /\ May(operation, actor, l)
  /\ Begin(s, Request(l, operation, actor, None, None), "write")

WriteStatus(s) ==
  LET l == task[s].loan IN
  /\ pc[s] = "write"
  /\ rowLock[l] = None
  /\ status' = [status EXCEPT ![l] = Becomes(task[s].op)]
  /\ approvedBy' = IF task[s].op = "approve" THEN [approvedBy EXCEPT ![l] = task[s].by]
                                             ELSE approvedBy
  /\ Finish(s)
  /\ UNCHANGED <<repayment, ledger, cash>>

(* disburse: a DISBURSED loan is the answer, any other goes for the lock.  *)
BeginDisburse(s, l) ==
  /\ status[l] \notin {"ABSENT", "DISBURSED"}
  /\ Begin(s, Request(l, "disburse", BorrowerOf[l], None, None), "lock")

(* Bug: SELECT without FOR UPDATE.                                         *)
SelectCash(s) ==
  /\ pc[s] = "lock"
  /\ Goto(s, "locked")
  /\ UNCHANGED <<Rows, Locks, task>>

(* lock_cash_account                                                       *)
LockCash(s) ==
  /\ pc[s] = "lock"
  /\ cashLock = None
  /\ cashLock' = s
  /\ Goto(s, "locked")
  /\ UNCHANGED <<Rows, rowLock, task>>

(* disburse, _transition: tested on the status loaded before the lock,     *)
(* then flushed, which waits for the loan row.                             *)
FlushDisbursed(s) ==
  LET l == task[s].loan IN
  /\ pc[s] = "locked"
  /\ task[s].seen = Allowed("disburse")
  /\ rowLock[l] = None
  /\ rowLock' = [rowLock EXCEPT ![l] = s]
  /\ Goto(s, "flushed")
  /\ UNCHANGED <<Rows, cashLock, task>>

RefuseDisburse(s) ==
  /\ pc[s] = "locked"
  /\ task[s].seen # Allowed("disburse")
  /\ Refuse(s)

Admit(s) ==
  /\ pc[s] = "flushed"
  /\ IF PrincipalOf[task[s].loan] <= cash
     THEN Goto(s, "post") /\ UNCHANGED <<Rows, Locks, task>>
     ELSE Refuse(s)

(* Bug: a retry pays the principal out again.                              *)
PostDisbursementAgain(s) ==
  LET l == task[s].loan IN
  /\ pc[s] = "post"
  /\ status' = [status EXCEPT ![l] = "DISBURSED"]
  /\ ledger' = ledger \cup {Disbursement(l)}
  /\ cash' = cash - PrincipalOf[l]
  /\ Finish(s)
  /\ UNCHANGED <<approvedBy, repayment>>

(* disburse, post_transaction: status and posting in one commit; or the    *)
(* posting is there already and the status is committed alone.             *)
PostDisbursement(s) ==
  LET l == task[s].loan IN
  /\ pc[s] = "post"
  /\ status' = [status EXCEPT ![l] = "DISBURSED"]
  /\ ledger' = ledger \cup {Disbursement(l)}
  /\ cash' = IF Disbursement(l) \in ledger THEN cash ELSE cash - PrincipalOf[l]
  /\ Finish(s)
  /\ UNCHANGED <<approvedBy, repayment>>

(* record_repayment, under a fresh id: the loaded status must take         *)
(* repayments ...                                                          *)
BeginRepay(s, l, i, amount) ==
  /\ status[l] \in {"DISBURSED", "PARTIALLY_REPAID"}
  /\ repayment[i] = None
  /\ \A t \in Sessions : pc[t] # "idle" => task[t].id # i
  /\ Begin(s, Request(l, "repay", BorrowerOf[l], i, Row(l, amount, 0, "CONFIRMED")), "owed")

Minimum(a, b) == IF a <= b THEN a ELSE b

(* Bug: the principal is paid before the interest.                         *)
InterestLast(amount, principal, interest) ==
  IF amount <= principal THEN 0 ELSE amount - principal

(* Interest first.                                                         *)
InterestPortion(amount, principal, interest) == Minimum(amount, interest)

(* ... then what is owed is read, the amount is tested against it and      *)
(* split, and the new status is computed.  A larger amount is refused, and *)
(* a negative portion fails the CHECK of the table.                        *)
ReadOwed(s) ==
  LET l == task[s].loan
      amount == task[s].row.amount
      principal == OutstandingPrincipal(l)
      interest == OutstandingInterest(l)
      portion == InterestPortion(amount, principal, interest) IN
  /\ pc[s] = "owed"
  /\ \/ /\ amount <= principal + interest
        /\ portion >= 0
        /\ task' = [task EXCEPT ![s].row.interest = portion,
                                ![s].next = StatusFrom(l, principal - (amount - portion),
                                                          interest - portion)]
        /\ Goto(s, "flush")
        /\ UNCHANGED <<Rows, Locks>>
     \/ /\ amount > principal + interest \/ portion < 0
        /\ Refuse(s)

Changes(s) == task[s].next # task[s].seen

(* record_repayment, flush: a new status locks the loan row.               *)
FlushRepayment(s) ==
  LET l == task[s].loan IN
  /\ pc[s] = "flush"
  /\ IF Changes(s)
     THEN rowLock[l] = None /\ rowLock' = [rowLock EXCEPT ![l] = s]
     ELSE UNCHANGED rowLock
  /\ Goto(s, "receive")
  /\ UNCHANGED <<Rows, cashLock, task>>

(* Bug: the repayment is committed after its posting.                      *)
PostRepaymentAlone(s) ==
  LET i == task[s].id IN
  /\ pc[s] = "receive"
  /\ cashLock = None
  /\ ledger' = ledger \cup {Receipt(i)}
  /\ cash' = cash + task[s].row.amount
  /\ Finish(s)
  /\ UNCHANGED <<status, approvedBy, repayment>>

(* record_repayment, post_transaction: the repayment, the status and the   *)
(* posting in one commit.                                                  *)
PostRepayment(s) ==
  LET i == task[s].id IN
  /\ pc[s] = "receive"
  /\ cashLock = None
  /\ repayment' = [repayment EXCEPT ![i] = task[s].row]
  /\ status' = IF Changes(s) THEN [status EXCEPT ![task[s].loan] = task[s].next] ELSE status
  /\ ledger' = ledger \cup {Receipt(i)}
  /\ cash' = cash + task[s].row.amount
  /\ Finish(s)
  /\ UNCHANGED approvedBy

(* reverse_repayment: the loaded repayment must be CONFIRMED; the status   *)
(* of the loan is not tested.                                              *)
BeginReverse(s, i) ==
  /\ repayment[i] # None
  /\ repayment[i].status = "CONFIRMED"
  /\ LET l == repayment[i].loan IN
     Begin(s, Request(l, "reverse", BorrowerOf[l], i, repayment[i]), "undo")

(* reverse_repayment, reverse_transaction: a commit of its own, which      *)
(* takes the money out again whether or not the cash is there.             *)
PostReversal(s) ==
  LET i == task[s].id IN
  /\ pc[s] = "undo"
  /\ cashLock = None
  /\ Reversal(i) \notin ledger
  /\ ledger' = ledger \cup {Reversal(i)}
  /\ cash' = cash - task[s].row.amount
  /\ Goto(s, "recompute")
  /\ UNCHANGED <<status, approvedBy, repayment, Locks, task>>

(* Another request has reversed it: found by the lookup, or only by the    *)
(* failed insert, whose rollback makes the session load the loan afresh.   *)
FindReversal(s) ==
  LET i == task[s].id
      l == task[s].loan IN
  /\ pc[s] = "undo"
  /\ Reversal(i) \in ledger
  /\ \/ UNCHANGED task
     \/ task' = [task EXCEPT ![s].seen = status[l], ![s].next = status[l]]
  /\ Goto(s, "recompute")
  /\ UNCHANGED <<Rows, Locks>>

(* _status_after_reversal: the query sees committed rows only, and the     *)
(* repayment just marked REVERSED in the session is not flushed.           *)
Recompute(s) ==
  LET l == task[s].loan IN
  /\ pc[s] = "recompute"
  /\ task' = [task EXCEPT ![s].next =
       StatusFrom(l, OutstandingPrincipal(l), OutstandingInterest(l))]
  /\ Goto(s, "mark")
  /\ UNCHANGED <<Rows, Locks>>

MarkReversed(s) ==
  LET l == task[s].loan IN
  /\ pc[s] = "mark"
  /\ Changes(s) => rowLock[l] = None
  /\ repayment' = [repayment EXCEPT ![task[s].id].status = "REVERSED"]
  /\ status' = IF Changes(s) THEN [status EXCEPT ![l] = task[s].next] ELSE status
  /\ Finish(s)
  /\ UNCHANGED <<approvedBy, ledger, cash>>

(* The process or its connection dies; PostgreSQL rolls back.              *)
Crash(s) == pc[s] # "idle" /\ Refuse(s)

(* A disbursement holds the Cash account and waits for the loan row, whose *)
(* holder, a repayment, waits for the Cash account: PostgreSQL finds the   *)
(* cycle and aborts one of them.                                           *)
Cycle(d, p) ==
  /\ pc[d] = "locked" /\ cashLock = d
  /\ pc[p] = "receive" /\ rowLock[task[d].loan] = p

(* Bug: nobody looks for the cycle, and both wait.                         *)
LeaveDeadlocked(s) == FALSE /\ Refuse(s)

AbortDeadlocked(s) == (\E t \in Sessions : Cycle(s, t) \/ Cycle(t, s)) /\ Refuse(s)

Start(s) ==
  \/ \E l \in Loans : CheckLimit(s, l) \/ BeginDisburse(s, l)
  \/ \E l \in Loans, i \in Repayments, amount \in Amounts : BeginRepay(s, l, i, amount)
  \/ \E l \in Loans, operation \in Transitions, m \in Members :
       BeginTransition(s, l, operation, m)
  \/ \E i \in Repayments : BeginReverse(s, i)

Run(s) ==
  \/ CheckCash(s)
  \/ InsertLoan(s)
  \/ RefuseDisburse(s)
  \/ Admit(s)
  \/ PostDisbursement(s)
  \/ ReadOwed(s)
  \/ FindReversal(s)
  \/ Recompute(s)
  \/ AbortDeadlocked(s)

(* Steps that may have to wait for a lock.                                 *)
Wait(s) ==
  \/ WriteStatus(s)
  \/ LockCash(s)
  \/ FlushDisbursed(s)
  \/ FlushRepayment(s)
  \/ PostRepayment(s)
  \/ PostReversal(s)
  \/ MarkReversed(s)

Next == \E s \in Sessions : Start(s) \/ Run(s) \/ Wait(s) \/ Crash(s)

Spec == Init /\ [][Next]_vars

(* A request that is being served is served on; PostgreSQL queues waiters  *)
(* for a row lock and resolves deadlocks.                                  *)
Fairness == \A s \in Sessions : WF_vars(Run(s)) /\ SF_vars(Wait(s))

FairSpec == Spec /\ Fairness
-----------------------------------------------------------------------------
Labels == {"idle", "cashCheck", "insert", "write", "lock", "locked", "flushed", "post",
           "owed", "flush", "receive", "undo", "recompute", "mark"}

Tasks ==
  [op : Operations, loan : Loans, seen : Statuses, next : Statuses, by : Members,
   row : RepaymentRows \cup {None}, id : Repayments \cup {None}]

Typed ==
  /\ status \in [Loans -> Statuses]
  /\ approvedBy \in [Loans -> Members \cup {None}]
  /\ \A i \in Repayments :
       repayment[i] # None => /\ repayment[i] \in RepaymentRows
                              /\ repayment[i].interest <= repayment[i].amount
  /\ DOMAIN repayment = Repayments
  /\ ledger \subseteq {Disbursement(l) : l \in Loans}
                        \cup {Receipt(i) : i \in Repayments} \cup {Reversal(i) : i \in Repayments}
  /\ cash \in Int
  /\ rowLock \in [Loans -> Sessions \cup {None}]
  /\ pc \in [Sessions -> Labels]
  /\ task \in [Sessions -> Tasks \cup {None}]

(* Type invariant; the portions of a repayment are what the CHECKs of the  *)
(* table demand.  No other service is there to hold the lock.              *)
TypeOK == Typed /\ cashLock \in Sessions \cup {None}

DisbursedLoans == {l \in Loans : Disbursement(l) \in ledger}
StandingReceipts == {i \in Repayments : Receipt(i) \in ledger /\ Reversal(i) \notin ledger}

(* What the postings of loans and repayments add up to.                    *)
Balance == SumFunction([i \in StandingReceipts |-> repayment[i].amount])
             - SumFunction([l \in DisbursedLoans |-> PrincipalOf[l]])

CashIsTheBalance == cash = OpeningCash + Balance

(* "A loan can never be DISBURSED without its ledger transaction"          *)
(* (LoanService.disburse), nor repaid in part or in full, nor have a       *)
(* repayment; a repayment is on the books exactly when its money is in the *)
(* ledger, and only a posted reversal marks it REVERSED.  The principal    *)
(* leaves the Chama once, each repayment comes in once and goes out once   *)
(* when it is reversed, however requests are retried ("idempotent ledger   *)
(* postings for disbursement and repayment").                              *)
RowsAreBacked ==
  /\ \A l \in Loans :
       status[l] \in {"DISBURSED", "PARTIALLY_REPAID", "REPAID"} => Disbursement(l) \in ledger
  /\ \A i \in Repayments :
       /\ repayment[i] # None <=> Receipt(i) \in ledger
       /\ repayment[i] # None => Disbursement(repayment[i].loan) \in ledger
       /\ repayment[i] # None /\ repayment[i].status = "REVERSED" => Reversal(i) \in ledger
       /\ Reversal(i) \in ledger => Receipt(i) \in ledger

BooksAreBacked == RowsAreBacked /\ CashIsTheBalance

Approved(l) == approvedBy[l] \in Members \ {BorrowerOf[l]}

(* No principal leaves without the approval of somebody other than the     *)
(* borrower (ADR-020), whatever requests overtake each other.              *)
NothingLentWithoutApproval ==
  \A l \in Loans : Disbursement(l) \in ledger => Approved(l)

HasReversed(l) ==
  \E i \in Repayments : /\ repayment[i] # None
                        /\ repayment[i].loan = l
                        /\ repayment[i].status = "REVERSED"

(* ADR-020: interest first, then principal.  As long as no repayment of    *)
(* the loan has been reversed, principal has been repaid only if all the   *)
(* interest has, also when repayments are recorded at the same time.       *)
InterestIsPaidFirst ==
  \A l \in Loans :
    PaidPrincipal(l) > 0 => PaidInterest(l) >= interest_for(l) \/ HasReversed(l)

(* Nobody waits for ever, and no deadlock stays.                           *)
RequestsEnd == \A s \in Sessions : pc[s] # "idle" ~> pc[s] = "idle"

(* ADR-020: the "`Repaid amount <= repayment obligation` invariant".       *)
NeverOverpaid ==
  \A l \in Loans : PaidPrincipal(l) + PaidInterest(l) <= PrincipalOf[l] + interest_for(l)

(* ADR-020: "a repayment reversal recomputes the loan status from the      *)
(* remaining confirmed repayments".                                        *)
StatusFollowsRepayments ==
  (\A s \in Sessions : pc[s] = "idle") =>
    \A l \in Loans :
      status[l] \in {"DISBURSED", "PARTIALLY_REPAID", "REPAID"} =>
        status[l] = StatusFrom(l, OutstandingPrincipal(l), OutstandingInterest(l))
-----------------------------------------------------------------------------
(* The inductive invariant: what a session knows at each label.  It says   *)
(* nothing of the cash and its lock, which other services use as well.     *)
TaskInFlight(s) ==
  /\ pc[s] # "idle" => task[s] \in Tasks
  /\ pc[s] = "write" => task[s].op \in Transitions
  /\ pc[s] \in {"flush", "receive", "mark"} =>
       task[s].next \in {"DISBURSED", "PARTIALLY_REPAID", "REPAID"}

(* A repayment that is being recorded has an id of its own and pays for a  *)
(* loan that was disbursed.                                                *)
Repaying == {s \in Sessions : pc[s] \in {"owed", "flush", "receive"}}

RepaymentInFlight(s) ==
  LET r == task[s].row IN
  s \in Repaying =>
    /\ task[s].id \in Repayments /\ repayment[task[s].id] = None
    /\ \A t \in Repaying : task[t].id = task[s].id => t = s
    /\ r \in RepaymentRows /\ r.interest <= r.amount
    /\ r.loan = task[s].loan /\ r.status = "CONFIRMED"
    /\ Disbursement(r.loan) \in ledger

(* If it pays principal, it pays the interest that was missing when the    *)
(* balance was read.                                                       *)
InterestInFlight(s) ==
  LET r == task[s].row IN
  \A l \in Loans :
    pc[s] \in {"flush", "receive"} /\ r.loan = l /\ r.amount > r.interest =>
      r.interest + PaidInterest(l) >= interest_for(l) \/ HasReversed(l)

(* A repayment that is being reversed is on the books as it was loaded,    *)
(* and is marked only behind its compensating posting.                     *)
ReversalInFlight(s) ==
  pc[s] \in {"undo", "recompute", "mark"} =>
    /\ task[s].id \in Repayments /\ repayment[task[s].id] # None
    /\ repayment[task[s].id].loan = task[s].loan
    /\ repayment[task[s].id].amount = task[s].row.amount
    /\ pc[s] # "undo" => Reversal(task[s].id) \in ledger

(* Wherever a loan is APPROVED, in the row or in a status that some        *)
(* session loaded, the approval is on record.                              *)
ApprovalInFlight(s) ==
  /\ pc[s] # "idle" /\ task[s].seen = "APPROVED" => Approved(task[s].loan)
  /\ pc[s] \in {"flushed", "post"} => task[s].seen = "APPROVED"
  /\ pc[s] = "write" /\ task[s].op = "approve" => task[s].by # BorrowerOf[task[s].loan]

ApprovalOnRecord == \A l \in Loans : status[l] = "APPROVED" => Approved(l)

InFlight(s) ==
  /\ TaskInFlight(s)
  /\ RepaymentInFlight(s)
  /\ InterestInFlight(s)
  /\ ReversalInFlight(s)
  /\ ApprovalInFlight(s)

FinitelyMany ==
  /\ IsFiniteSet(DisbursedLoans)
  /\ IsFiniteSet({i \in Repayments : repayment[i] # None})

RowsInv ==
  /\ RowsAreBacked
  /\ NothingLentWithoutApproval
  /\ InterestIsPaidFirst
  /\ ApprovalOnRecord
  /\ FinitelyMany

Inv == Typed /\ RowsInv /\ \A s \in Sessions : InFlight(s)

(* What holds of the Cash account as long as every other service asks for  *)
(* its lock: a loan that is admitted is covered.                           *)
LockHolder == \A s \in Sessions : cashLock = s <=> pc[s] \in {"locked", "flushed", "post"}

AdmittedCash == \A s \in Sessions : pc[s] = "post" => PrincipalOf[task[s].loan] <= cash
=============================================================================
