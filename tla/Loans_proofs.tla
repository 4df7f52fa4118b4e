---------------------------- MODULE Loans_proofs ----------------------------
(***************************************************************************)
(* Proofs about Loans, for any number of sessions, loans, repayments and   *)
(* members.                                                                *)
(***************************************************************************)
EXTENDS Loans, Sums_proofs

LEMMA SourcesDiffer ==
  ASSUME NEW a, NEW b
  PROVE  /\ Disbursement(a) # Receipt(b)
         /\ Disbursement(a) # Reversal(b)
         /\ Receipt(a) # Reversal(b)
         /\ Disbursement(a) = Disbursement(b) => a = b
         /\ Receipt(a) = Receipt(b) => a = b
         /\ Reversal(a) = Reversal(b) => a = b
  BY DEF Disbursement, Receipt, Reversal

LEMMA AmountsAreNatural ==
  /\ \A l \in Loans : PrincipalOf[l] \in Nat /\ BorrowerOf[l] \in Members
  /\ \A r \in RepaymentRows :
       r.loan \in Loans /\ r.amount \in Nat /\ r.interest \in Nat
  BY LoanAssumption DEF RepaymentRows

LEMMA InterestIsInt ==
  ASSUME NEW l \in Loans
  PROVE  interest_for(l) \in Int
  BY AmountsAreNatural DEF interest_for

(* What has been paid on a loan, as a sum of finitely many naturals.       *)
LEMMA PaidIsNatural ==
  ASSUME Typed, FinitelyMany, NEW l \in Loans
  PROVE  /\ IsFiniteSet(confirmed_by_loan(l))
         /\ \A i \in confirmed_by_loan(l) :
              /\ repayment[i].interest \in Nat
              /\ repayment[i].amount - repayment[i].interest \in Nat
         /\ PaidInterest(l) \in Nat
         /\ PaidPrincipal(l) \in Nat
<1>1. IsFiniteSet(confirmed_by_loan(l))
  <2>1. confirmed_by_loan(l) \subseteq {i \in Repayments : repayment[i] # None}
    BY DEF confirmed_by_loan
  <2>2. QED
    BY <2>1, FS_Subset DEF FinitelyMany
<1>2. \A i \in confirmed_by_loan(l) :
        /\ repayment[i].interest \in Nat
        /\ repayment[i].amount - repayment[i].interest \in Nat
  BY AmountsAreNatural DEF Typed, confirmed_by_loan
<1>3. PaidInterest(l) \in Nat
  <2> DEFINE f == [i \in confirmed_by_loan(l) |-> repayment[i].interest]
  <2>1. DOMAIN f = confirmed_by_loan(l) /\ \A i \in DOMAIN f : f[i] \in Nat
    BY <1>2
  <2> HIDE DEF f
  <2>2. SumFunction(f) \in Nat
    BY <1>1, <2>1, TotalNatural
  <2>3. QED
    BY <2>2 DEF f, PaidInterest
<1>4. PaidPrincipal(l) \in Nat
  <2> DEFINE f == [i \in confirmed_by_loan(l) |-> repayment[i].amount - repayment[i].interest]
  <2>1. DOMAIN f = confirmed_by_loan(l) /\ \A i \in DOMAIN f : f[i] \in Nat
    BY <1>2
  <2> HIDE DEF f
  <2>2. SumFunction(f) \in Nat
    BY <1>1, <2>1, TotalNatural
  <2>3. QED
    BY <2>2 DEF f, PaidPrincipal
<1>5. QED
  BY <1>1, <1>2, <1>3, <1>4

THEOREM InitInv == Init => Inv
<1> SUFFICES ASSUME Init PROVE Inv
  OBVIOUS
<1> USE DEF Init
<1>1. Typed
  BY LoanAssumption DEF Typed, Statuses, Labels
<1>2. \A l \in Loans : PaidPrincipal(l) = 0
  <2>1. ASSUME NEW l \in Loans PROVE PaidPrincipal(l) = 0
    <3> DEFINE f == [i \in confirmed_by_loan(l) |-> repayment[i].amount - repayment[i].interest]
    <3>1. DOMAIN f = {}
      BY DEF confirmed_by_loan
    <3> HIDE DEF f
    <3>2. SumFunction(f) = 0
      BY <3>1, TotalOfNothing
    <3>3. QED
      BY <3>2 DEF f, PaidPrincipal
  <2>2. QED
    BY <2>1
<1>3. FinitelyMany
  BY FS_EmptySet DEF FinitelyMany, DisbursedLoans
<1>4. RowsInv
  BY <1>2, <1>3
     DEF RowsInv, RowsAreBacked, NothingLentWithoutApproval, InterestIsPaidFirst, ApprovalOnRecord
<1>5. \A s \in Sessions : InFlight(s)
  BY DEF InFlight, TaskInFlight, RepaymentInFlight, InterestInFlight, ReversalInFlight,
         ApprovalInFlight, Repaying
<1>6. QED
  BY <1>1, <1>4, <1>5 DEF Inv

-----------------------------------------------------------------------------
(* What the requests of other sessions rely on.                            *)
Kept ==
  /\ \A l \in Loans : Approved(l) => Approved(l)'
  /\ ledger \subseteq ledger'
  /\ \A i \in Repayments : repayment[i] # None =>
       /\ repayment'[i] # None
       /\ repayment'[i].loan = repayment[i].loan
       /\ repayment'[i].amount = repayment[i].amount
  /\ \A l \in Loans : HasReversed(l) => HasReversed(l)'
  /\ \A l \in Loans : PaidInterest(l)' \in Int \/ HasReversed(l)'
  /\ \A l \in Loans : PaidInterest(l)' >= PaidInterest(l) \/ HasReversed(l)'

OnlyRecords(s) ==
  \A i \in Repayments : repayment[i] = None /\ repayment'[i] # None =>
    s \in Repaying /\ task[s].id = i

OthersRest(s) ==
  \A t \in Sessions : t # s => pc'[t] = pc[t] /\ task'[t] = task[t]

FreshId(s) ==
  pc'[s] \in {"owed", "flush", "receive"} =>
    \/ s \in Repaying /\ task'[s].id = task[s].id
    \/ \A t \in Repaying : task[t].id # task'[s].id

LEMMA OthersStayInFlight ==
  ASSUME Inv, NEW s \in Sessions, Kept, OnlyRecords(s), OthersRest(s), FreshId(s),
         NEW t \in Sessions, t # s
  PROVE  InFlight(t)'
<1>1. InFlight(t) /\ pc'[t] = pc[t] /\ task'[t] = task[t] /\ FinitelyMany /\ Typed
  BY DEF Inv, OthersRest, RowsInv
<1>2. TaskInFlight(t)'
  BY <1>1 DEF InFlight, TaskInFlight
<1>3. RepaymentInFlight(t)'
  <2> USE DEF RepaymentInFlight, Repaying
  <2>1. CASE t \notin Repaying
    BY <1>1, <2>1
  <2>2. CASE t \in Repaying
    <3>1. /\ task[t].id \in Repayments /\ repayment[task[t].id] = None
          /\ \A u \in Repaying : task[u].id = task[t].id => u = t
          /\ task[t].row \in RepaymentRows /\ task[t].row.interest <= task[t].row.amount
          /\ task[t].row.loan = task[t].loan /\ task[t].row.status = "CONFIRMED"
          /\ Disbursement(task[t].row.loan) \in ledger
      BY <1>1, <2>2 DEF InFlight
    <3>2. \A u \in Repaying' : task'[u].id = task[t].id => u = t
      BY <2>2, <3>1 DEF OthersRest, FreshId
    <3>3. repayment'[task[t].id] = None
      BY <2>2, <3>1 DEF OnlyRecords
    <3>4. QED
      BY <1>1, <3>1, <3>2, <3>3 DEF Kept
  <2>3. QED
    BY <2>1, <2>2
<1>4. InterestInFlight(t)'
  <2> SUFFICES ASSUME NEW l \in Loans, pc[t] \in {"flush", "receive"},
                      task[t].row.loan = l, task[t].row.amount > task[t].row.interest
               PROVE  task[t].row.interest + PaidInterest(l)' >= interest_for(l) \/ HasReversed(l)'
    BY <1>1 DEF InterestInFlight
  <2>1. task[t].row.interest + PaidInterest(l) >= interest_for(l) \/ HasReversed(l)
    BY <1>1 DEF InFlight, InterestInFlight
  <2>2. /\ PaidInterest(l)' \in Int \/ HasReversed(l)'
        /\ PaidInterest(l)' >= PaidInterest(l) \/ HasReversed(l)'
        /\ HasReversed(l) => HasReversed(l)'
    BY DEF Kept
  <2>3. task[t].row \in RepaymentRows
    BY <1>1 DEF InFlight, RepaymentInFlight, Repaying
  <2>4. PaidInterest(l) \in Int /\ interest_for(l) \in Int /\ task[t].row.interest \in Int
    BY <1>1, <2>3, PaidIsNatural, InterestIsInt, AmountsAreNatural
  <2>5. QED
    BY <2>1, <2>2, <2>4
<1>5. ReversalInFlight(t)'
  BY <1>1 DEF InFlight, ReversalInFlight, Kept
<1>6. ApprovalInFlight(t)'
  BY <1>1 DEF InFlight, TaskInFlight, ApprovalInFlight, Kept, Tasks
<1>7. QED
  BY <1>2, <1>3, <1>4, <1>5, <1>6 DEF InFlight

(* The end of a request, whatever it has written, as far as the others are *)
(* concerned.                                                              *)
LEMMA FinishKeepsInv ==
  ASSUME Inv, NEW s \in Sessions, pc[s] # "idle", Finish(s), Kept, OnlyRecords(s), RowsInv',
         status' \in [Loans -> Statuses],
         approvedBy' \in [Loans -> Members \cup {None}],
         repayment' = repayment
           \/ \E i \in Repayments :
                \E r \in RepaymentRows : /\ repayment' = [repayment EXCEPT ![i] = r]
                                         /\ r.interest <= r.amount,
         ledger' \subseteq {Disbursement(l) : l \in Loans}
                             \cup {Receipt(i) : i \in Repayments} \cup {Reversal(i) : i \in Repayments},
         cash' \in Int
  PROVE  Inv'
<1> USE DEF Finish, Goto
<1>1. Typed'
  BY DEF Inv, Typed, Labels
<1>2. ASSUME NEW t \in Sessions, t # s
      PROVE  InFlight(t)'
  <2>1. OthersRest(s) /\ FreshId(s)
    BY DEF Inv, Typed, OthersRest, FreshId
  <2>2. QED
    BY <1>2, <2>1, OthersStayInFlight
<1>3. InFlight(s)'
  <2>1. pc'[s] = "idle"
    BY DEF Inv, Typed
  <2>2. QED
    BY <2>1 DEF InFlight, TaskInFlight, RepaymentInFlight, InterestInFlight, ReversalInFlight,
                ApprovalInFlight, Repaying
<1>4. QED
  BY <1>1, <1>2, <1>3 DEF Inv

(* Steps that write no repayment row and take no approval away.            *)
LEMMA SameRepaymentsAreKept ==
  ASSUME Inv, UNCHANGED repayment, NEW s \in Sessions,
         \A l \in Loans : Approved(l) => Approved(l)', ledger \subseteq ledger'
  PROVE  Kept /\ OnlyRecords(s)
<1>1. ASSUME NEW l \in Loans
      PROVE  PaidInterest(l)' = PaidInterest(l) /\ PaidInterest(l) \in Int
  <2>1. PaidInterest(l)' = PaidInterest(l)
    BY DEF PaidInterest, confirmed_by_loan
  <2>2. PaidInterest(l) \in Int
    BY PaidIsNatural DEF Inv, RowsInv
  <2>3. QED
    BY <2>1, <2>2
<1>2. ASSUME NEW l \in Loans
      PROVE  PaidInterest(l)' \in Int
  BY <1>1
<1>3. ASSUME NEW l \in Loans
      PROVE  PaidInterest(l)' >= PaidInterest(l)
  BY <1>1
<1>4. \A l \in Loans : HasReversed(l) => HasReversed(l)'
  BY DEF HasReversed
<1>5. QED
  BY <1>2, <1>3, <1>4 DEF Kept, OnlyRecords

LEMMA SameRowsKeepRowsInv ==
  ASSUME RowsInv, UNCHANGED <<status, approvedBy, repayment, ledger>>
  PROVE  RowsInv'
  BY DEF RowsInv, RowsAreBacked, NothingLentWithoutApproval, InterestIsPaidFirst,
         ApprovalOnRecord, FinitelyMany, DisbursedLoans, Approved, PaidPrincipal, PaidInterest,
         HasReversed, confirmed_by_loan

LEMMA RefuseKeepsInv ==
  ASSUME Inv, NEW s \in Sessions, pc[s] # "idle", Refuse(s)
  PROVE  Inv'
<1>1. Kept /\ OnlyRecords(s)
  BY SameRepaymentsAreKept DEF Refuse, Rows, Approved
<1>2. RowsInv'
  BY SameRowsKeepRowsInv DEF Inv, Refuse, Rows
<1>3. QED
  BY <1>1, <1>2, FinishKeepsInv DEF Refuse, Rows, Inv, Typed

(* Steps of a session that write no row: what it knows at its new label is *)
(* all there is to show.                                                   *)
LEMMA AdvanceKeepsInv ==
  ASSUME Inv, NEW s \in Sessions, UNCHANGED Rows, OthersRest(s), FreshId(s),
         pc' \in [Sessions -> Labels],
         task' \in [Sessions -> Tasks \cup {None}],
         rowLock' \in [Loans -> Sessions \cup {None}],
         InFlight(s)'
  PROVE  Inv'
<1>1. Typed'
  BY DEF Inv, Typed, Rows
<1>2. RowsInv'
  BY SameRowsKeepRowsInv DEF Inv, Rows
<1>3. Kept /\ OnlyRecords(s)
  BY SameRepaymentsAreKept DEF Rows, Approved
<1>4. \A t \in Sessions : InFlight(t)'
  BY <1>3, OthersStayInFlight
<1>5. QED
  BY <1>1, <1>2, <1>4 DEF Inv

-----------------------------------------------------------------------------
(* The steps that begin a request.                                         *)
LEMMA RequestIsTask ==
  ASSUME Typed, NEW l \in Loans, NEW operation \in Operations, NEW m \in Members,
         NEW i \in Repayments \cup {None}, NEW r \in RepaymentRows \cup {None}
  PROVE  Request(l, operation, m, i, r) \in Tasks
  BY DEF Request, Tasks, Typed

LEMMA BeginKeepsInv ==
  ASSUME Inv, NEW s \in Sessions, NEW l \in Loans, NEW operation \in Operations,
         NEW m \in Members, NEW i \in Repayments \cup {None},
         NEW r \in RepaymentRows \cup {None}, NEW label \in Labels,
         Begin(s, Request(l, operation, m, i, r), label),
         label \notin {"flushed", "post", "flush", "receive", "recompute", "mark"},
         label = "write" => /\ operation \in Transitions
                            /\ operation = "approve" => m # BorrowerOf[l],
         label = "owed" =>
           /\ i \in Repayments /\ repayment[i] = None
           /\ \A t \in Sessions : pc[t] # "idle" => task[t].id # i
           /\ r \in RepaymentRows /\ r.interest <= r.amount
           /\ r.loan = l /\ r.status = "CONFIRMED"
           /\ Disbursement(l) \in ledger,
         label = "undo" =>
           i \in Repayments /\ repayment[i] # None /\ repayment[i] = r /\ r.loan = l
  PROVE  Inv'
<1> DEFINE request == Request(l, operation, m, i, r)
<1>1. /\ request \in Tasks
      /\ request.op = operation /\ request.loan = l /\ request.seen = status[l]
      /\ request.by = m /\ request.id = i /\ request.row = r
  BY RequestIsTask DEF Inv, Request
<1> HIDE DEF request
<1>2. /\ pc[s] = "idle" /\ pc' = [pc EXCEPT ![s] = label]
      /\ task' = [task EXCEPT ![s] = request] /\ UNCHANGED <<Rows, Locks>>
  BY DEF Begin, Goto, request
<1>3. /\ pc' \in [Sessions -> Labels] /\ task' \in [Sessions -> Tasks \cup {None}]
      /\ pc'[s] = label /\ task'[s] = request
      /\ rowLock' \in [Loans -> Sessions \cup {None}]
  BY <1>1, <1>2 DEF Inv, Typed, Locks
<1>4. OthersRest(s)
  BY <1>2 DEF Inv, Typed, OthersRest
<1>5. FreshId(s)
  <2>1. CASE label = "owed"
    BY <1>1, <1>3, <2>1 DEF FreshId, Repaying
  <2>2. CASE label # "owed"
    BY <1>3, <2>2 DEF FreshId
  <2>3. QED
    BY <2>1, <2>2
<1>6. TaskInFlight(s)'
  BY <1>1, <1>3 DEF TaskInFlight
<1>7. RepaymentInFlight(s)'
  <2>1. CASE label = "owed"
    <3>1. \A t \in Repaying' : task'[t].id = i => t = s
      BY <1>2, <1>4, <2>1 DEF Repaying, OthersRest
    <3>2. QED
      BY <1>1, <1>2, <1>3, <2>1, <3>1 DEF RepaymentInFlight, Rows
  <2>2. CASE label # "owed"
    BY <1>3, <2>2 DEF RepaymentInFlight, Repaying
  <2>3. QED
    BY <2>1, <2>2
<1>8. InterestInFlight(s)'
  BY <1>3 DEF InterestInFlight
<1>9. ReversalInFlight(s)'
  BY <1>1, <1>2, <1>3 DEF ReversalInFlight, Rows
<1>10. ApprovalInFlight(s)'
  BY <1>1, <1>2, <1>3 DEF ApprovalInFlight, Rows, Inv, RowsInv, ApprovalOnRecord, Approved
<1>11. QED
  BY <1>2, <1>3, <1>4, <1>5, <1>6, <1>7, <1>8, <1>9, <1>10, AdvanceKeepsInv DEF InFlight

LEMMA StartKeepsInv ==
  ASSUME Inv, NEW s \in Sessions, Start(s)
  PROVE  Inv'
<1> USE LoanAssumption DEF Operations, Labels, Transitions
<1>1. ASSUME NEW l \in Loans, CheckLimit(s, l)
      PROVE  Inv'
  BY <1>1, BeginKeepsInv, AmountsAreNatural DEF CheckLimit
<1>2. ASSUME NEW l \in Loans, BeginDisburse(s, l)
      PROVE  Inv'
  BY <1>2, BeginKeepsInv, AmountsAreNatural DEF BeginDisburse
<1>3. ASSUME NEW l \in Loans, NEW i \in Repayments, NEW amount \in Amounts,
             BeginRepay(s, l, i, amount)
      PROVE  Inv'
  <2> DEFINE r == Row(l, amount, 0, "CONFIRMED")
  <2>1. /\ r \in RepaymentRows /\ r.interest <= r.amount /\ r.loan = l
        /\ r.status = "CONFIRMED"
    BY DEF Row, RepaymentRows
  <2>2. Disbursement(l) \in ledger
    BY <1>3 DEF BeginRepay, Inv, RowsInv, RowsAreBacked
  <2>3. /\ repayment[i] = None
        /\ \A t \in Sessions : pc[t] # "idle" => task[t].id # i
        /\ Begin(s, Request(l, "repay", BorrowerOf[l], i, r), "owed")
    BY <1>3 DEF BeginRepay
  <2>4. BorrowerOf[l] \in Members
    OBVIOUS
  <2> HIDE DEF r
  <2>5. QED
    BY <2>1, <2>2, <2>3, <2>4, BeginKeepsInv
<1>4. ASSUME NEW l \in Loans, NEW operation \in Transitions, NEW m \in Members,
             BeginTransition(s, l, operation, m)
      PROVE  Inv'
  BY <1>4, BeginKeepsInv DEF BeginTransition, May
<1>5. ASSUME NEW i \in Repayments, BeginReverse(s, i)
      PROVE  Inv'
  <2> DEFINE r == repayment[i]
  <2>1. r # None /\ r \in RepaymentRows /\ r.loan \in Loans
    BY <1>5, AmountsAreNatural DEF BeginReverse, Inv, Typed
  <2>2. Begin(s, Request(r.loan, "reverse", BorrowerOf[r.loan], i, r), "undo")
    BY <1>5 DEF BeginReverse
  <2>3. BorrowerOf[r.loan] \in Members /\ repayment[i] = r
    BY <2>1
  <2> HIDE DEF r
  <2>4. QED
    BY <2>1, <2>2, <2>3, BeginKeepsInv
<1>6. QED
  BY <1>1, <1>2, <1>3, <1>4, <1>5 DEF Start

-----------------------------------------------------------------------------
(* Steps of a request that only read, or only lock.                        *)
LEMMA MoveKeepsInv ==
  ASSUME Inv, NEW s \in Sessions, pc[s] # "idle", NEW label \in Labels,
         pc' = [pc EXCEPT ![s] = label], UNCHANGED <<Rows, task>>,
         rowLock' \in [Loans -> Sessions \cup {None}],
         label \in {"flushed", "post"} => task[s].seen = "APPROVED",
         label = "receive" => pc[s] = "flush",
         label \notin {"write", "owed", "flush", "undo", "recompute", "mark"}
  PROVE  Inv'
<1>1. /\ pc' \in [Sessions -> Labels] /\ pc'[s] = label
      /\ task' \in [Sessions -> Tasks \cup {None}]
  BY DEF Inv, Typed
<1>2. OthersRest(s) /\ FreshId(s)
  BY DEF Inv, Typed, OthersRest, FreshId, Repaying
<1>3. InFlight(s)
  BY DEF Inv
<1>4. TaskInFlight(s)' /\ ReversalInFlight(s)' /\ ApprovalInFlight(s)'
  BY <1>1, <1>3 DEF InFlight, TaskInFlight, ReversalInFlight, ApprovalInFlight, Rows, Approved
<1>5. RepaymentInFlight(s)'
  <2>1. CASE label = "receive"
    <3>1. Repaying' = Repaying /\ s \in Repaying
      BY <1>1, <1>2, <2>1 DEF Repaying, OthersRest
    <3>2. QED
      BY <1>3, <3>1 DEF InFlight, RepaymentInFlight, Rows
  <2>2. CASE label # "receive"
    BY <1>1, <2>2 DEF RepaymentInFlight, Repaying
  <2>3. QED
    BY <2>1, <2>2
<1>6. InterestInFlight(s)'
  <2>1. CASE label = "receive"
    BY <1>1, <1>3, <2>1
       DEF InFlight, InterestInFlight, Rows, PaidInterest, HasReversed, confirmed_by_loan
  <2>2. CASE label # "receive"
    BY <1>1, <2>2 DEF InterestInFlight
  <2>3. QED
    BY <2>1, <2>2
<1>7. QED
  BY <1>1, <1>2, <1>4, <1>5, <1>6, AdvanceKeepsInv DEF InFlight

LEMMA CheckCashKeepsInv ==
  ASSUME Inv, NEW s \in Sessions, CheckCash(s)
  PROVE  Inv'
  BY MoveKeepsInv, RefuseKeepsInv DEF CheckCash, Goto, Labels, Locks, Inv, Typed

LEMMA LockCashKeepsInv ==
  ASSUME Inv, NEW s \in Sessions, LockCash(s)
  PROVE  Inv'
  BY MoveKeepsInv DEF LockCash, Goto, Labels, Inv, Typed

LEMMA FlushDisbursedKeepsInv ==
  ASSUME Inv, NEW s \in Sessions, FlushDisbursed(s)
  PROVE  Inv'
<1>1. task[s].seen = "APPROVED" /\ task[s].loan \in Loans
  BY DEF FlushDisbursed, Allowed, Inv, InFlight, TaskInFlight, Tasks
<1>2. rowLock' \in [Loans -> Sessions \cup {None}]
  BY <1>1 DEF FlushDisbursed, Inv, Typed
<1>3. QED
  BY <1>1, <1>2, MoveKeepsInv DEF FlushDisbursed, Goto, Labels

LEMMA AdmitKeepsInv ==
  ASSUME Inv, NEW s \in Sessions, Admit(s)
  PROVE  Inv'
<1>1. task[s].seen = "APPROVED"
  BY DEF Admit, Inv, InFlight, ApprovalInFlight
<1>2. QED
  BY <1>1, MoveKeepsInv, RefuseKeepsInv DEF Admit, Goto, Labels, Locks, Inv, Typed

LEMMA FlushRepaymentKeepsInv ==
  ASSUME Inv, NEW s \in Sessions, FlushRepayment(s)
  PROVE  Inv'
<1>1. rowLock' \in [Loans -> Sessions \cup {None}]
  BY DEF FlushRepayment, Inv, Typed
<1>2. QED
  BY <1>1, MoveKeepsInv DEF FlushRepayment, Goto, Labels

(* If the amount is more than its portion of interest, the portion is all  *)
(* the interest that was missing.                                          *)
LEMMA ReadOwedKeepsInv ==
  ASSUME Inv, NEW s \in Sessions, ReadOwed(s)
  PROVE  Inv'
<1> DEFINE l == task[s].loan
           amount == task[s].row.amount
           principal == OutstandingPrincipal(l)
           interest == OutstandingInterest(l)
           portion == InterestPortion(amount, principal, interest)
           then == StatusFrom(l, principal - (amount - portion), interest - portion)
<1>1. /\ pc[s] = "owed" /\ InFlight(s) /\ Typed /\ FinitelyMany /\ s \in Repaying
      /\ task[s] \in Tasks /\ l \in Loans
      /\ task[s].row \in RepaymentRows /\ task[s].row.loan = l
  BY DEF ReadOwed, Inv, RowsInv, InFlight, TaskInFlight, RepaymentInFlight, Repaying, Tasks
<1>2. CASE Refuse(s)
  BY <1>1, <1>2, RefuseKeepsInv
<1>3. CASE /\ amount <= principal + interest /\ portion >= 0
           /\ task' = [task EXCEPT ![s].row.interest = portion, ![s].next = then]
           /\ Goto(s, "flush")
           /\ UNCHANGED <<Rows, Locks>>
  <2>1. /\ task' = [task EXCEPT ![s].row.interest = portion, ![s].next = then]
        /\ pc' = [pc EXCEPT ![s] = "flush"]
        /\ UNCHANGED <<Rows, Locks>>
    BY <1>3 DEF Goto
  <2>2. /\ portion \in Nat /\ portion <= amount
        /\ amount > portion => portion + PaidInterest(l) = interest_for(l)
    <3>1. /\ PaidInterest(l) \in Int /\ interest_for(l) \in Int /\ amount \in Int
      BY <1>1, PaidIsNatural, InterestIsInt, AmountsAreNatural
    <3>2. QED
      BY <1>3, <3>1 DEF InterestPortion, Minimum, OutstandingInterest
  <2>3. then \in {"DISBURSED", "PARTIALLY_REPAID", "REPAID"}
    BY DEF StatusFrom
  <2> HIDE DEF portion, then
  <2>4. /\ task'[s] = [[task[s] EXCEPT !.row = [task[s].row EXCEPT !.interest = portion]]
                         EXCEPT !.next = then]
        /\ \A t \in Sessions : t # s => task'[t] = task[t]
    BY <1>1, <2>1 DEF Typed, Tasks, RepaymentRows
  <2>5. [task[s].row EXCEPT !.interest = portion] \in RepaymentRows
    BY <1>1, <2>2 DEF RepaymentRows
  <2>6. /\ task'[s] \in Tasks
        /\ task'[s].loan = l /\ task'[s].id = task[s].id /\ task'[s].next = then
        /\ task'[s].op = task[s].op /\ task'[s].seen = task[s].seen /\ task'[s].by = task[s].by
        /\ task'[s].row \in RepaymentRows
        /\ task'[s].row.interest = portion
        /\ task'[s].row.amount = amount /\ task'[s].row.loan = l
        /\ task'[s].row.status = task[s].row.status
    BY <1>1, <2>3, <2>4, <2>5 DEF Tasks, RepaymentRows, Statuses
  <2>7. /\ pc' \in [Sessions -> Labels] /\ pc'[s] = "flush"
        /\ \A t \in Sessions : t # s => pc'[t] = pc[t]
        /\ task' \in [Sessions -> Tasks \cup {None}]
    <3>1. pc' \in [Sessions -> Labels] /\ pc'[s] = "flush" /\ \A t \in Sessions : t # s => pc'[t] = pc[t]
      BY <1>1, <2>1 DEF Typed, Labels
    <3>2. task' = [t \in Sessions |-> task'[t]]
      BY <1>1, <2>1 DEF Typed
    <3>3. \A t \in Sessions : task'[t] \in Tasks \cup {None}
      BY <1>1, <2>4, <2>6 DEF Typed
    <3>4. QED
      BY <3>1, <3>2, <3>3
  <2>8. OthersRest(s) /\ FreshId(s)
    BY <1>1, <2>4, <2>6, <2>7 DEF OthersRest, FreshId, Repaying
  <2>9. Repaying' = Repaying
    BY <1>1, <2>7 DEF Repaying
  <2>10. TaskInFlight(s)' /\ ReversalInFlight(s)' /\ ApprovalInFlight(s)'
    <3>1. UNCHANGED <<approvedBy, repayment, ledger>>
      BY <2>1 DEF Rows
    <3>2. QED
      BY <1>1, <2>3, <2>6, <2>7, <3>1 DEF InFlight, TaskInFlight, ReversalInFlight, ApprovalInFlight, Approved
  <2>11. RepaymentInFlight(s)'
    <3>1. UNCHANGED <<repayment, ledger>>
      BY <2>1 DEF Rows
    <3>2. \A t \in Repaying : task'[t].id = task[t].id
      BY <2>4, <2>6 DEF Repaying
    <3>3. QED
      BY <1>1, <2>2, <2>6, <2>9, <3>1, <3>2 DEF InFlight, RepaymentInFlight
  <2>12. InterestInFlight(s)'
    <3>1. UNCHANGED repayment
      BY <2>1 DEF Rows
    <3>2. ASSUME NEW k \in Loans, l = k, amount > portion
          PROVE  portion + PaidInterest(k)' >= interest_for(k)
      <4>1. UNCHANGED repayment
        BY <3>1
      <4>2. PaidInterest(k)' = PaidInterest(k)
        BY <4>1 DEF PaidInterest, confirmed_by_loan
      <4>3. portion + PaidInterest(k) = interest_for(k) /\ interest_for(k) \in Int
        BY <2>2, <3>2, InterestIsInt
      <4>4. QED
        BY <4>2, <4>3
    <3>3. QED
      BY <2>6, <3>2 DEF InterestInFlight
  <2>13. InFlight(s)'
    BY <2>10, <2>11, <2>12 DEF InFlight
  <2>14. UNCHANGED Rows /\ rowLock' \in [Loans -> Sessions \cup {None}]
    BY <1>1, <2>1 DEF Locks, Typed
  <2>15. QED
    BY <2>7, <2>8, <2>13, <2>14, AdvanceKeepsInv
<1>4. QED
  BY <1>2, <1>3 DEF ReadOwed

(* The steps of a reversal whose compensating posting is there.            *)
LEMMA ReversalMovesKeepInv ==
  ASSUME Inv, NEW s \in Sessions, pc[s] \in {"undo", "recompute"},
         NEW label \in {"recompute", "mark"},
         pc' = [pc EXCEPT ![s] = label], UNCHANGED <<Rows, Locks>>,
         Reversal(task[s].id) \in ledger,
         NEW seen \in {task[s].seen, status[task[s].loan]}, NEW then \in Statuses,
         task' = [task EXCEPT ![s].seen = seen, ![s].next = then],
         label = "mark" => then \in {"DISBURSED", "PARTIALLY_REPAID", "REPAID"}
  PROVE  Inv'
<1>1. /\ Typed /\ InFlight(s) /\ task[s] \in Tasks
  BY DEF Inv, InFlight, TaskInFlight
<1>2. /\ task'[s] = [[task[s] EXCEPT !.seen = seen] EXCEPT !.next = then]
      /\ \A t \in Sessions : t # s => task'[t] = task[t]
  BY <1>1 DEF Typed, Tasks
<1>3. seen \in Statuses
  BY <1>1 DEF Typed, Tasks
<1>4. /\ task'[s] \in Tasks
      /\ task'[s].loan = task[s].loan /\ task'[s].id = task[s].id /\ task'[s].next = then
      /\ task'[s].op = task[s].op /\ task'[s].seen = seen /\ task'[s].row = task[s].row
  <2> DEFINE k == task[s]
  <2>1. k \in Tasks /\ seen \in Statuses /\ then \in Statuses
    BY <1>1, <1>3
  <2> HIDE DEF k
  <2>2. /\ [[k EXCEPT !.seen = seen] EXCEPT !.next = then] \in Tasks
        /\ [[k EXCEPT !.seen = seen] EXCEPT !.next = then].seen = seen
        /\ [[k EXCEPT !.seen = seen] EXCEPT !.next = then].next = then
        /\ [[k EXCEPT !.seen = seen] EXCEPT !.next = then].loan = k.loan
        /\ [[k EXCEPT !.seen = seen] EXCEPT !.next = then].id = k.id
        /\ [[k EXCEPT !.seen = seen] EXCEPT !.next = then].op = k.op
        /\ [[k EXCEPT !.seen = seen] EXCEPT !.next = then].row = k.row
    BY <2>1 DEF Tasks
  <2>3. QED
    BY <1>2, <2>2 DEF k
<1>5. /\ pc' \in [Sessions -> Labels] /\ pc'[s] = label
      /\ \A t \in Sessions : t # s => pc'[t] = pc[t]
  BY <1>1 DEF Typed, Labels
<1>6. task' \in [Sessions -> Tasks \cup {None}]
  <2>1. task' = [t \in Sessions |-> task'[t]]
    BY <1>1 DEF Typed
  <2>2. \A t \in Sessions : task'[t] \in Tasks \cup {None}
    BY <1>1, <1>2, <1>4 DEF Typed
  <2>3. QED
    BY <2>1, <2>2
<1>7. OthersRest(s) /\ FreshId(s)
  BY <1>2, <1>5 DEF OthersRest, FreshId
<1>8. UNCHANGED <<status, approvedBy, repayment, ledger>>
  BY DEF Rows
<1>9. TaskInFlight(s)' /\ RepaymentInFlight(s)' /\ InterestInFlight(s)'
  BY <1>4, <1>5 DEF TaskInFlight, RepaymentInFlight, InterestInFlight, Repaying
<1>10. ReversalInFlight(s)'
  BY <1>1, <1>4, <1>5, <1>8 DEF InFlight, ReversalInFlight
<1>11. ApprovalInFlight(s)'
  <2>1. task[s].loan \in Loans
    BY <1>1 DEF Tasks
  <2>2. seen = "APPROVED" => Approved(task[s].loan)
    BY <1>1, <2>1 DEF Inv, RowsInv, ApprovalOnRecord, InFlight, ApprovalInFlight
  <2>3. QED
    BY <1>4, <1>5, <1>8, <2>2 DEF ApprovalInFlight, Approved
<1>12. InFlight(s)'
  BY <1>9, <1>10, <1>11 DEF InFlight
<1>13. rowLock' \in [Loans -> Sessions \cup {None}]
  BY <1>1 DEF Typed, Locks
<1>14. QED
  BY <1>5, <1>6, <1>7, <1>12, <1>13, AdvanceKeepsInv

LEMMA FindReversalKeepsInv ==
  ASSUME Inv, NEW s \in Sessions, FindReversal(s)
  PROVE  Inv'
<1> DEFINE l == task[s].loan
<1>1. /\ Typed /\ task[s] \in Tasks /\ l \in Loans
      /\ task[s].seen \in Statuses /\ task[s].next \in Statuses /\ status[l] \in Statuses
  BY DEF FindReversal, Inv, InFlight, TaskInFlight, Typed, Tasks
<1>2. /\ pc[s] = "undo" /\ pc' = [pc EXCEPT ![s] = "recompute"] /\ UNCHANGED <<Rows, Locks>>
      /\ Reversal(task[s].id) \in ledger
  BY DEF FindReversal, Goto
<1>3. CASE UNCHANGED task
  <2>1. task' = [task EXCEPT ![s].seen = task[s].seen, ![s].next = task[s].next]
    BY <1>1, <1>3 DEF Typed, Tasks
  <2>2. QED
    BY <1>1, <1>2, <2>1, ReversalMovesKeepInv
<1>4. CASE task' = [task EXCEPT ![s].seen = status[l], ![s].next = status[l]]
  BY <1>1, <1>2, <1>4, ReversalMovesKeepInv
<1>5. QED
  BY <1>3, <1>4 DEF FindReversal

LEMMA RecomputeKeepsInv ==
  ASSUME Inv, NEW s \in Sessions, Recompute(s)
  PROVE  Inv'
<1> DEFINE l == task[s].loan
           then == StatusFrom(l, OutstandingPrincipal(l), OutstandingInterest(l))
<1>1. /\ Typed /\ task[s] \in Tasks /\ Reversal(task[s].id) \in ledger
  BY DEF Recompute, Inv, InFlight, TaskInFlight, ReversalInFlight
<1>2. then \in {"DISBURSED", "PARTIALLY_REPAID", "REPAID"}
  BY DEF StatusFrom
<1>3. /\ pc[s] = "recompute" /\ pc' = [pc EXCEPT ![s] = "mark"] /\ UNCHANGED <<Rows, Locks>>
      /\ task' = [task EXCEPT ![s].next = then]
  BY DEF Recompute, Goto
<1> HIDE DEF then
<1>4. task' = [task EXCEPT ![s].seen = task[s].seen, ![s].next = then]
  BY <1>1, <1>3 DEF Typed, Tasks
<1>5. then \in Statuses
  BY <1>2 DEF Statuses
<1>6. QED
  BY <1>1, <1>2, <1>3, <1>4, <1>5, ReversalMovesKeepInv

-----------------------------------------------------------------------------
(* Steps that write rows.                                                  *)
LEMMA InsertLoanKeepsInv ==
  ASSUME Inv, NEW s \in Sessions, InsertLoan(s)
  PROVE  Inv'
<1>1. /\ pc[s] = "insert" /\ Finish(s) /\ UNCHANGED <<approvedBy, repayment, ledger, cash>>
      /\ status' = [status EXCEPT ![task[s].loan] = "DRAFT"]
      /\ Typed /\ RowsInv /\ task[s].loan \in Loans
  BY DEF InsertLoan, Inv, InFlight, TaskInFlight, Tasks
<1>2. Kept /\ OnlyRecords(s)
  BY <1>1, SameRepaymentsAreKept DEF Approved
<1>3. status' \in [Loans -> Statuses] /\ \A l \in Loans : status'[l] = status[l] \/ status'[l] = "DRAFT"
  BY <1>1 DEF Typed, Statuses
<1>4. RowsInv'
  BY <1>1, <1>3 DEF RowsInv, RowsAreBacked, NothingLentWithoutApproval, InterestIsPaidFirst,
         ApprovalOnRecord, FinitelyMany, DisbursedLoans, Approved, PaidPrincipal, PaidInterest,
         HasReversed, confirmed_by_loan
<1>5. QED
  BY <1>1, <1>2, <1>3, <1>4, FinishKeepsInv DEF Typed

LEMMA WriteStatusKeepsInv ==
  ASSUME Inv, NEW s \in Sessions, WriteStatus(s)
  PROVE  Inv'
<1> DEFINE l == task[s].loan
           operation == task[s].op
<1>1. /\ pc[s] = "write" /\ Finish(s) /\ UNCHANGED <<repayment, ledger, cash>>
      /\ status' = [status EXCEPT ![l] = Becomes(operation)]
      /\ approvedBy' = IF operation = "approve" THEN [approvedBy EXCEPT ![l] = task[s].by]
                                                ELSE approvedBy
      /\ Typed /\ RowsInv /\ l \in Loans /\ operation \in Transitions
      /\ task[s].by \in Members
      /\ operation = "approve" => task[s].by # BorrowerOf[l]
  BY DEF WriteStatus, Inv, InFlight, TaskInFlight, ApprovalInFlight, Tasks
<1>2. /\ Becomes(operation) \in {"SUBMITTED", "APPROVED", "REJECTED", "CANCELLED"}
      /\ Becomes(operation) = "APPROVED" => operation = "approve"
  BY <1>1 DEF Becomes, Transitions
<1>3. approvedBy' \in [Loans -> Members \cup {None}]
  BY <1>1 DEF Typed
<1>4. /\ operation = "approve" => approvedBy'[l] \in Members \ {BorrowerOf[l]}
      /\ \A k \in Loans : approvedBy[k] \in Members \ {BorrowerOf[k]} =>
                            approvedBy'[k] \in Members \ {BorrowerOf[k]}
  BY <1>1 DEF Typed
<1>5. Kept /\ OnlyRecords(s)
  BY <1>1, <1>4, SameRepaymentsAreKept DEF Approved
<1>6. /\ status' \in [Loans -> Statuses]
      /\ \A k \in Loans : status'[k] \in {"DISBURSED", "PARTIALLY_REPAID", "REPAID"} =>
                            status'[k] = status[k]
      /\ \A k \in Loans : status'[k] = "APPROVED" => 
           status[k] = "APPROVED" \/ (k = l /\ operation = "approve")
  <2> DEFINE new == Becomes(operation)
  <2>1. status' = [status EXCEPT ![l] = new]
    BY <1>1
  <2>2. new \in {"SUBMITTED", "APPROVED", "REJECTED", "CANCELLED"}
        /\ (new = "APPROVED" => operation = "approve")
    BY <1>2
  <2> HIDE DEF new
  <2>3. QED
    BY <1>1, <2>1, <2>2 DEF Typed, Statuses
<1>7. RowsInv'
  <2>1. RowsAreBacked'
    BY <1>1, <1>6 DEF RowsInv, RowsAreBacked
  <2>2. NothingLentWithoutApproval' /\ ApprovalOnRecord'
    BY <1>1, <1>4, <1>6 DEF RowsInv, NothingLentWithoutApproval, ApprovalOnRecord, Approved
  <2>3. InterestIsPaidFirst' /\ FinitelyMany'
    BY <1>1 DEF RowsInv, InterestIsPaidFirst, FinitelyMany, DisbursedLoans, PaidPrincipal,
           PaidInterest, HasReversed, confirmed_by_loan
  <2>4. QED
    BY <2>1, <2>2, <2>3 DEF RowsInv
<1>8. QED
  BY <1>1, <1>3, <1>5, <1>6, <1>7, FinishKeepsInv DEF Typed

LEMMA PostDisbursementKeepsInv ==
  ASSUME Inv, NEW s \in Sessions, PostDisbursement(s)
  PROVE  Inv'
<1> DEFINE l == task[s].loan
<1>1. /\ pc[s] = "post" /\ Finish(s) /\ UNCHANGED <<approvedBy, repayment>>
      /\ status' = [status EXCEPT ![l] = "DISBURSED"]
      /\ ledger' = ledger \cup {Disbursement(l)}
      /\ cash' = IF Disbursement(l) \in ledger THEN cash ELSE cash - PrincipalOf[l]
      /\ Typed /\ RowsInv /\ l \in Loans /\ Approved(l)
  BY DEF PostDisbursement, Inv, InFlight, TaskInFlight, ApprovalInFlight, Tasks
<1>2. Kept /\ OnlyRecords(s)
  BY <1>1, SameRepaymentsAreKept DEF Approved
<1>3. status' \in [Loans -> Statuses] /\ cash' \in Int
  BY <1>1, AmountsAreNatural DEF Typed, Statuses
<1>4. \A k \in Loans : /\ k # l => status'[k] = status[k]
                       /\ status'[l] = "DISBURSED"
                       /\ Disbursement(k) \in ledger' => k = l \/ Disbursement(k) \in ledger
  BY <1>1, SourcesDiffer DEF Typed
<1>5. RowsInv'
  <2>1. RowsAreBacked'
    BY <1>1, <1>4, SourcesDiffer DEF RowsInv, RowsAreBacked
  <2>2. NothingLentWithoutApproval' /\ ApprovalOnRecord'
    BY <1>1, <1>4 DEF RowsInv, NothingLentWithoutApproval, ApprovalOnRecord, Approved
  <2>3. InterestIsPaidFirst'
    BY <1>1 DEF RowsInv, InterestIsPaidFirst, PaidPrincipal, PaidInterest, HasReversed, confirmed_by_loan
  <2>4. FinitelyMany'
    <3>1. DisbursedLoans' = DisbursedLoans \cup {l}
      BY <1>1, SourcesDiffer DEF DisbursedLoans
    <3>2. QED
      BY <1>1, <3>1, FS_AddElement DEF RowsInv, FinitelyMany
  <2>5. QED
    BY <2>1, <2>2, <2>3, <2>4 DEF RowsInv
<1>6. QED
  BY <1>1, <1>2, <1>3, <1>5, FinishKeepsInv DEF Typed

(* A reversal is posted of a repayment that is on the books.               *)
LEMMA PostReversalKeepsInv ==
  ASSUME Inv, NEW s \in Sessions, PostReversal(s)
  PROVE  Inv'
<1> DEFINE i == task[s].id
<1>1. /\ pc[s] = "undo" /\ pc' = [pc EXCEPT ![s] = "recompute"]
      /\ UNCHANGED <<status, approvedBy, repayment, rowLock, task>>
      /\ ledger' = ledger \cup {Reversal(i)}
      /\ cash' = cash - task[s].row.amount
      /\ Typed /\ RowsInv /\ InFlight(s)
      /\ i \in Repayments /\ repayment[i] # None /\ repayment[i].amount = task[s].row.amount
  BY DEF PostReversal, Inv, Locks, Goto, InFlight, ReversalInFlight
<1>2. repayment[i].amount \in Nat
  BY <1>1, AmountsAreNatural DEF Typed
<1>3. /\ pc' \in [Sessions -> Labels] /\ pc'[s] = "recompute"
      /\ \A t \in Sessions : t # s => pc'[t] = pc[t]
  BY <1>1 DEF Typed, Labels
<1>4. Typed'
  BY <1>1, <1>2, <1>3 DEF Typed, DisbursedLoans
<1>5. RowsInv'
  <2>1. RowsAreBacked'
    BY <1>1, SourcesDiffer DEF RowsInv, RowsAreBacked
  <2>2. DisbursedLoans' = DisbursedLoans
    BY <1>1, SourcesDiffer DEF DisbursedLoans
  <2>3. NothingLentWithoutApproval' /\ ApprovalOnRecord'
    BY <1>1, SourcesDiffer DEF RowsInv, NothingLentWithoutApproval, ApprovalOnRecord, Approved
  <2>4. InterestIsPaidFirst'
    BY <1>1 DEF RowsInv, InterestIsPaidFirst, PaidPrincipal, PaidInterest, HasReversed, confirmed_by_loan
  <2>5. FinitelyMany'
    BY <1>1, <2>2 DEF RowsInv, FinitelyMany
  <2>6. QED
    BY <2>1, <2>3, <2>4, <2>5 DEF RowsInv
<1>6. InFlight(s)'
  <2>1. TaskInFlight(s)' /\ RepaymentInFlight(s)' /\ InterestInFlight(s)'
    BY <1>1, <1>3 DEF InFlight, TaskInFlight, RepaymentInFlight, InterestInFlight, Repaying
  <2>2. ReversalInFlight(s)' /\ ApprovalInFlight(s)'
    BY <1>1, <1>3 DEF InFlight, ReversalInFlight, ApprovalInFlight, Approved
  <2>3. QED
    BY <2>1, <2>2 DEF InFlight
<1>7. Kept /\ OnlyRecords(s)
  BY <1>1, SameRepaymentsAreKept DEF Approved
<1>8. OthersRest(s) /\ FreshId(s)
  BY <1>1, <1>3 DEF OthersRest, FreshId
<1>9. \A t \in Sessions : InFlight(t)'
  BY <1>6, <1>7, <1>8, OthersStayInFlight
<1>10. QED
  BY <1>4, <1>5, <1>9 DEF Inv

(* What one more confirmed repayment does to the sums.                     *)
LEMMA RepaymentAdds ==
  ASSUME Typed, FinitelyMany, NEW i \in Repayments, repayment[i] = None,
         NEW r \in RepaymentRows, r.status = "CONFIRMED", r.interest <= r.amount,
         repayment' = [repayment EXCEPT ![i] = r],
         NEW l \in Loans
  PROVE  /\ PaidInterest(l)' = PaidInterest(l) + (IF r.loan = l THEN r.interest ELSE 0)
         /\ PaidPrincipal(l)' =
              PaidPrincipal(l) + (IF r.loan = l THEN r.amount - r.interest ELSE 0)
<1> DEFINE S == confirmed_by_loan(l)
           SS == {j \in Repayments : /\ repayment'[j] # None
                                     /\ repayment'[j].loan = l
                                     /\ repayment'[j].status = "CONFIRMED"}
           f == [j \in S |-> repayment[j].interest]
           g == [j \in SS |-> repayment'[j].interest]
           ff == [j \in S |-> repayment[j].amount - repayment[j].interest]
           gg == [j \in SS |-> repayment'[j].amount - repayment'[j].interest]
<1>1. /\ IsFiniteSet(S) /\ i \notin S
      /\ \A j \in S : f[j] \in Int /\ ff[j] \in Int
  <2>1. IsFiniteSet(S) /\ \A j \in S : /\ repayment[j].interest \in Nat
                                       /\ repayment[j].amount - repayment[j].interest \in Nat
    BY PaidIsNatural
  <2>2. i \notin S
    BY DEF confirmed_by_loan
  <2> HIDE DEF S
  <2>3. QED
    BY <2>1, <2>2
<1>2. /\ PaidInterest(l) = SumFunction(f) /\ PaidPrincipal(l) = SumFunction(ff)
      /\ PaidInterest(l)' = SumFunction(g) /\ PaidPrincipal(l)' = SumFunction(gg)
  BY DEF PaidInterest, PaidPrincipal, confirmed_by_loan
<1>3. /\ repayment'[i] = r /\ r # None
      /\ \A j \in Repayments : j # i => repayment'[j] = repayment[j]
  BY LoanAssumption DEF Typed
<1>4. PaidInterest(l) \in Int /\ PaidPrincipal(l) \in Int
  BY PaidIsNatural
<1>5. CASE r.loan = l
  <2>1. SS = S \cup {i}
    BY <1>3, <1>5 DEF confirmed_by_loan
  <2>2. /\ DOMAIN f = S /\ DOMAIN g = S \cup {i} /\ DOMAIN ff = S /\ DOMAIN gg = S \cup {i}
        /\ \A j \in S : g[j] = f[j] /\ gg[j] = ff[j]
        /\ g[i] = r.interest /\ gg[i] = r.amount - r.interest
    BY <1>1, <1>3, <2>1 DEF confirmed_by_loan
  <2>3. r.interest \in Int /\ r.amount - r.interest \in Int
    BY AmountsAreNatural
  <2> HIDE DEF S, SS, f, g, ff, gg
  <2>4. SumFunction(g) = SumFunction(f) + r.interest
    BY <1>1, <2>2, <2>3, TotalAdds
  <2>5. SumFunction(gg) = SumFunction(ff) + (r.amount - r.interest)
    BY <1>1, <2>2, <2>3, TotalAdds
  <2>6. QED
    BY <1>2, <1>5, <2>4, <2>5
<1>6. CASE r.loan # l
  <2>1. SS = S
    BY <1>3, <1>6 DEF confirmed_by_loan
  <2>2. /\ DOMAIN f = S /\ DOMAIN g = S /\ DOMAIN ff = S /\ DOMAIN gg = S
        /\ \A j \in S : f[j] = g[j] /\ ff[j] = gg[j]
    BY <1>1, <1>3, <2>1 DEF confirmed_by_loan
  <2> HIDE DEF S, SS, f, g, ff, gg
  <2>3. SumFunction(f) = SumFunction(g) /\ SumFunction(ff) = SumFunction(gg)
    BY <1>1, <2>2, TotalAgrees
  <2>4. QED
    BY <1>2, <1>4, <1>6, <2>3
<1>7. QED
  BY <1>5, <1>6

LEMMA PostRepaymentKeepsInv ==
  ASSUME Inv, NEW s \in Sessions, PostRepayment(s)
  PROVE  Inv'
<1> DEFINE i == task[s].id
           r == task[s].row
           k == task[s].loan
<1>1. /\ pc[s] = "receive" /\ Finish(s) /\ UNCHANGED approvedBy
      /\ repayment' = [repayment EXCEPT ![i] = r]
      /\ status' = IF Changes(s) THEN [status EXCEPT ![k] = task[s].next] ELSE status
      /\ ledger' = ledger \cup {Receipt(i)}
      /\ cash' = cash + r.amount
      /\ Typed /\ RowsInv /\ FinitelyMany /\ s \in Repaying
      /\ i \in Repayments /\ repayment[i] = None
      /\ r \in RepaymentRows /\ r.interest <= r.amount /\ r.loan = k /\ r.status = "CONFIRMED"
      /\ k \in Loans /\ Disbursement(k) \in ledger
      /\ task[s].next \in {"DISBURSED", "PARTIALLY_REPAID", "REPAID"}
  BY DEF PostRepayment, Inv, RowsInv, InFlight, TaskInFlight, RepaymentInFlight, Repaying, Tasks
<1>2. r.interest \in Nat /\ r.amount \in Nat
  BY <1>1, AmountsAreNatural
<1>3. /\ repayment'[i] = r /\ r # None
      /\ \A j \in Repayments : j # i => repayment'[j] = repayment[j]
  BY <1>1, LoanAssumption DEF Typed
<1>4. ASSUME NEW l \in Loans
      PROVE  /\ PaidInterest(l)' = PaidInterest(l) + (IF r.loan = l THEN r.interest ELSE 0)
             /\ PaidPrincipal(l)' =
                  PaidPrincipal(l) + (IF r.loan = l THEN r.amount - r.interest ELSE 0)
             /\ PaidInterest(l) \in Nat /\ PaidPrincipal(l) \in Nat
  <2> HIDE DEF r, i, k
  <2>1. PaidInterest(l) \in Nat /\ PaidPrincipal(l) \in Nat
    BY <1>1, PaidIsNatural
  <2>2. QED
    BY <1>1, <2>1, RepaymentAdds
<1>5. \A l \in Loans : HasReversed(l) => HasReversed(l)'
  BY <1>1, <1>3 DEF HasReversed
<1>6. Kept /\ OnlyRecords(s)
  <2>1. ASSUME NEW l \in Loans
        PROVE  PaidInterest(l)' \in Int
    BY <1>2, <1>4
  <2>2. ASSUME NEW l \in Loans
        PROVE  PaidInterest(l)' >= PaidInterest(l)
    BY <1>2, <1>4
  <2>3. QED
    BY <1>1, <1>3, <1>5, <2>1, <2>2 DEF Kept, OnlyRecords, Approved
<1>7. /\ status' \in [Loans -> Statuses]
      /\ \A l \in Loans : l # k => status'[l] = status[l]
      /\ status'[k] = "APPROVED" => status[k] = "APPROVED"
  BY <1>1 DEF Typed, Statuses
<1>8. RowsInv'
  <2>1. RowsAreBacked'
    BY <1>1, <1>3, <1>7, SourcesDiffer DEF RowsInv, RowsAreBacked
  <2>2. NothingLentWithoutApproval' /\ ApprovalOnRecord'
    BY <1>1, <1>7, SourcesDiffer DEF RowsInv, NothingLentWithoutApproval, ApprovalOnRecord, Approved
  <2>3. InterestIsPaidFirst'
    <3>1. ASSUME NEW l \in Loans, PaidPrincipal(l)' > 0
          PROVE  PaidInterest(l)' >= interest_for(l) \/ HasReversed(l)'
      <4>1. interest_for(l) \in Int
        BY InterestIsInt
      <4>2. CASE r.loan = l /\ r.amount > r.interest
        <5>1. r.interest + PaidInterest(l) >= interest_for(l) \/ HasReversed(l)
          BY <1>1, <4>2 DEF Inv, InFlight, InterestInFlight
        <5>2. QED
          BY <1>2, <1>4, <1>5, <4>1, <4>2, <5>1
      <4>3. CASE ~(r.loan = l /\ r.amount > r.interest)
        <5>1. PaidPrincipal(l) > 0
          BY <1>1, <1>2, <1>4, <3>1, <4>3
        <5>2. PaidInterest(l) >= interest_for(l) \/ HasReversed(l)
          BY <1>1, <5>1 DEF RowsInv, InterestIsPaidFirst
        <5>3. QED
          BY <1>2, <1>4, <1>5, <4>1, <5>2
      <4>4. QED
        BY <4>2, <4>3
    <3>2. QED
      BY <3>1 DEF InterestIsPaidFirst
  <2>4. FinitelyMany'
    <3>1. DisbursedLoans' = DisbursedLoans
      BY <1>1, SourcesDiffer DEF DisbursedLoans
    <3>2. {j \in Repayments : repayment'[j] # None} = {j \in Repayments : repayment[j] # None} \cup {i}
      BY <1>1, <1>3
    <3>3. QED
      BY <1>1, <3>1, <3>2, FS_AddElement DEF FinitelyMany
  <2>5. QED
    BY <2>1, <2>2, <2>3, <2>4 DEF RowsInv
<1>9. ledger' \subseteq {Disbursement(l) : l \in Loans}
                           \cup {Receipt(j) : j \in Repayments} \cup {Reversal(j) : j \in Repayments}
  BY <1>1 DEF Typed
<1>10. cash' \in Int
  BY <1>1, <1>2 DEF Typed
<1>11. QED
  BY <1>1, <1>6, <1>7, <1>8, <1>9, <1>10, FinishKeepsInv DEF Typed

(* Marking a repayment changes what has been paid on its loan only, which  *)
(* from then on has a reversed repayment.                                  *)
LEMMA MarkReversedKeepsInv ==
  ASSUME Inv, NEW s \in Sessions, MarkReversed(s)
  PROVE  Inv'
<1>1. PICK i \in Repayments, k \in Loans : i = task[s].id /\ k = task[s].loan
  BY DEF MarkReversed, Inv, InFlight, TaskInFlight, ReversalInFlight, Tasks
<1>2. /\ pc[s] = "mark" /\ Finish(s) /\ UNCHANGED <<approvedBy, ledger, cash>>
      /\ repayment' = [repayment EXCEPT ![i].status = "REVERSED"]
      /\ status' = IF Changes(s) THEN [status EXCEPT ![k] = task[s].next] ELSE status
      /\ Typed /\ RowsInv /\ FinitelyMany
      /\ repayment[i] # None /\ repayment[i].loan = k
      /\ repayment[i] \in RepaymentRows /\ repayment[i].interest <= repayment[i].amount
      /\ Reversal(i) \in ledger
      /\ task[s].next \in {"DISBURSED", "PARTIALLY_REPAID", "REPAID"}
  BY <1>1 DEF MarkReversed, Inv, RowsInv, InFlight, TaskInFlight, ReversalInFlight, Typed
<1> DEFINE r == [repayment[i] EXCEPT !.status = "REVERSED"]
<1>3. /\ r \in RepaymentRows /\ r # None /\ r.loan = k /\ r.status = "REVERSED"
      /\ r.amount = repayment[i].amount /\ r.interest = repayment[i].interest
  <2>1. r \in RepaymentRows /\ r.loan = k /\ r.status = "REVERSED"
        /\ r.amount = repayment[i].amount /\ r.interest = repayment[i].interest
    BY <1>2 DEF RepaymentRows
  <2> HIDE DEF r
  <2>2. QED
    BY <2>1, LoanAssumption
<1>4. repayment' = [repayment EXCEPT ![i] = r]
  BY <1>2 DEF Typed
<1> HIDE DEF r
<1>5. /\ repayment'[i] = r
      /\ \A j \in Repayments : j # i => repayment'[j] = repayment[j]
  BY <1>4 DEF Inv, Typed
<1>6. /\ HasReversed(k)'
      /\ \A l \in Loans : HasReversed(l) => HasReversed(l)'
  BY <1>2, <1>3, <1>5 DEF HasReversed
<1>7. ASSUME NEW l \in Loans, l # k
      PROVE  PaidInterest(l)' = PaidInterest(l) /\ PaidPrincipal(l)' = PaidPrincipal(l)
  <2> DEFINE S == confirmed_by_loan(l)
             SS == {j \in Repayments : /\ repayment'[j] # None
                                       /\ repayment'[j].loan = l
                                       /\ repayment'[j].status = "CONFIRMED"}
  <2>1. SS = S
    BY <1>2, <1>3, <1>5, <1>7 DEF confirmed_by_loan
  <2>2. \A j \in S : repayment'[j] = repayment[j]
    BY <1>2, <1>5, <1>7 DEF confirmed_by_loan
  <2> HIDE DEF S, SS
  <2>3. /\ [j \in SS |-> repayment'[j].interest] = [j \in S |-> repayment[j].interest]
        /\ [j \in SS |-> repayment'[j].amount - repayment'[j].interest]
             = [j \in S |-> repayment[j].amount - repayment[j].interest]
    BY <2>1, <2>2
  <2>4. PaidInterest(l)' = PaidInterest(l)
    BY <2>3 DEF PaidInterest, confirmed_by_loan, S, SS
  <2>5. PaidPrincipal(l)' = PaidPrincipal(l)
    BY <2>3 DEF PaidPrincipal, confirmed_by_loan, S, SS
  <2>6. QED
    BY <2>4, <2>5
<1>8. Kept /\ OnlyRecords(s)
  <2>1. ASSUME NEW l \in Loans
        PROVE  PaidInterest(l)' \in Int \/ HasReversed(l)'
    <3>1. CASE l = k
      BY <1>6, <3>1
    <3>2. CASE l # k
      <4>1. PaidInterest(l)' = PaidInterest(l)
        BY <1>7, <3>2
      <4>2. PaidInterest(l) \in Int
        BY <1>2, PaidIsNatural
      <4>3. QED
        BY <4>1, <4>2
    <3>3. QED
      BY <3>1, <3>2
  <2>2. ASSUME NEW l \in Loans
        PROVE  PaidInterest(l)' >= PaidInterest(l) \/ HasReversed(l)'
    <3>1. CASE l = k
      BY <1>6, <3>1
    <3>2. CASE l # k
      <4>1. PaidInterest(l)' = PaidInterest(l)
        BY <1>7, <3>2
      <4>2. PaidInterest(l) \in Int
        BY <1>2, PaidIsNatural
      <4>3. QED
        BY <4>1, <4>2
    <3>3. QED
      BY <3>1, <3>2
  <2>3. QED
    BY <1>2, <1>3, <1>5, <1>6, <2>1, <2>2 DEF Kept, OnlyRecords, Approved
<1>9. /\ status' \in [Loans -> Statuses]
      /\ \A l \in Loans : l # k => status'[l] = status[l]
      /\ status'[k] = "APPROVED" => status[k] = "APPROVED"
  BY <1>2 DEF Typed, Statuses
<1>10. RowsInv'
  <2>1. RowsAreBacked'
    <3>1. Disbursement(k) \in ledger
      BY <1>2 DEF RowsInv, RowsAreBacked
    <3>2. QED
      BY <1>2, <1>3, <1>5, <1>9, <3>1 DEF RowsInv, RowsAreBacked
  <2>2. NothingLentWithoutApproval' /\ ApprovalOnRecord'
    BY <1>2, <1>9 DEF RowsInv, NothingLentWithoutApproval, ApprovalOnRecord, Approved
  <2>3. InterestIsPaidFirst'
    <3>1. ASSUME NEW l \in Loans, PaidPrincipal(l)' > 0
          PROVE  PaidInterest(l)' >= interest_for(l) \/ HasReversed(l)'
      <4>1. CASE l = k
        BY <1>6, <4>1
      <4>2. CASE l # k
        BY <1>2, <1>6, <1>7, <3>1, <4>2 DEF RowsInv, InterestIsPaidFirst
      <4>3. QED
        BY <4>1, <4>2
    <3>2. QED
      BY <3>1 DEF InterestIsPaidFirst
  <2>4. FinitelyMany'
    <3>1. DisbursedLoans' = DisbursedLoans
      BY <1>2 DEF DisbursedLoans
    <3>2. {j \in Repayments : repayment'[j] # None} = {j \in Repayments : repayment[j] # None}
      BY <1>2, <1>3, <1>5
    <3>3. QED
      BY <1>2, <3>1, <3>2 DEF FinitelyMany
  <2>5. QED
    BY <2>1, <2>2, <2>3, <2>4 DEF RowsInv
<1>11. r.interest <= r.amount
  BY <1>2, <1>3
<1>12. QED
  BY <1>2, <1>3, <1>4, <1>8, <1>9, <1>10, <1>11, FinishKeepsInv DEF Typed

-----------------------------------------------------------------------------
(* What other services do to the cash and its lock disturbs no request.    *)
LEMMA OthersKeepInv ==
  ASSUME Inv, UNCHANGED <<status, approvedBy, repayment, ledger, rowLock, pc, task>>, cash' \in Int
  PROVE  Inv'
<1>1. RowsInv' /\ Typed'
  BY SameRowsKeepRowsInv DEF Inv, Typed
<1>2. ASSUME NEW s \in Sessions
      PROVE  InFlight(s)'
  <2>1. InFlight(s)
    BY DEF Inv
  <2>2. QED
    BY <2>1 DEF InFlight, TaskInFlight, RepaymentInFlight, InterestInFlight, ReversalInFlight,
                ApprovalInFlight, Repaying, Approved, PaidInterest, HasReversed, confirmed_by_loan
<1>3. QED
  BY <1>1, <1>2 DEF Inv

THEOREM NextInv == Inv /\ [Next]_vars => Inv'
<1> SUFFICES ASSUME Inv, [Next]_vars PROVE Inv'
  OBVIOUS
<1>1. ASSUME NEW s \in Sessions, Start(s) PROVE Inv'
  BY <1>1, StartKeepsInv
<1>2. ASSUME NEW s \in Sessions, RefuseDisburse(s) \/ AbortDeadlocked(s) \/ Crash(s) PROVE Inv'
  BY <1>2, RefuseKeepsInv DEF RefuseDisburse, AbortDeadlocked, Cycle, Crash
<1>3. ASSUME NEW s \in Sessions, Run(s) PROVE Inv'
  BY <1>2, <1>3, CheckCashKeepsInv, InsertLoanKeepsInv, AdmitKeepsInv, PostDisbursementKeepsInv,
     ReadOwedKeepsInv, FindReversalKeepsInv, RecomputeKeepsInv DEF Run
<1>4. ASSUME NEW s \in Sessions, Wait(s) PROVE Inv'
  BY <1>4, WriteStatusKeepsInv, LockCashKeepsInv, FlushDisbursedKeepsInv, FlushRepaymentKeepsInv,
     PostRepaymentKeepsInv, PostReversalKeepsInv, MarkReversedKeepsInv DEF Wait
<1>5. CASE UNCHANGED vars
  BY <1>5, OthersKeepInv DEF vars, Inv, Typed
<1>6. QED
  BY <1>1, <1>2, <1>3, <1>4, <1>5 DEF Next

THEOREM SpecInv == Spec => []Inv
  BY InitInv, NextInv, PTL DEF Spec

-----------------------------------------------------------------------------
(* The cash is moved by what is posted.                                    *)
Lent == SumFunction([l \in DisbursedLoans |-> PrincipalOf[l]])
Received == SumFunction([i \in StandingReceipts |-> repayment[i].amount])

LEMMA SumsAreInt ==
  ASSUME Inv
  PROVE  /\ IsFiniteSet(DisbursedLoans) /\ IsFiniteSet(StandingReceipts)
         /\ \A l \in DisbursedLoans : PrincipalOf[l] \in Int
         /\ \A i \in StandingReceipts : repayment[i].amount \in Int
         /\ Lent \in Int /\ Received \in Int
<1>1. IsFiniteSet(DisbursedLoans)
  BY DEF Inv, RowsInv, FinitelyMany
<1>2. IsFiniteSet(StandingReceipts)
  <2>1. StandingReceipts \subseteq {i \in Repayments : repayment[i] # None}
    BY DEF Inv, RowsInv, RowsAreBacked, StandingReceipts
  <2>2. QED
    BY <2>1, FS_Subset DEF Inv, RowsInv, FinitelyMany
<1>3. \A l \in DisbursedLoans : PrincipalOf[l] \in Int
  BY AmountsAreNatural DEF DisbursedLoans
<1>4. \A i \in StandingReceipts : repayment[i].amount \in Int
  BY AmountsAreNatural DEF Inv, Typed, RowsInv, RowsAreBacked, StandingReceipts
<1>5. Lent \in Int
  <2> DEFINE f == [l \in DisbursedLoans |-> PrincipalOf[l]]
  <2>1. DOMAIN f = DisbursedLoans /\ \A l \in DOMAIN f : f[l] \in Int
    BY <1>3
  <2> HIDE DEF f
  <2>2. SumFunction(f) \in Int
    BY <1>1, <2>1, TotalType
  <2>3. QED
    BY <2>2 DEF f, Lent
<1>6. Received \in Int
  <2> DEFINE f == [i \in StandingReceipts |-> repayment[i].amount]
  <2>1. DOMAIN f = StandingReceipts /\ \A i \in DOMAIN f : f[i] \in Int
    BY <1>4
  <2> HIDE DEF f
  <2>2. SumFunction(f) \in Int
    BY <1>2, <2>1, TotalType
  <2>3. QED
    BY <2>2 DEF f, Received
<1>7. QED
  BY <1>1, <1>2, <1>3, <1>4, <1>5, <1>6

LEMMA SameLedgerSameBalance ==
  ASSUME Inv, UNCHANGED ledger,
         \A i \in Repayments : repayment[i] # None => repayment'[i].amount = repayment[i].amount
  PROVE  Lent' = Lent /\ Received' = Received
<1>1. DisbursedLoans' = DisbursedLoans /\ StandingReceipts' = StandingReceipts
  BY DEF DisbursedLoans, StandingReceipts
<1>2. \A i \in StandingReceipts : repayment'[i].amount = repayment[i].amount
  BY DEF StandingReceipts, Inv, RowsInv, RowsAreBacked
<1>3. [i \in StandingReceipts' |-> repayment'[i].amount] = [i \in StandingReceipts |-> repayment[i].amount]
  BY <1>1, <1>2
<1>4. QED
  BY <1>1, <1>3 DEF Lent, Received

LEMMA DisbursementMovesCash ==
  ASSUME Inv, NEW s \in Sessions, PostDisbursement(s)
  PROVE  cash' = cash + (Received' - Lent') - (Received - Lent)
<1>1. PICK l \in Loans : l = task[s].loan
  BY DEF PostDisbursement, Inv, InFlight, TaskInFlight, Tasks
<1>2. /\ ledger' = ledger \cup {Disbursement(l)} /\ UNCHANGED repayment
      /\ cash' = IF Disbursement(l) \in ledger THEN cash ELSE cash - PrincipalOf[l]
      /\ cash \in Int
  BY <1>1 DEF PostDisbursement, Inv, Typed
<1>3. /\ DisbursedLoans' = DisbursedLoans \cup {l}
      /\ StandingReceipts' = StandingReceipts
  BY <1>2, SourcesDiffer DEF DisbursedLoans, StandingReceipts
<1>4. Received' = Received
  BY <1>2, <1>3 DEF Received
<1>5. Lent' = IF Disbursement(l) \in ledger THEN Lent ELSE Lent + PrincipalOf[l]
  <2>1. CASE Disbursement(l) \in ledger
    <3>1. DisbursedLoans' = DisbursedLoans
      BY <1>3, <2>1 DEF DisbursedLoans
    <3>2. QED
      BY <2>1, <3>1 DEF Lent
  <2>2. CASE Disbursement(l) \notin ledger
    <3> DEFINE f == [k \in DisbursedLoans |-> PrincipalOf[k]]
               g == [k \in DisbursedLoans \cup {l} |-> PrincipalOf[k]]
    <3>1. l \notin DisbursedLoans
      BY <2>2 DEF DisbursedLoans
    <3>2. /\ DOMAIN f = DisbursedLoans /\ DOMAIN g = DisbursedLoans \cup {l}
          /\ IsFiniteSet(DisbursedLoans)
          /\ \A k \in DisbursedLoans : f[k] \in Int /\ g[k] = f[k]
          /\ g[l] = PrincipalOf[l] /\ PrincipalOf[l] \in Int
      BY SumsAreInt, AmountsAreNatural
    <3> HIDE DEF f, g
    <3>3. SumFunction(g) = SumFunction(f) + PrincipalOf[l]
      BY <3>1, <3>2, TotalAdds
    <3>4. Lent = SumFunction(f) /\ Lent' = SumFunction(g)
      BY <1>3 DEF Lent, f, g
    <3>5. QED
      BY <2>2, <3>3, <3>4
  <2>3. QED
    BY <2>1, <2>2
<1>6. QED
  BY <1>2, <1>4, <1>5, SumsAreInt, AmountsAreNatural

LEMMA RepaymentMovesCash ==
  ASSUME Inv, NEW s \in Sessions, PostRepayment(s)
  PROVE  cash' = cash + (Received' - Lent') - (Received - Lent)
<1>1. PICK i \in Repayments : i = task[s].id
  BY DEF PostRepayment, Inv, InFlight, RepaymentInFlight, Repaying
<1>2. PICK r \in RepaymentRows : r = task[s].row
  BY DEF PostRepayment, Inv, InFlight, RepaymentInFlight, Repaying
<1>3. /\ ledger' = ledger \cup {Receipt(i)}
      /\ repayment' = [repayment EXCEPT ![i] = r]
      /\ cash' = cash + r.amount
      /\ cash \in Int /\ repayment[i] = None
  BY <1>1, <1>2 DEF PostRepayment, Inv, Typed, InFlight, RepaymentInFlight, Repaying
<1>4. /\ Receipt(i) \notin ledger /\ Reversal(i) \notin ledger
  BY <1>3 DEF Inv, RowsInv, RowsAreBacked
<1>5. /\ DisbursedLoans' = DisbursedLoans
      /\ StandingReceipts' = StandingReceipts \cup {i} /\ i \notin StandingReceipts
  BY <1>3, <1>4, SourcesDiffer DEF DisbursedLoans, StandingReceipts
<1>6. Lent' = Lent
  BY <1>5 DEF Lent
<1>7. Received' = Received + r.amount
  <2> DEFINE f == [j \in StandingReceipts |-> repayment[j].amount]
             g == [j \in StandingReceipts \cup {i} |-> repayment'[j].amount]
  <2>1. repayment'[i] = r /\ \A j \in StandingReceipts : repayment'[j] = repayment[j]
    BY <1>3, <1>5 DEF Inv, Typed, StandingReceipts
  <2>2. /\ DOMAIN f = StandingReceipts /\ DOMAIN g = StandingReceipts \cup {i}
        /\ IsFiniteSet(StandingReceipts)
        /\ \A j \in StandingReceipts : f[j] \in Int /\ g[j] = f[j]
        /\ g[i] = r.amount /\ r.amount \in Int
    BY <2>1, SumsAreInt, AmountsAreNatural
  <2> HIDE DEF f, g
  <2>3. SumFunction(g) = SumFunction(f) + r.amount
    BY <1>5, <2>2, TotalAdds
  <2>4. Received = SumFunction(f) /\ Received' = SumFunction(g)
    BY <1>5 DEF Received, f, g
  <2>5. QED
    BY <2>3, <2>4
<1>8. r.amount \in Int
  BY AmountsAreNatural
<1>9. QED
  BY <1>3, <1>6, <1>7, <1>8, SumsAreInt

LEMMA ReversalMovesCash ==
  ASSUME Inv, NEW s \in Sessions, PostReversal(s)
  PROVE  cash' = cash + (Received' - Lent') - (Received - Lent)
<1>1. PICK i \in Repayments : i = task[s].id
  BY DEF PostReversal, Inv, InFlight, ReversalInFlight
<1>2. /\ ledger' = ledger \cup {Reversal(i)} /\ Reversal(i) \notin ledger
      /\ UNCHANGED repayment /\ repayment[i] # None
      /\ cash' = cash - repayment[i].amount
      /\ cash \in Int
  BY <1>1 DEF PostReversal, Inv, Typed, InFlight, ReversalInFlight
<1>3. Receipt(i) \in ledger
  BY <1>2 DEF Inv, RowsInv, RowsAreBacked
<1>4. /\ DisbursedLoans' = DisbursedLoans
      /\ StandingReceipts = StandingReceipts' \cup {i} /\ i \notin StandingReceipts'
  BY <1>2, <1>3, SourcesDiffer DEF DisbursedLoans, StandingReceipts
<1>5. Lent' = Lent
  BY <1>4 DEF Lent
<1>6. Received = Received' + repayment[i].amount /\ Received' \in Int
  <2> DEFINE T == StandingReceipts'
             f == [j \in T |-> repayment[j].amount]
             g == [j \in StandingReceipts |-> repayment[j].amount]
  <2>1. IsFiniteSet(T)
    BY <1>4, SumsAreInt, FS_Subset
  <2>2. /\ DOMAIN f = T /\ DOMAIN g = T \cup {i} /\ i \notin T
        /\ \A j \in T : f[j] \in Int /\ g[j] = f[j]
        /\ g[i] = repayment[i].amount /\ repayment[i].amount \in Int
    BY <1>4, SumsAreInt
  <2>3. Received = SumFunction(g) /\ Received' = SumFunction(f)
    BY <1>2 DEF Received
  <2> HIDE DEF f, g, T
  <2>4. SumFunction(g) = SumFunction(f) + g[i]
    BY <2>1, <2>2, TotalAdds
  <2>5. SumFunction(f) \in Int
    BY <2>1, <2>2, TotalType
  <2>6. QED
    BY <2>2, <2>3, <2>4, <2>5
<1>7. repayment[i].amount \in Int
  BY <1>4, SumsAreInt
<1>8. QED
  BY <1>2, <1>5, <1>6, <1>7, SumsAreInt

(* Every step moves the cash by what it posts.                             *)
LEMMA StepMovesCash ==
  ASSUME Inv, Next
  PROVE  cash' = cash + (Received' - Lent') - (Received - Lent)
<1>1. cash \in Int /\ Received \in Int /\ Lent \in Int
  BY SumsAreInt DEF Inv, Typed
<1>2. CASE UNCHANGED <<repayment, ledger, cash>>
  <2>1. Lent' = Lent /\ Received' = Received
    BY <1>2, SameLedgerSameBalance
  <2>2. QED
    BY <1>1, <1>2, <2>1
<1>3. ASSUME NEW s \in Sessions, MarkReversed(s)
      PROVE  cash' = cash + (Received' - Lent') - (Received - Lent)
  <2>1. /\ UNCHANGED <<ledger, cash>>
        /\ repayment' = [repayment EXCEPT ![task[s].id].status = "REVERSED"]
    BY <1>3 DEF MarkReversed
  <2>2. \A i \in Repayments : repayment[i] # None => repayment'[i].amount = repayment[i].amount
    BY <2>1 DEF Inv, Typed, RepaymentRows
  <2>3. Lent' = Lent /\ Received' = Received
    BY <2>1, <2>2, SameLedgerSameBalance
  <2>4. QED
    BY <1>1, <2>1, <2>3
<1>4. ASSUME NEW s \in Sessions, Start(s)
      PROVE  UNCHANGED <<repayment, ledger, cash>>
  BY <1>4 DEF Start, CheckLimit, BeginDisburse, BeginRepay, BeginTransition, BeginReverse, Begin, Rows
<1>5. ASSUME NEW s \in Sessions, Run(s), ~PostDisbursement(s)
      PROVE  UNCHANGED <<repayment, ledger, cash>>
  BY <1>5 DEF Run, CheckCash, InsertLoan, RefuseDisburse, Admit, ReadOwed, FindReversal, Recompute,
       AbortDeadlocked, Refuse, Rows
<1>6. ASSUME NEW s \in Sessions, Wait(s), ~PostRepayment(s), ~PostReversal(s), ~MarkReversed(s)
      PROVE  UNCHANGED <<repayment, ledger, cash>>
  BY <1>6 DEF Wait, WriteStatus, LockCash, FlushDisbursed, FlushRepayment, Rows
<1>7. ASSUME NEW s \in Sessions, Crash(s)
      PROVE  UNCHANGED <<repayment, ledger, cash>>
  BY <1>7 DEF Crash, Refuse, Rows
<1>8. QED
  BY <1>2, <1>3, <1>4, <1>5, <1>6, <1>7, DisbursementMovesCash, RepaymentMovesCash,
     ReversalMovesCash DEF Next

LEMMA CashInit ==
  ASSUME Init
  PROVE  CashIsTheBalance
<1>1. DisbursedLoans = {} /\ StandingReceipts = {}
  BY DEF Init, DisbursedLoans, StandingReceipts
<1> DEFINE f == [l \in DisbursedLoans |-> PrincipalOf[l]]
           g == [i \in StandingReceipts |-> repayment[i].amount]
<1>2. DOMAIN f = {} /\ DOMAIN g = {}
  BY <1>1
<1> HIDE DEF f, g
<1>3. SumFunction(f) = 0 /\ SumFunction(g) = 0
  BY <1>2, TotalOfNothing
<1>4. Balance = 0
  BY <1>3 DEF Balance, f, g
<1>5. QED
  BY <1>4, LoanAssumption DEF Init, CashIsTheBalance

BalanceTyped == Balance \in Int /\ Balance = Received - Lent

LEMMA BalanceType == Inv => BalanceTyped
<1>1. Balance = Received - Lent
  BY DEF Balance, Received, Lent
<1>2. Inv => Received \in Int /\ Lent \in Int
  BY SumsAreInt
<1>3. QED
  BY <1>1, <1>2 DEF BalanceTyped

LEMMA StepMovesBalance ==
  Inv /\ [Next]_vars =>
    /\ Balance \in Int /\ Balance' \in Int
    /\ cash' = cash + (Balance' - Balance)
<1>1. Inv /\ [Next]_vars => BalanceTyped /\ BalanceTyped'
  BY BalanceType, NextInv, PTL
<1>2. SUFFICES ASSUME Inv, [Next]_vars
               PROVE  /\ Balance \in Int /\ Balance' \in Int
                      /\ cash' = cash + (Balance' - Balance)
  OBVIOUS
<1>3. /\ Balance' \in Int /\ Balance' = Received' - Lent'
      /\ Balance \in Int /\ Balance = Received - Lent
  BY <1>1, <1>2 DEF BalanceTyped
<1>4. cash \in Int /\ cash' \in Int
  BY <1>2, NextInv DEF Inv, Typed
<1>5. CASE Next
  BY <1>2, <1>3, <1>4, <1>5, StepMovesCash, SumsAreInt
<1>6. CASE UNCHANGED vars
  <2>1. Balance' = Balance /\ cash' = cash
    BY <1>6 DEF vars, Balance, DisbursedLoans, StandingReceipts
  <2>2. QED
    BY <1>3, <1>4, <2>1
<1>7. QED
  BY <1>2, <1>5, <1>6

THEOREM CashNext == Inv /\ CashIsTheBalance /\ [Next]_vars => CashIsTheBalance'
  BY StepMovesBalance, LoanAssumption DEF CashIsTheBalance

-----------------------------------------------------------------------------
(* The lock on the Cash account, and the cash that is read under it.       *)
LEMMA StepsOfRequests ==
  ASSUME NEW s \in Sessions, Start(s) \/ Run(s) \/ Wait(s) \/ Crash(s)
  PROVE  \/ UNCHANGED <<ledger, cash>>
         \/ PostDisbursement(s)
         \/ PostRepayment(s)
         \/ PostReversal(s)
  BY DEF Start, CheckLimit, BeginDisburse, BeginRepay, BeginTransition, BeginReverse, Begin,
         Run, CheckCash, InsertLoan, RefuseDisburse, Admit, ReadOwed, FindReversal, Recompute,
         AbortDeadlocked, Wait, WriteStatus, LockCash, FlushDisbursed, FlushRepayment, MarkReversed,
         Crash, Refuse, Rows

LEMMA StepKeepsLockHolder ==
  ASSUME Inv, LockHolder, [Next]_vars
  PROVE  /\ LockHolder'
         /\ cashLock' = cashLock \/ {cashLock, cashLock'} \subseteq Sessions \cup {None}
<1> DEFINE Goal == /\ LockHolder'
                   /\ cashLock' = cashLock \/ {cashLock, cashLock'} \subseteq Sessions \cup {None}
           Held == {"locked", "flushed", "post"}
<1> USE DEF Inv, Typed, Goto, Rows, Locks
<1>1. ASSUME NEW s \in Sessions, Finish(s) PROVE Goal
  BY <1>1, LoanAssumption DEF Finish, LockHolder
<1>2. ASSUME NEW s \in Sessions, NEW label \in Labels, Goto(s, label), UNCHANGED cashLock,
             pc[s] \in Held <=> label \in Held
      PROVE  Goal
  BY <1>2 DEF LockHolder
<1>3. ASSUME NEW s \in Sessions, Start(s) PROVE Goal
  BY <1>2, <1>3
     DEF Start, CheckLimit, BeginDisburse, BeginRepay, BeginTransition, BeginReverse, Begin, Labels
<1>4. ASSUME NEW s \in Sessions, Run(s) PROVE Goal
  BY <1>1, <1>2, <1>4
     DEF Run, CheckCash, InsertLoan, RefuseDisburse, Admit, PostDisbursement, ReadOwed,
         FindReversal, Recompute, AbortDeadlocked, Refuse, Labels
<1>5. ASSUME NEW s \in Sessions, LockCash(s) PROVE Goal
  BY <1>5, LoanAssumption DEF LockCash, LockHolder
<1>6. ASSUME NEW s \in Sessions, Wait(s), ~ LockCash(s) PROVE Goal
  BY <1>1, <1>2, <1>6
     DEF Wait, WriteStatus, FlushDisbursed, FlushRepayment, PostRepayment, PostReversal,
         MarkReversed, Labels
<1>7. ASSUME NEW s \in Sessions, Crash(s) PROVE Goal
  BY <1>1, <1>7 DEF Crash, Refuse
<1>8. CASE UNCHANGED vars
  BY <1>8 DEF vars, LockHolder
<1>9. QED
  BY <1>3, <1>4, <1>5, <1>6, <1>7, <1>8 DEF Next

(* Cash is moved by the session that holds the lock, or while nobody does. *)
LEMMA StepRespectsLock ==
  ASSUME LockHolder, [Next]_vars
  PROVE  cash' = cash \/ cashLock \in Sessions \cup {None}
  BY StepsOfRequests DEF Next, vars, PostDisbursement, PostRepayment, PostReversal, LockHolder

LEMMA StepKeepsAdmittedCash ==
  ASSUME Inv, LockHolder, AdmittedCash, [Next]_vars
  PROVE  AdmittedCash'
<1> USE DEF Inv, Typed, Goto, Rows, Locks
<1>1. ASSUME NEW s \in Sessions, Finish(s),
             cash' = cash \/ pc[s] = "post" \/ cashLock = None
      PROVE  AdmittedCash'
  BY <1>1, LoanAssumption DEF Finish, LockHolder, AdmittedCash
<1>2. ASSUME NEW s \in Sessions, NEW label \in Labels, Goto(s, label), label # "post",
             cash' = cash \/ cashLock = None, \A t \in Sessions \ {s} : task'[t] = task[t]
      PROVE  AdmittedCash'
  BY <1>2, LoanAssumption DEF LockHolder, AdmittedCash
<1>3. ASSUME NEW s \in Sessions, Start(s) PROVE AdmittedCash'
  BY <1>2, <1>3
     DEF Start, CheckLimit, BeginDisburse, BeginRepay, BeginTransition, BeginReverse, Begin, Labels
<1>4. ASSUME NEW s \in Sessions, Run(s), ~ Admit(s) PROVE AdmittedCash'
  BY <1>1, <1>2, <1>4
     DEF Run, CheckCash, InsertLoan, RefuseDisburse, PostDisbursement, ReadOwed,
         FindReversal, Recompute, AbortDeadlocked, Refuse, Labels
<1>5. ASSUME NEW s \in Sessions, Admit(s) PROVE AdmittedCash'
  BY <1>1, <1>5 DEF Admit, Refuse, AdmittedCash
<1>6. ASSUME NEW s \in Sessions, Wait(s) PROVE AdmittedCash'
  BY <1>1, <1>2, <1>6
     DEF Wait, WriteStatus, LockCash, FlushDisbursed, FlushRepayment, PostRepayment, PostReversal,
         MarkReversed, Labels
<1>7. ASSUME NEW s \in Sessions, Crash(s) PROVE AdmittedCash'
  BY <1>1, <1>7 DEF Crash, Refuse
<1>8. CASE UNCHANGED vars
  BY <1>8 DEF vars, AdmittedCash
<1>9. QED
  BY <1>3, <1>4, <1>5, <1>6, <1>7, <1>8 DEF Next

(* A loan that was admitted is covered when it is paid out.                *)
LEMMA DisbursementIsCovered ==
  ASSUME Inv, AdmittedCash, [Next]_vars, NEW l \in Loans, Disbursement(l) \in ledger' \ ledger
  PROVE  cash' >= 0
<1>1. PICK s \in Sessions : PostDisbursement(s)
  BY StepsOfRequests, SourcesDiffer DEF Next, vars, PostRepayment, PostReversal
<1>2. PrincipalOf[task[s].loan] \in Nat /\ PrincipalOf[task[s].loan] <= cash /\ cash \in Int
  BY <1>1, LoanAssumption
     DEF PostDisbursement, AdmittedCash, Inv, Typed, InFlight, TaskInFlight, Tasks
<1>3. QED
  BY <1>1, <1>2 DEF PostDisbursement

-----------------------------------------------------------------------------
(* Every row, session and lock has its type in all behaviours.             *)
THEOREM TypeCorrect == Spec => []TypeOK
<1> DEFINE LockOK == cashLock \in Sessions \cup {None}
<1>1. Init => LockOK
  BY DEF Init
<1>2. ASSUME LockOK, [Next]_vars PROVE LockOK'
  <2>1. ASSUME NEW s \in Sessions, Start(s) PROVE LockOK'
    BY <1>2, <2>1 DEF Start, CheckLimit, BeginDisburse, BeginRepay, BeginTransition, BeginReverse,
                      Begin, Locks
  <2>2. ASSUME NEW s \in Sessions, Run(s) PROVE LockOK'
    BY <1>2, <2>2 DEF Run, CheckCash, InsertLoan, RefuseDisburse, Admit, PostDisbursement, ReadOwed,
                      FindReversal, Recompute, AbortDeadlocked, Refuse, Finish, Locks
  <2>3. ASSUME NEW s \in Sessions, Wait(s) PROVE LockOK'
    BY <1>2, <2>3 DEF Wait, WriteStatus, LockCash, FlushDisbursed, FlushRepayment, PostRepayment,
                      PostReversal, MarkReversed, Finish, Locks
  <2>4. ASSUME NEW s \in Sessions, Crash(s) PROVE LockOK'
    BY <1>2, <2>4 DEF Crash, Refuse, Finish, Locks
  <2>5. CASE UNCHANGED vars
    BY <1>2, <2>5 DEF vars, Locks
  <2>6. QED
    BY <1>2, <2>1, <2>2, <2>3, <2>4, <2>5 DEF Next
<1>3. Inv /\ LockOK => TypeOK
  BY DEF Inv, TypeOK
<1> HIDE DEF LockOK
<1>4. QED
  BY <1>1, <1>2, <1>3, SpecInv, PTL DEF Spec

(* A loan is never paid out, repaid or reversed on the rows without the    *)
(* posting that belongs to it, nor the other way round; and the cash that  *)
(* disbursements are admitted on is what the postings add up to, over      *)
(* retries, lost races, crashes and deadlocks.                             *)
THEOREM BooksAlwaysBacked == Spec => []BooksAreBacked
<1>1. Init => CashIsTheBalance
  BY CashInit
<1>2. Inv /\ CashIsTheBalance => BooksAreBacked
  BY DEF Inv, RowsInv, BooksAreBacked
<1>3. QED
  BY <1>1, <1>2, CashNext, SpecInv, PTL DEF Spec

(* The approval of somebody else than the borrower stands behind every     *)
(* disbursement.                                                           *)
THEOREM LoansWereApproved == Spec => []NothingLentWithoutApproval
<1>1. Inv => NothingLentWithoutApproval
  BY DEF Inv, RowsInv
<1>2. QED
  BY <1>1, SpecInv, PTL

(* Principal is only repaid once all the interest is, however many         *)
(* repayments read the balance at the same time.                           *)
THEOREM InterestAlwaysFirst == Spec => []InterestIsPaidFirst
<1>1. Inv => InterestIsPaidFirst
  BY DEF Inv, RowsInv
<1>2. QED
  BY <1>1, SpecInv, PTL
=============================================================================
