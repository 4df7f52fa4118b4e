-------------------------- MODULE Payouts_proofs --------------------------
(***************************************************************************)
(* Proofs about Payouts, for any number of sessions, payouts and members.  *)
(***************************************************************************)
EXTENDS Payouts, Sums_proofs

(* The parts of the invariant that speak of rows and ledger alone.         *)
RowsInv == StatusIsBacked /\ NothingPaidWithoutApproval /\ FinitelyMany

LEMMA SourcesDiffer ==
  ASSUME NEW p, NEW q
  PROVE  /\ Completion(p) # Reversal(q)
         /\ Completion(p) = Completion(q) => p = q
         /\ Reversal(p) = Reversal(q) => p = q
  BY DEF Completion, Reversal

LEMMA UnchangedRowsKeepRowsInv ==
  ASSUME RowsInv, UNCHANGED Rows
  PROVE  RowsInv'
  BY DEF RowsInv, Rows, StatusIsBacked, NothingPaidWithoutApproval, FinitelyMany

(* The end of a request, whatever it has written, as far as the others are *)
(* concerned: what they know of the rows must still be so.                 *)
LEMMA FinishKeepsRequests ==
  ASSUME RequestsInv, NEW s \in Sessions, Finish(s), pc[s] # "idle",
         RowsInv',
         status' \in [Payouts -> Statuses],
         approvedBy' \in [Payouts -> Members \cup {None}],
         ledger' \subseteq {"COMPLETION", "REVERSAL"} \X Payouts,
         cash' \in Int,
         ledger \subseteq ledger',
         \A p \in Payouts :
           status'[p] \in PastApproval => approvedBy'[p] \in Members \ {OwnerOf[p]},
         \A p \in Payouts :
           approvedBy[p] \in Members \ {OwnerOf[p]} =>
             approvedBy'[p] \in Members \ {OwnerOf[p]}
  PROVE  RequestsInv'
<1> USE DEF RequestsInv, Finish, Goto
<1>1. Typed'
  BY DEF Typed, Labels
<1>2. TasksInFlight'
  BY PayoutAssumption DEF Typed, TasksInFlight
<1>4. WritersWereAdmitted' /\ SeenCompleted'
  BY DEF Typed, TasksInFlight, WritersWereAdmitted, SeenCompleted, Tasks
<1>5. ApprovalOnRecord'
  BY DEF Typed, TasksInFlight, ApprovalOnRecord, Tasks
<1>6. QED
  BY <1>1, <1>2, <1>4, <1>5 DEF RowsInv

LEMMA RefuseKeepsRequests ==
  ASSUME RequestsInv, NEW s \in Sessions, pc[s] # "idle", Refuse(s)
  PROVE  RequestsInv'
<1>1. RowsInv'
  BY UnchangedRowsKeepRowsInv DEF RequestsInv, RowsInv, Refuse
<1>2. QED
  BY <1>1, FinishKeepsRequests DEF Refuse, Rows, RequestsInv, Typed, ApprovalOnRecord

(* Steps of a session that write no row and leave the lock alone.          *)
LEMMA AdvanceKeepsRequests ==
  ASSUME RequestsInv, NEW s \in Sessions, NEW label \in Labels, Advance(s, label),
         pc[s] # "idle", label # "idle",
         label = "insert" => pc[s] = "cashCheck",
         label \in {"undo", "write"} => pc[s] = "loaded" /\ task[s].op # "complete",
         label = "write" =>
           /\ task[s].seen = Allowed(task[s].op)
           /\ task[s].op # "reverse"
           /\ task[s].op = "approve" => task[s].by # OwnerOf[task[s].payout],
         label = "undo" => task[s].op = "reverse" /\ task[s].seen = "COMPLETED",
         label = "lock" => pc[s] = "loaded" /\ task[s].op = "complete",
         label = "post" => /\ pc[s] = "locked"
                           /\ task[s].seen = "PROCESSING",
         label \notin {"cashCheck", "loaded", "locked"}
  PROVE  RequestsInv'
<1> USE DEF RequestsInv, Advance, Goto, Rows
<1>1. Typed'
  BY DEF Typed
<1>2. TasksInFlight'
  BY DEF Typed, TasksInFlight, Labels
<1>3. WritersWereAdmitted' /\ ApprovalOnRecord' /\ SeenCompleted'
  BY DEF Typed, WritersWereAdmitted, ApprovalOnRecord, SeenCompleted
<1>4. RowsInv'
  BY UnchangedRowsKeepRowsInv DEF RowsInv
<1>5. QED
  BY <1>1, <1>2, <1>3, <1>4 DEF RowsInv

LEMMA CheckSharesKeepsRequests ==
  ASSUME RequestsInv, NEW s \in Sessions, NEW p \in Payouts, CheckShares(s, p)
  PROVE  RequestsInv'
<1> USE DEF RequestsInv, CheckShares, Goto, Rows
<1>1. OwnerOf[p] \in Members
  BY PayoutAssumption
<1>2. Typed' /\ TasksInFlight'
  BY <1>1 DEF Typed, TasksInFlight, Tasks, Operations, Statuses, Labels
<1>3. WritersWereAdmitted' /\ ApprovalOnRecord' /\ SeenCompleted'
  BY DEF Typed, WritersWereAdmitted, ApprovalOnRecord, SeenCompleted,
         PastApproval
<1>4. RowsInv'
  BY UnchangedRowsKeepRowsInv DEF RowsInv
<1>5. QED
  BY <1>2, <1>3, <1>4 DEF RowsInv

LEMMA LoadKeepsRequests ==
  ASSUME RequestsInv, NEW s \in Sessions, NEW p \in Payouts,
         NEW operation \in Operations \ {"request"}, NEW m \in Members,
         Load(s, p, operation, m)
  PROVE  RequestsInv'
<1> USE DEF RequestsInv, Load, Goto, Rows
<1>1. Typed' /\ TasksInFlight'
  BY DEF Typed, TasksInFlight, Tasks, Labels
<1>2. WritersWereAdmitted'
  BY DEF Typed, WritersWereAdmitted
<1>3. ApprovalOnRecord' /\ SeenCompleted'
  BY DEF Typed, ApprovalOnRecord, SeenCompleted, StatusIsBacked
<1>4. RowsInv'
  BY UnchangedRowsKeepRowsInv DEF RowsInv
<1>5. QED
  BY <1>1, <1>2, <1>3, <1>4 DEF RowsInv

LEMMA CheckCashKeepsRequests ==
  ASSUME RequestsInv, NEW s \in Sessions, CheckCash(s)
  PROVE  RequestsInv'
  BY AdvanceKeepsRequests, RefuseKeepsRequests DEF CheckCash, Labels

LEMMA CheckTransitionKeepsRequests ==
  ASSUME RequestsInv, NEW s \in Sessions, CheckTransition(s)
  PROVE  RequestsInv'
  BY AdvanceKeepsRequests, RefuseKeepsRequests DEF CheckTransition, Labels, Allowed

LEMMA CheckCompletedKeepsRequests ==
  ASSUME RequestsInv, NEW s \in Sessions, CheckCompleted(s)
  PROVE  RequestsInv'
  BY AdvanceKeepsRequests, RefuseKeepsRequests DEF CheckCompleted, Labels

LEMMA AdmitKeepsRequests ==
  ASSUME RequestsInv, NEW s \in Sessions, Admit(s)
  PROVE  RequestsInv'
  BY AdvanceKeepsRequests, RefuseKeepsRequests DEF Admit, Labels, Allowed

LEMMA LockCashKeepsRequests ==
  ASSUME RequestsInv, NEW s \in Sessions, LockCash(s)
  PROVE  RequestsInv'
<1> USE DEF RequestsInv, LockCash, Goto, Rows
<1>1. Typed' /\ TasksInFlight'
  BY PayoutAssumption DEF Typed, TasksInFlight, Labels
<1>2. WritersWereAdmitted' /\ ApprovalOnRecord' /\ SeenCompleted'
  BY DEF Typed, WritersWereAdmitted, ApprovalOnRecord, SeenCompleted
<1>3. RowsInv'
  BY UnchangedRowsKeepRowsInv DEF RowsInv
<1>4. QED
  BY <1>1, <1>2, <1>3 DEF RowsInv

LEMMA InsertRequestKeepsRequests ==
  ASSUME RequestsInv, NEW s \in Sessions, InsertRequest(s)
  PROVE  RequestsInv'
<1> USE DEF RequestsInv, InsertRequest
<1>1. task[s].payout \in Payouts
  BY DEF TasksInFlight, Tasks
<1>2. RowsInv'
  BY <1>1 DEF RowsInv, Typed, StatusIsBacked, NothingPaidWithoutApproval, FinitelyMany
<1>3. QED
  BY <1>1, <1>2, FinishKeepsRequests
     DEF Typed, Statuses, ApprovalOnRecord, PastApproval

(* A status written over is harmless to what StatusIsBacked says: a        *)
(* transition never leads to COMPLETED, and to REVERSED only behind the    *)
(* compensating posting.                                                   *)
LEMMA WriteStatusKeepsRequests ==
  ASSUME RequestsInv, NEW s \in Sessions, WriteStatus(s)
  PROVE  RequestsInv'
<1> USE DEF RequestsInv, WriteStatus
<1> DEFINE p == task[s].payout
           operation == task[s].op
<1>1. /\ task[s] \in Tasks /\ p \in Payouts
      /\ operation \in {"approve", "reject", "process", "fail", "reverse"}
      /\ task[s].by \in Members
  BY DEF TasksInFlight, WritersWereAdmitted, Tasks, Operations
<1>2. /\ Becomes(operation) \in Statuses \ {"COMPLETED"}
      /\ Becomes(operation) = "REVERSED" => Reversal(p) \in ledger
      /\ Becomes(operation) \in PastApproval => operation # "reject"
  BY <1>1 DEF Becomes, Statuses, WritersWereAdmitted, PastApproval
<1>3. approvedBy' \in [Payouts -> Members \cup {None}]
  BY <1>1 DEF Typed
<1>4. status' \in [Payouts -> Statuses]
  BY <1>1, <1>2 DEF Typed
<1>5. \A q \in Payouts :
        approvedBy[q] \in Members \ {OwnerOf[q]} => approvedBy'[q] \in Members \ {OwnerOf[q]}
  BY <1>1 DEF Typed, WritersWereAdmitted
<1>6. operation # "reject" => approvedBy'[p] \in Members \ {OwnerOf[p]}
  <2>1. CASE operation = "approve"
    BY <1>1, <2>1 DEF Typed, WritersWereAdmitted
  <2>2. CASE operation \in {"process", "fail", "reverse"}
    <3>1. task[s].seen \in PastApproval
      BY <2>2 DEF WritersWereAdmitted, Allowed, PastApproval
    <3>2. QED
      BY <1>1, <1>5, <3>1 DEF ApprovalOnRecord
  <2>3. QED
    BY <1>1, <2>1, <2>2
<1>7. \A q \in Payouts : status'[q] \in PastApproval => approvedBy'[q] \in Members \ {OwnerOf[q]}
  BY <1>1, <1>2, <1>5, <1>6 DEF Typed, ApprovalOnRecord
<1>8. RowsInv'
  <2>1. FinitelyMany'
    BY DEF FinitelyMany
  <2>2. StatusIsBacked'
    BY <1>1, <1>2 DEF Typed, StatusIsBacked
  <2>3. NothingPaidWithoutApproval'
    BY <1>5 DEF NothingPaidWithoutApproval
  <2>4. QED
    BY <2>1, <2>2, <2>3 DEF RowsInv
<1>9. QED
  BY <1>3, <1>4, <1>5, <1>7, <1>8, FinishKeepsRequests DEF Typed

LEMMA CompletionsStayFinite ==
  ASSUME NEW p \in Payouts, FinitelyMany, ledger' = ledger \cup {Completion(p)}
  PROVE  FinitelyMany'
<1>1. {q \in Payouts : Completion(q) \in ledger'}
        = {q \in Payouts : Completion(q) \in ledger} \cup {p}
  BY SourcesDiffer
<1>2. QED
  BY <1>1, FS_AddElement DEF FinitelyMany

LEMMA PostCompletionKeepsRequests ==
  ASSUME RequestsInv, NEW s \in Sessions, PostCompletion(s)
  PROVE  RequestsInv'
<1> USE DEF RequestsInv, PostCompletion
<1> DEFINE p == task[s].payout
<1>1. p \in Payouts /\ AmountOf[p] \in Nat
  BY PayoutAssumption DEF TasksInFlight, Tasks
<1>2. approvedBy[p] \in Members \ {OwnerOf[p]}
  BY DEF TasksInFlight, ApprovalOnRecord, PastApproval
<1>3. FinitelyMany' /\ cash' \in Int
  BY <1>1, CompletionsStayFinite DEF Typed
<1>4. StatusIsBacked'
  BY <1>1, SourcesDiffer DEF Typed, StatusIsBacked
<1>5. NothingPaidWithoutApproval'
  BY <1>2, SourcesDiffer DEF NothingPaidWithoutApproval
<1>6. ledger' \subseteq {"COMPLETION", "REVERSAL"} \X Payouts
  BY <1>1 DEF Typed, Completion
<1>7. \A q \in Payouts : status'[q] \in PastApproval => approvedBy'[q] \in Members \ {OwnerOf[q]}
  BY <1>1, <1>2 DEF Typed, ApprovalOnRecord
<1>8. status' \in [Payouts -> Statuses]
  BY <1>1 DEF Typed, Statuses
<1>9. QED
  BY <1>3, <1>4, <1>5, <1>6, <1>7, <1>8, FinishKeepsRequests DEF Typed, RowsInv

LEMMA PostReversalKeepsRequests ==
  ASSUME RequestsInv, NEW s \in Sessions, PostReversal(s)
  PROVE  RequestsInv'
<1> USE DEF RequestsInv, PostReversal, Goto
<1> DEFINE p == task[s].payout
<1>1. /\ p \in Payouts
      /\ AmountOf[p] \in Nat
      /\ task[s].op = "reverse"
  BY PayoutAssumption DEF TasksInFlight, Tasks
<1>2. task[s].seen = "COMPLETED" /\ Completion(p) \in ledger
  BY <1>1 DEF TasksInFlight, SeenCompleted
<1>3. Typed' /\ TasksInFlight'
  BY <1>1 DEF Typed, TasksInFlight, Labels, Reversal
<1>5. WritersWereAdmitted'
  BY <1>1, <1>2 DEF Typed, WritersWereAdmitted, Allowed
<1>6. ApprovalOnRecord' /\ SeenCompleted'
  BY DEF Typed, ApprovalOnRecord, SeenCompleted
<1>7. FinitelyMany'
  <2>1. \A q \in Payouts : Completion(q) \in ledger' <=> Completion(q) \in ledger
    BY SourcesDiffer
  <2>2. QED
    BY <2>1 DEF FinitelyMany
<1>8. StatusIsBacked' /\ NothingPaidWithoutApproval'
  BY <1>2, SourcesDiffer DEF StatusIsBacked, NothingPaidWithoutApproval
<1>9. QED
  BY <1>3, <1>5, <1>6, <1>7, <1>8

(* What other services do to the cash and its lock disturbs no request.    *)
LEMMA OthersKeepRequests ==
  ASSUME RequestsInv, UNCHANGED <<status, approvedBy, ledger, pc, task>>, cash' \in Int
  PROVE  RequestsInv'
  BY DEF RequestsInv, Typed, StatusIsBacked, NothingPaidWithoutApproval, TasksInFlight,
         WritersWereAdmitted, ApprovalOnRecord, SeenCompleted, FinitelyMany

(* The part of the invariant that leaves the cash out is inductive alone.  *)
THEOREM RequestsNext == RequestsInv /\ [Next]_vars => RequestsInv'
<1> SUFFICES ASSUME RequestsInv, [Next]_vars PROVE RequestsInv'
  OBVIOUS
<1>1. ASSUME NEW s \in Sessions, Start(s) PROVE RequestsInv'
  BY <1>1, CheckSharesKeepsRequests, LoadKeepsRequests DEF Start
<1>2. ASSUME NEW s \in Sessions, Run(s) PROVE RequestsInv'
  BY <1>2, CheckCashKeepsRequests, InsertRequestKeepsRequests, CheckTransitionKeepsRequests,
     WriteStatusKeepsRequests, CheckCompletedKeepsRequests, AdmitKeepsRequests,
     PostCompletionKeepsRequests DEF Run
<1>3. ASSUME NEW s \in Sessions, Wait(s) PROVE RequestsInv'
  BY <1>3, LockCashKeepsRequests, PostReversalKeepsRequests DEF Wait
<1>4. ASSUME NEW s \in Sessions, Crash(s) PROVE RequestsInv'
  BY <1>4, RefuseKeepsRequests DEF Crash
<1>5. CASE UNCHANGED vars
  BY <1>5, OthersKeepRequests DEF vars, RequestsInv, Typed
<1>6. QED
  BY <1>1, <1>2, <1>3, <1>4, <1>5 DEF Next

-----------------------------------------------------------------------------
(* The cash, and what the postings add up to.                              *)
PaidAmounts == [p \in PaidOut |-> AmountOf[p]]

LEMMA PaidIsFinite ==
  ASSUME FinitelyMany
  PROVE  /\ IsFiniteSet(PaidOut)
         /\ \A p \in PaidOut : AmountOf[p] \in Nat
         /\ Balance \in Int
<1>1. IsFiniteSet(PaidOut)
  <2>1. PaidOut \subseteq {p \in Payouts : Completion(p) \in ledger}
    BY DEF PaidOut
  <2>2. QED
    BY <2>1, FS_Subset DEF FinitelyMany
<1>2. \A p \in PaidOut : AmountOf[p] \in Nat
  BY PayoutAssumption DEF PaidOut
<1>3. SumFunction(PaidAmounts) \in Int
  <2>1. DOMAIN PaidAmounts = PaidOut /\ \A p \in PaidOut : PaidAmounts[p] \in Int
    BY <1>2 DEF PaidAmounts
  <2>2. QED
    BY <1>1, <2>1, TotalType
<1>4. QED
  BY <1>1, <1>2, <1>3 DEF Balance, PaidAmounts

LEMMA SameLedgerSameBalance ==
  ASSUME UNCHANGED <<ledger, cash>>
  PROVE  cash' = cash /\ Balance' = Balance
  BY DEF Balance, PaidOut

LEMMA CompletionMovesCash ==
  ASSUME RequestsInv, NEW s \in Sessions, PostCompletion(s)
  PROVE  cash' = cash + (Balance' - Balance)
<1> USE DEF RequestsInv
<1>1. PICK p \in Payouts : p = task[s].payout
  BY DEF PostCompletion, TasksInFlight, Tasks
<1>2. /\ ledger' = ledger \cup {Completion(p)}
      /\ cash' = IF Completion(p) \in ledger THEN cash ELSE cash - AmountOf[p]
  BY <1>1 DEF PostCompletion
<1>3. CASE Completion(p) \in ledger
  <2>1. ledger' = ledger /\ cash' = cash
    BY <1>2, <1>3
  <2>2. QED
    BY <2>1, SameLedgerSameBalance, PaidIsFinite DEF Typed
<1>4. CASE Completion(p) \notin ledger
  <2>1. p \notin PaidOut /\ PaidOut' = PaidOut \cup {p}
    BY <1>2, <1>4, SourcesDiffer DEF PaidOut, StatusIsBacked
  <2>2. /\ DOMAIN PaidAmounts = PaidOut
        /\ PaidAmounts' = [q \in PaidOut \cup {p} |-> AmountOf[q]]
        /\ \A q \in PaidOut : AmountOf[q] \in Int
        /\ AmountOf[p] \in Int
    BY <2>1, PaidIsFinite, PayoutAssumption DEF PaidAmounts
  <2>3. SumFunction([q \in PaidOut \cup {p} |-> AmountOf[q]])
          = SumFunction(PaidAmounts) + AmountOf[p]
    BY <2>1, <2>2, PaidIsFinite, TotalAdds DEF PaidAmounts
  <2>4. Balance' = - SumFunction(PaidAmounts') /\ Balance = - SumFunction(PaidAmounts)
    BY DEF Balance, PaidAmounts
  <2>5. SumFunction(PaidAmounts) \in Int
    BY <2>2, PaidIsFinite, TotalType DEF PaidAmounts
  <2>6. QED
    BY <1>2, <1>4, <2>2, <2>3, <2>4, <2>5 DEF Typed
<1>5. QED
  BY <1>3, <1>4

LEMMA ReversalMovesCash ==
  ASSUME RequestsInv, NEW s \in Sessions, PostReversal(s)
  PROVE  cash' = cash + (Balance' - Balance)
<1> USE DEF RequestsInv
<1>1. PICK p \in Payouts : p = task[s].payout /\ Completion(p) \in ledger
  BY DEF PostReversal, TasksInFlight, Tasks, SeenCompleted
<1>2. /\ ledger' = ledger \cup {Reversal(p)}
      /\ cash' = IF Reversal(p) \in ledger THEN cash ELSE cash + AmountOf[p]
  BY <1>1 DEF PostReversal
<1>3. CASE Reversal(p) \in ledger
  <2>1. ledger' = ledger /\ cash' = cash
    BY <1>2, <1>3
  <2>2. QED
    BY <2>1, SameLedgerSameBalance, PaidIsFinite DEF Typed
<1>4. CASE Reversal(p) \notin ledger
  <2>1. p \in PaidOut /\ PaidOut' = PaidOut \ {p}
    BY <1>1, <1>2, <1>4, SourcesDiffer DEF PaidOut
  <2>2. PICK Rest : Rest = PaidOut \ {p}
    OBVIOUS
  <2>3. /\ IsFiniteSet(Rest) /\ p \notin Rest /\ PaidOut = Rest \cup {p}
        /\ \A q \in PaidOut : AmountOf[q] \in Int
    BY <2>1, <2>2, PaidIsFinite, FS_Subset
  <2>4. SumFunction(PaidAmounts) = SumFunction([q \in Rest |-> AmountOf[q]]) + AmountOf[p]
    BY <2>3, TotalAdds DEF PaidAmounts
  <2>5. /\ Balance' = - SumFunction([q \in Rest |-> AmountOf[q]])
        /\ Balance = - SumFunction(PaidAmounts)
    BY <2>1, <2>2 DEF Balance, PaidAmounts
  <2>6. SumFunction([q \in Rest |-> AmountOf[q]]) \in Int
    BY <2>3, TotalType
  <2>7. QED
    BY <1>2, <1>4, <2>1, <2>3, <2>4, <2>5, <2>6 DEF Typed
<1>5. QED
  BY <1>3, <1>4

LEMMA StepsOfRequests ==
  ASSUME NEW s \in Sessions, Start(s) \/ Run(s) \/ Wait(s) \/ Crash(s)
  PROVE  \/ UNCHANGED <<ledger, cash>>
         \/ PostCompletion(s)
         \/ PostReversal(s)
  BY DEF Start, CheckShares, Load, Run, CheckCash, InsertRequest, CheckTransition, WriteStatus,
         CheckCompleted, Admit, Wait, LockCash, Crash, Refuse, Advance, Rows

(* No step changes the cash but by what its posting changes the balance.   *)
LEMMA StepMovesCash ==
  ASSUME RequestsInv, [Next]_vars
  PROVE  cash' = cash + (Balance' - Balance)
<1>1. ASSUME UNCHANGED <<ledger, cash>> PROVE cash' = cash + (Balance' - Balance)
  BY <1>1, SameLedgerSameBalance, PaidIsFinite DEF RequestsInv, Typed
<1>2. QED
  BY <1>1, StepsOfRequests, CompletionMovesCash, ReversalMovesCash DEF Next, vars

-----------------------------------------------------------------------------
(* The lock, and the cash that is read under it.                           *)
LEMMA StepKeepsLockHolder ==
  ASSUME RequestsInv, LockHolder, [Next]_vars
  PROVE  /\ LockHolder'
         /\ cashLock' = cashLock \/ {cashLock, cashLock'} \subseteq Sessions \cup {None}
<1> DEFINE Goal == /\ LockHolder'
                   /\ cashLock' = cashLock \/ {cashLock, cashLock'} \subseteq Sessions \cup {None}
<1> USE DEF RequestsInv, Typed, Goto, Rows
<1>1. ASSUME NEW s \in Sessions, Finish(s) PROVE Goal
  BY <1>1, PayoutAssumption DEF Finish, LockHolder
<1>2. ASSUME NEW s \in Sessions, NEW label \in Labels, Goto(s, label), UNCHANGED cashLock,
             pc[s] \in {"locked", "post"} <=> label \in {"locked", "post"}
      PROVE  Goal
  BY <1>2 DEF LockHolder
<1>3. ASSUME NEW s \in Sessions, Start(s) PROVE Goal
  BY <1>2, <1>3 DEF Start, CheckShares, Load, Labels
<1>4. ASSUME NEW s \in Sessions, Run(s) PROVE Goal
  BY <1>1, <1>2, <1>4
     DEF Run, CheckCash, InsertRequest, CheckTransition, WriteStatus, CheckCompleted, Admit,
         PostCompletion, Refuse, Advance, Labels
<1>5. ASSUME NEW s \in Sessions, LockCash(s) PROVE Goal
  BY <1>5, PayoutAssumption DEF LockCash, LockHolder
<1>6. ASSUME NEW s \in Sessions, PostReversal(s) PROVE Goal
  BY <1>2, <1>6 DEF PostReversal, Labels
<1>7. ASSUME NEW s \in Sessions, Crash(s) PROVE Goal
  BY <1>1, <1>7 DEF Crash, Refuse
<1>8. CASE UNCHANGED vars
  BY <1>8 DEF vars, LockHolder
<1>9. QED
  BY <1>3, <1>4, <1>5, <1>6, <1>7, <1>8 DEF Next, Wait

(* Cash is taken by the session that holds the lock alone, and put back    *)
(* while nobody holds it.                                                  *)
LEMMA StepRespectsLock ==
  ASSUME LockHolder, [Next]_vars
  PROVE  cash' = cash \/ cashLock \in Sessions \cup {None}
  BY StepsOfRequests DEF Next, vars, PostCompletion, PostReversal, LockHolder

LEMMA StepKeepsAdmittedCash ==
  ASSUME RequestsInv, LockHolder, AdmittedCash, [Next]_vars
  PROVE  AdmittedCash'
<1> USE DEF RequestsInv, Typed, Goto, Rows
<1>1. ASSUME NEW s \in Sessions, Finish(s), cash' = cash \/ pc[s] = "post" PROVE AdmittedCash'
  BY <1>1 DEF Finish, LockHolder, AdmittedCash
<1>2. ASSUME NEW s \in Sessions, NEW label \in Labels, Goto(s, label), label # "post",
             UNCHANGED cash, \A t \in Sessions \ {s} : task'[t] = task[t]
      PROVE  AdmittedCash'
  BY <1>2 DEF AdmittedCash
<1>3. ASSUME NEW s \in Sessions, Start(s) PROVE AdmittedCash'
  BY <1>2, <1>3 DEF Start, CheckShares, Load, Labels
<1>4. ASSUME NEW s \in Sessions, Run(s), ~ Admit(s) PROVE AdmittedCash'
  BY <1>1, <1>2, <1>4
     DEF Run, CheckCash, InsertRequest, CheckTransition, WriteStatus, CheckCompleted,
         PostCompletion, Refuse, Advance, Labels
<1>5. ASSUME NEW s \in Sessions, Admit(s) PROVE AdmittedCash'
  BY <1>1, <1>5 DEF Admit, Refuse, Advance, AdmittedCash
<1>6. ASSUME NEW s \in Sessions, LockCash(s) PROVE AdmittedCash'
  BY <1>2, <1>6 DEF LockCash, Labels
<1>7. ASSUME NEW s \in Sessions, PostReversal(s) PROVE AdmittedCash'
  <2>1. AmountOf[task[s].payout] \in Nat
    BY <1>7, PayoutAssumption DEF PostReversal, TasksInFlight, Tasks
  <2>2. cash' >= cash
    BY <1>7, <2>1 DEF PostReversal
  <2>3. \A t \in Sessions : pc[t] = "post" => AmountOf[task[t].payout] \in Nat
    BY PayoutAssumption DEF TasksInFlight, Tasks
  <2>4. cash' \in Int
    BY <1>7, <2>1 DEF PostReversal
  <2>5. QED
    BY <1>7, <2>2, <2>3, <2>4 DEF PostReversal, AdmittedCash
<1>8. ASSUME NEW s \in Sessions, Crash(s) PROVE AdmittedCash'
  BY <1>1, <1>8 DEF Crash, Refuse
<1>9. CASE UNCHANGED vars
  BY <1>9 DEF vars, AdmittedCash
<1>10. QED
  BY <1>3, <1>4, <1>5, <1>6, <1>7, <1>8, <1>9 DEF Next, Wait

(* Cash that was admitted is there when it is taken.                       *)
LEMMA CompletionIsCovered ==
  ASSUME RequestsInv, AdmittedCash, NEW s \in Sessions, PostCompletion(s)
  PROVE  cash' >= 0
<1>1. /\ AmountOf[task[s].payout] \in Nat /\ cash \in Int
      /\ AmountOf[task[s].payout] <= cash
  BY PayoutAssumption DEF PostCompletion, RequestsInv, Typed, TasksInFlight, Tasks, AdmittedCash
<1>2. QED
  BY <1>1 DEF PostCompletion

LEMMA PostedIsCovered ==
  ASSUME RequestsInv, AdmittedCash, [Next]_vars,
         NEW p \in Payouts, Completion(p) \in ledger' \ ledger
  PROVE  cash' >= 0
<1>1. PICK s \in Sessions : PostCompletion(s)
  BY StepsOfRequests, SourcesDiffer DEF Next, vars, PostReversal
<1>2. QED
  BY <1>1, CompletionIsCovered

LEMMA StepNeverOverdraws ==
  ASSUME RequestsInv, AdmittedCash, CashNeverOverdrawn, [Next]_vars
  PROVE  CashNeverOverdrawn'
<1> USE DEF RequestsInv, Typed, CashNeverOverdrawn
<1>2. ASSUME NEW s \in Sessions, PostCompletion(s) PROVE cash' >= 0
  BY <1>2, CompletionIsCovered
<1>3. ASSUME NEW s \in Sessions, PostReversal(s) PROVE cash' >= 0
  <2>1. AmountOf[task[s].payout] \in Nat
    BY <1>3, PayoutAssumption DEF PostReversal, TasksInFlight, Tasks
  <2>2. QED
    BY <1>3, <2>1 DEF PostReversal
<1>4. QED
  BY <1>2, <1>3, StepsOfRequests DEF Next, vars

-----------------------------------------------------------------------------
THEOREM InitInv == Init => Inv
<1> SUFFICES ASSUME Init PROVE Inv
  OBVIOUS
<1> USE DEF Init
<1>1. PaidOut = {} /\ {p \in Payouts : Completion(p) \in ledger} = {}
  BY DEF PaidOut
<1>2. FinitelyMany
  BY <1>1, FS_EmptySet DEF FinitelyMany
<1>3. CashIsTheBalance
  <2>1. DOMAIN PaidAmounts = {}
    BY <1>1 DEF PaidAmounts
  <2>2. SumFunction(PaidAmounts) = 0
    BY <2>1, TotalOfNothing
  <2>3. QED
    BY <2>2, PayoutAssumption DEF CashIsTheBalance, Balance, PaidAmounts
<1>4. QED
  BY <1>2, <1>3, PayoutAssumption
     DEF Inv, RequestsInv, TypeOK, Typed, CashNeverOverdrawn, StatusIsBacked,
         NothingPaidWithoutApproval, LockHolder, TasksInFlight, AdmittedCash,
         WritersWereAdmitted, ApprovalOnRecord, SeenCompleted, PastApproval, Statuses, Labels

BalanceTyped == Balance \in Int

LEMMA BalanceType == FinitelyMany => BalanceTyped
  BY PaidIsFinite DEF BalanceTyped

THEOREM NextInv == Inv /\ [Next]_vars => Inv'
<1> SUFFICES ASSUME Inv, [Next]_vars PROVE Inv'
  OBVIOUS
<1> USE DEF Inv
<1>1. RequestsInv'
  BY RequestsNext
<1>2. LockHolder' /\ TypeOK'
  BY <1>1, StepKeepsLockHolder DEF TypeOK, RequestsInv
<1>3. AdmittedCash' /\ CashNeverOverdrawn'
  BY StepKeepsAdmittedCash, StepNeverOverdraws
<1>4. FinitelyMany => BalanceTyped
  BY BalanceType
<1>5. FinitelyMany' => BalanceTyped'
  BY <1>4, BalanceType, PTL
<1>6. CashIsTheBalance'
  <2>1. Balance \in Int /\ Balance' \in Int /\ OpeningCash \in Int
    BY <1>1, <1>4, <1>5, PayoutAssumption DEF RequestsInv, BalanceTyped
  <2>2. QED
    BY <2>1, StepMovesCash DEF CashIsTheBalance
<1>7. QED
  BY <1>1, <1>2, <1>3, <1>6

THEOREM SpecInv == Spec => []Inv
  BY InitInv, NextInv, PTL DEF Spec

(* Every payout row, session and lock has its type in all behaviours.      *)
THEOREM TypeCorrect == Spec => []TypeOK
<1>1. Inv => TypeOK
  BY DEF Inv
<1>2. QED
  BY <1>1, SpecInv, PTL

(* However many completions, retries, reversals and crashes interleave,    *)
(* complete never pays out cash that the Chama does not have.              *)
THEOREM CashIsNeverOverdrawn == Spec => []CashNeverOverdrawn
<1>1. Inv => CashNeverOverdrawn
  BY DEF Inv
<1>2. QED
  BY <1>1, SpecInv, PTL

(* A row that says paid, or paid back, has its posting, in spite of the    *)
(* stale statuses that requests write.                                     *)
THEOREM StatusesAreBacked == Spec => []StatusIsBacked
<1>1. Inv => StatusIsBacked
  BY DEF Inv, RequestsInv
<1>2. QED
  BY <1>1, SpecInv, PTL

(* The approval of somebody else stands behind every payment.              *)
THEOREM PaymentsWereApproved == Spec => []NothingPaidWithoutApproval
<1>1. Inv => NothingPaidWithoutApproval
  BY DEF Inv, RequestsInv
<1>2. QED
  BY <1>1, SpecInv, PTL

(* The cash completions are admitted on is what the payouts in the ledger  *)
(* leave of it, whatever is retried or paid back twice.                    *)
THEOREM CashIsWhatWasPosted == Spec => []CashIsTheBalance
<1>1. Inv => CashIsTheBalance
  BY DEF Inv
<1>2. QED
  BY <1>1, SpecInv, PTL
=============================================================================
