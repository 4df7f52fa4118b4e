------------------------------ MODULE Payouts ------------------------------
(***************************************************************************)
(* Payouts and the cash they take, translated from PayoutService           *)
(* (app/services/payout.py) and the cash helpers of app/services/finance.py*)
(* on PostgreSQL.                                                          *)
(*                                                                         *)
(* A session serves one request at a time, in database transactions of its *)
(* own.  It tests the status it loaded and later overwrites the row by id. *)
(* lock_cash_account holds the Chama's Cash account row FOR UPDATE until   *)
(* the transaction ends; any posting to Cash needs that row FOR KEY SHARE  *)
(* (its entries refer to it) and so waits for the lock, too.  The lock on  *)
(* the payout row itself only orders two commits and is not modelled: they *)
(* are single steps and come in either order.                              *)
(*                                                                         *)
(* Left out: role checks, the audit trail, and what else moves cash and    *)
(* shares (Treasury composes payouts with loans and deposits).             *)
(***************************************************************************)
EXTENDS Integers, FiniteSets, Functions

CONSTANTS
  Sessions,
  Payouts,      \* ids of payouts that may be requested
  Members,
  OwnerOf,      \* OwnerOf[p]: the member payout p is requested by
  AmountOf,
  ShareValueOf, \* ShareValueOf[m]: units of ACTIVE shares at the unit price
  OpeningCash,
  None

ASSUME PayoutAssumption ==
  /\ None \notin Sessions /\ None \notin Members /\ None \notin Payouts
  /\ OwnerOf \in [Payouts -> Members]
  /\ AmountOf \in [Payouts -> Nat \ {0}]
  /\ ShareValueOf \in [Members -> Nat]
  /\ OpeningCash \in Nat

VARIABLES
  status,     \* payouts.status, "ABSENT" when there is no row
  approvedBy, \* payouts.approved_by_user_id
  ledger,     \* sources posted: <<"COMPLETION", p>> and <<"REVERSAL", p>>
  cash,       \* available_chama_cash: the sum of the Chama's Cash entries
  cashLock,   \* the session that has locked the Cash account, or None
  pc,         \* where each session is
  task        \* its request: operation, payout, loaded status, actor

vars == <<status, approvedBy, ledger, cash, cashLock, pc, task>>

Completion(p) == <<"COMPLETION", p>>
Reversal(p) == <<"REVERSAL", p>>

Operations == {"request", "approve", "reject", "process", "complete", "fail", "reverse"}
Statuses == {"ABSENT", "REQUESTED", "APPROVED", "REJECTED", "PROCESSING",
             "COMPLETED", "FAILED", "REVERSED"}
Labels == {"idle", "cashCheck", "insert", "loaded", "lock", "locked", "post", "undo", "write"}

Tasks == [op : Operations, payout : Payouts, seen : Statuses, by : Members]

(* Bug: a payout can be processed before it is approved.                   *)
AllowedUnapproved(operation) ==
  CASE operation = "approve"  -> "REQUESTED"
    [] operation = "reject"   -> "REQUESTED"
    [] operation = "process"  -> "REQUESTED"
    [] operation = "complete" -> "PROCESSING"
    [] operation = "fail"     -> "PROCESSING"
    [] operation = "reverse"  -> "COMPLETED"

(* The status each transition is allowed from, and the one it leads to.    *)
Allowed(operation) ==
  CASE operation = "approve"  -> "REQUESTED"
    [] operation = "reject"   -> "REQUESTED"
    [] operation = "process"  -> "APPROVED"
    [] operation = "complete" -> "PROCESSING"
    [] operation = "fail"     -> "PROCESSING"
    [] operation = "reverse"  -> "COMPLETED"

(* Bug: a status the enum does not have.                                   *)
BecomesRefunded(operation) ==
  CASE operation = "approve"  -> "APPROVED"
    [] operation = "reject"   -> "REJECTED"
    [] operation = "process"  -> "PROCESSING"
    [] operation = "complete" -> "COMPLETED"
    [] operation = "fail"     -> "FAILED"
    [] operation = "reverse"  -> "REFUNDED"

Becomes(operation) ==
  CASE operation = "approve"  -> "APPROVED"
    [] operation = "reject"   -> "REJECTED"
    [] operation = "process"  -> "PROCESSING"
    [] operation = "complete" -> "COMPLETED"
    [] operation = "fail"     -> "FAILED"
    [] operation = "reverse"  -> "REVERSED"

(* member_share_value less the payouts that are COMPLETED at this moment.  *)
AvailableShareValue(m) ==
  ShareValueOf[m]
    - SumFunction([p \in {q \in Payouts : OwnerOf[q] = m /\ status[q] = "COMPLETED"}
                     |-> AmountOf[p]])

Init ==
  /\ status = [p \in Payouts |-> "ABSENT"]
  /\ approvedBy = [p \in Payouts |-> None]
  /\ ledger = {}
  /\ cash = OpeningCash
  /\ cashLock = None
  /\ pc = [s \in Sessions |-> "idle"]
  /\ task = [s \in Sessions |-> None]

Rows == <<status, approvedBy, ledger, cash>>

Goto(s, label) == pc' = [pc EXCEPT ![s] = label]

(* Bug: the transaction is left open.                                      *)
FinishKeepingLock(s) ==
  /\ Goto(s, "idle")
  /\ task' = [task EXCEPT ![s] = None]
  /\ UNCHANGED cashLock

(* The request is over, answered or refused: its transaction ends and with *)
(* it the lock it may hold.                                                *)
Finish(s) ==
  /\ Goto(s, "idle")
  /\ task' = [task EXCEPT ![s] = None]
  /\ cashLock' = IF cashLock = s THEN None ELSE cashLock

Refuse(s) == Finish(s) /\ UNCHANGED Rows

Advance(s, label) ==
  /\ Goto(s, label)
  /\ UNCHANGED <<Rows, cashLock, task>>

(* request_payout, first query: the member's share value.                  *)
CheckShares(s, p) ==
  /\ pc[s] = "idle"
  /\ status[p] = "ABSENT"
  /\ \A t \in Sessions : task[t] # None => task[t].payout # p
  /\ AmountOf[p] <= AvailableShareValue(OwnerOf[p])
  /\ task' = [task EXCEPT ![s] =
       [op |-> "request", payout |-> p, seen |-> "ABSENT", by |-> OwnerOf[p]]]
  /\ Goto(s, "cashCheck")
  /\ UNCHANGED <<Rows, cashLock>>

(* request_payout, second query: the cash, without the lock.               *)
CheckCash(s) ==
  /\ pc[s] = "cashCheck"
  /\ IF AmountOf[task[s].payout] <= cash THEN Advance(s, "insert") ELSE Refuse(s)

InsertRequest(s) ==
  /\ pc[s] = "insert"
  /\ status' = [status EXCEPT ![task[s].payout] = "REQUESTED"]
  /\ Finish(s)
  /\ UNCHANGED <<approvedBy, ledger, cash>>

(* _get_chama_payout                                                       *)
Load(s, p, operation, actor) ==
  /\ pc[s] = "idle"
  /\ status[p] # "ABSENT"
  /\ task' = [task EXCEPT ![s] =
       [op |-> operation, payout |-> p, seen |-> status[p], by |-> actor]]
  /\ Goto(s, "loaded")
  /\ UNCHANGED <<Rows, cashLock>>

(* Bug: a reversal only marks the payout.                                  *)
CheckTransitionOnly(s) ==
  /\ pc[s] = "loaded"
  /\ task[s].op # "complete"
  /\ IF task[s].seen = Allowed(task[s].op) THEN Advance(s, "write") ELSE Refuse(s)

(* _transition and _forbid_self_action, on the loaded status; a reversal   *)
(* goes to the ledger before it writes the status.                         *)
CheckTransition(s) ==
  /\ pc[s] = "loaded"
  /\ task[s].op # "complete"
  /\ IF /\ task[s].seen = Allowed(task[s].op)
        /\ task[s].op \in {"approve", "reject"} => task[s].by # OwnerOf[task[s].payout]
     THEN Advance(s, IF task[s].op = "reverse" THEN "undo" ELSE "write")
     ELSE Refuse(s)

(* The commit of approve, reject, process and fail, and the last one of    *)
(* reverse.                                                                *)
WriteStatus(s) ==
  /\ pc[s] = "write"
  /\ status' = [status EXCEPT ![task[s].payout] = Becomes(task[s].op)]
  /\ approvedBy' = IF task[s].op = "approve"
                   THEN [approvedBy EXCEPT ![task[s].payout] = task[s].by]
                   ELSE approvedBy
  /\ Finish(s)
  /\ UNCHANGED <<ledger, cash>>

(* complete: a COMPLETED payout is the answer.                             *)
CheckCompleted(s) ==
  /\ pc[s] = "loaded"
  /\ task[s].op = "complete"
  /\ IF task[s].seen = "COMPLETED" THEN Refuse(s) ELSE Advance(s, "lock")

(* Bug: SELECT without FOR UPDATE.                                         *)
SelectCash(s) ==
  /\ pc[s] = "lock"
  /\ Goto(s, "locked")
  /\ UNCHANGED <<Rows, cashLock, task>>

(* lock_cash_account                                                       *)
LockCash(s) ==
  /\ pc[s] = "lock"
  /\ cashLock = None
  /\ cashLock' = s
  /\ Goto(s, "locked")
  /\ UNCHANGED <<Rows, task>>

(* complete, under the lock: the transition is tested on the status loaded *)
(* before it, the cash is read now.                                        *)
Admit(s) ==
  /\ pc[s] = "locked"
  /\ IF task[s].seen = Allowed("complete") /\ AmountOf[task[s].payout] <= cash
     THEN Advance(s, "post")
     ELSE Refuse(s)

(* complete, post_transaction: posting and status in one commit; or the    *)
(* posting is there already, answers the call, and the status is committed *)
(* alone.                                                                  *)
PostCompletion(s) ==
  LET p == task[s].payout IN
  /\ pc[s] = "post"
  /\ status' = [status EXCEPT ![p] = "COMPLETED"]
  /\ ledger' = ledger \cup {Completion(p)}
  /\ cash' = IF Completion(p) \in ledger THEN cash ELSE cash - AmountOf[p]
  /\ Finish(s)
  /\ UNCHANGED approvedBy

(* reverse, reverse_transaction: commits the compensating posting, or is   *)
(* answered with the one that is there.  The status is still to be written.*)
PostReversal(s) ==
  LET p == task[s].payout IN
  /\ pc[s] = "undo"
  /\ Reversal(p) \in ledger \/ cashLock = None
  /\ ledger' = ledger \cup {Reversal(p)}
  /\ cash' = IF Reversal(p) \in ledger THEN cash ELSE cash + AmountOf[p]
  /\ Goto(s, "write")
  /\ UNCHANGED <<status, approvedBy, cashLock, task>>

(* The process or its connection dies; PostgreSQL rolls back.              *)
Crash(s) == pc[s] # "idle" /\ Refuse(s)

Start(s) ==
  \/ \E p \in Payouts : CheckShares(s, p)
  \/ \E p \in Payouts, operation \in Operations \ {"request"}, m \in Members :
       Load(s, p, operation, m)

Run(s) ==
  \/ CheckCash(s)
  \/ InsertRequest(s)
  \/ CheckTransition(s)
  \/ WriteStatus(s)
  \/ CheckCompleted(s)
  \/ Admit(s)
  \/ PostCompletion(s)

(* Steps that may have to wait for the Cash account.                       *)
Wait(s) == LockCash(s) \/ PostReversal(s)

Next == \E s \in Sessions : Start(s) \/ Run(s) \/ Wait(s) \/ Crash(s)

Spec == Init /\ [][Next]_vars

(* A request that is being served is served on, and PostgreSQL queues the  *)
(* waiters for a row lock, so that nobody is passed over for ever.         *)
Fairness == \A s \in Sessions : WF_vars(Run(s)) /\ SF_vars(Wait(s))

FairSpec == Spec /\ Fairness
-----------------------------------------------------------------------------
Typed ==
  /\ status \in [Payouts -> Statuses]
  /\ approvedBy \in [Payouts -> Members \cup {None}]
  /\ ledger \subseteq {"COMPLETION", "REVERSAL"} \X Payouts
  /\ cash \in Int
  /\ pc \in [Sessions -> Labels]
  /\ task \in [Sessions -> Tasks \cup {None}]

(* Type invariant.  No other service is there to hold the lock.            *)
TypeOK == Typed /\ cashLock \in Sessions \cup {None}

(* "Concurrent completions/disbursements are serialized and cannot         *)
(* collectively overspend the Chama's cash" (PayoutService.complete).      *)
CashNeverOverdrawn == cash >= 0

(* What the postings of payouts add up to.                                 *)
PaidOut == {p \in Payouts : Completion(p) \in ledger /\ Reversal(p) \notin ledger}

Balance == - SumFunction([p \in PaidOut |-> AmountOf[p]])

(* The cash that completions are admitted on is what the postings add up   *)
(* to: retries and reversals book every payout once.                       *)
CashIsTheBalance == cash = OpeningCash + Balance

(* "Completed payout has a financial record": a payout whose row says that *)
(* it was paid out, or paid back, has the posting, although the status may *)
(* be written over by a request that loaded it long ago; and nothing is    *)
(* paid back that was not paid out.                                        *)
StatusIsBacked ==
  \A p \in Payouts :
    /\ status[p] \in {"COMPLETED", "REVERSED"} => Completion(p) \in ledger
    /\ status[p] = "REVERSED" => Reversal(p) \in ledger
    /\ Reversal(p) \in ledger => Completion(p) \in ledger

(* No money leaves without the approval of somebody other than the member  *)
(* who gets it (ADR-021), whatever requests overtake each other.           *)
NothingPaidWithoutApproval ==
  \A p \in Payouts :
    Completion(p) \in ledger => approvedBy[p] \in Members \ {OwnerOf[p]}

(* Nobody waits for ever: each request ends and gives the lock back.       *)
RequestsEnd == \A s \in Sessions : pc[s] # "idle" ~> pc[s] = "idle"

(* ADR-021: "a failed payout posts no ledger entry", "ledger record        *)
(* without completed payout [is] impossible".                              *)
PostedOnlyIfCompleted ==
  \A p \in Payouts : Completion(p) \in ledger => status[p] \in {"COMPLETED", "REVERSED"}

(* ADR-021: "a member can never receive more than the equity they have     *)
(* contributed".                                                           *)
NeverMoreThanContributed ==
  \A m \in Members :
    SumFunction([p \in {q \in PaidOut : OwnerOf[q] = m} |-> AmountOf[p]]) <= ShareValueOf[m]
-----------------------------------------------------------------------------
(* The inductive invariant: what a session knows at each label.  The first *)
(* part says nothing of the cash and its lock, which other services use as *)
(* well.                                                                   *)
TasksInFlight ==
  \A s \in Sessions :
    /\ pc[s] # "idle" => task[s] \in Tasks
    /\ pc[s] \in {"cashCheck", "insert"} => task[s].op = "request"
    /\ pc[s] \in {"loaded", "lock", "locked", "post", "undo", "write"} => task[s].op # "request"
    /\ pc[s] \in {"lock", "locked", "post"} => task[s].op = "complete"
    /\ pc[s] = "post" => task[s].seen = "PROCESSING"
    /\ pc[s] = "undo" => task[s].op = "reverse" /\ task[s].seen = "COMPLETED"

WritersWereAdmitted ==
  \A s \in Sessions : pc[s] = "write" =>
    /\ task[s].op # "complete"
    /\ task[s].seen = Allowed(task[s].op)
    /\ task[s].op = "approve" => task[s].by # OwnerOf[task[s].payout]
    /\ task[s].op = "reverse" => Reversal(task[s].payout) \in ledger

(* Wherever a payout has passed its approval, in the row or in a status    *)
(* that some session loaded, the approval is on record.                    *)
PastApproval == {"APPROVED", "PROCESSING", "COMPLETED", "FAILED", "REVERSED"}

ApprovalOnRecord ==
  /\ \A p \in Payouts :
       status[p] \in PastApproval => approvedBy[p] \in Members \ {OwnerOf[p]}
  /\ \A s \in Sessions :
       pc[s] # "idle" /\ task[s].seen \in PastApproval =>
         approvedBy[task[s].payout] \in Members \ {OwnerOf[task[s].payout]}

(* A session that loaded a payout as COMPLETED knows it was paid.          *)
SeenCompleted ==
  \A s \in Sessions :
    pc[s] # "idle" /\ task[s].seen = "COMPLETED" => Completion(task[s].payout) \in ledger

FinitelyMany == IsFiniteSet({p \in Payouts : Completion(p) \in ledger})

RequestsInv ==
  /\ Typed
  /\ StatusIsBacked
  /\ NothingPaidWithoutApproval
  /\ TasksInFlight
  /\ WritersWereAdmitted
  /\ ApprovalOnRecord
  /\ SeenCompleted
  /\ FinitelyMany

LockHolder == \A s \in Sessions : cashLock = s <=> pc[s] \in {"locked", "post"}

(* The cash a session has read under the lock is still there.              *)
AdmittedCash == \A s \in Sessions : pc[s] = "post" => AmountOf[task[s].payout] <= cash

Inv ==
  /\ RequestsInv
  /\ TypeOK
  /\ LockHolder
  /\ AdmittedCash
  /\ CashNeverOverdrawn
  /\ CashIsTheBalance
=============================================================================
