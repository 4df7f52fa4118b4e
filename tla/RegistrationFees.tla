-------------------------- MODULE RegistrationFees --------------------------
(***************************************************************************)
(* Registration fees and their payments, translated from                   *)
(* RegistrationFeeService (app/services/registration_fee.py).              *)
(*                                                                         *)
(* waive, pay and reverse_payment test the fee their session has loaded    *)
(* and overwrite the row by id at commit.  The payment row is flushed      *)
(* before the commit: from then on the partial unique index on confirmed   *)
(* payments makes other inserts for the fee wait.  The reversal posting    *)
(* commits on its own, ahead of the rows it belongs to.                    *)
(*                                                                         *)
(* Left out: role checks, the audit trail, and the accounts posted to.     *)
(***************************************************************************)
EXTENDS Naturals, FiniteSets

CONSTANTS
  Sessions,
  Fees,      \* fee rows, one of each membership
  Payments,  \* ids of payment rows; used up, which bounds the model
  AmountOf,  \* AmountOf[f]: may be 0, payments may not
  None

FeeStatuses == {"OWED", "WAIVED", "PAID"}
PaymentRows == [fee : Fees, status : {"CONFIRMED", "REVERSED"}]
Labels == {"idle", "waive", "insert", "post", "find", "undo", "mark"}
Tasks == [fee : Fees, payment : Payments \cup {None}]

FeeAssumption ==
  /\ None \notin Sessions \cup Fees \cup Payments \cup PaymentRows \cup Tasks
  /\ AmountOf \in [Fees -> Nat]

VARIABLES
  fee,     \* registration_fees.status
  payment, \* registration_fee_payments: its fee and status, or None
  ledger,  \* sources posted: <<"PAYMENT", p>> and <<"REVERSAL", p>>
  pc,      \* where each session is
  task     \* its request: the fee, and the payment it inserts or reverses

vars == <<fee, payment, ledger, pc, task>>

Of(f) == {p \in Payments : payment[p] # None /\ payment[p].fee = f}

(* Bug: the partial unique index on confirmed payments is missing.         *)
NoneConfirmed(f) == {}

Confirmed(f) == {p \in Of(f) : payment[p].status = "CONFIRMED"}

Init ==
  /\ fee = [f \in Fees |-> "OWED"]
  /\ payment = [p \in Payments |-> None]
  /\ ledger = {}
  /\ pc = [s \in Sessions |-> "idle"]
  /\ task = [s \in Sessions |-> None]

Rows == <<fee, payment, ledger>>

Goto(s, label) == pc' = [pc EXCEPT ![s] = label]

Finish(s) ==
  /\ Goto(s, "idle")
  /\ task' = [task EXCEPT ![s] = None]

Refuse(s) == Finish(s) /\ UNCHANGED Rows

(* Each request starts by loading the fee.  Paying what is PAID answers    *)
(* with the fee and changes nothing; any other status is refused.          *)
Begin(s, f) ==
  /\ pc[s] = "idle"
  /\ \/ fee[f] = "OWED" /\ Goto(s, "waive")
     \/ fee[f] = "OWED" /\ Goto(s, "insert")
     \/ fee[f] = "PAID" /\ Goto(s, "find")
  /\ task' = [task EXCEPT ![s] = [fee |-> f, payment |-> None]]
  /\ UNCHANGED Rows

Waive(s) ==
  /\ pc[s] = "waive"
  /\ fee' = [fee EXCEPT ![task[s].fee] = "WAIVED"]
  /\ Finish(s)
  /\ UNCHANGED <<payment, ledger>>

(* The flush of the new payment, CONFIRMED from the start.  An uncommitted *)
(* row of another session holds the index entry: the insert waits for it.  *)
IndexIsFree(s) ==
  \A t \in Sessions \ {s} : pc[t] = "post" => task[t].fee # task[s].fee

InsertPayment(s) ==
  /\ pc[s] = "insert"
  /\ IndexIsFree(s)
  /\ Confirmed(task[s].fee) = {}
  /\ AmountOf[task[s].fee] > 0
  /\ \E p \in Payments :
       /\ payment[p] = None
       /\ \A t \in Sessions : task[t] # None => task[t].payment # p
       /\ task' = [task EXCEPT ![s].payment = p]
  /\ Goto(s, "post")
  /\ UNCHANGED Rows

(* The index or the CHECK on the amount refuses the row.                   *)
RefuseInsert(s) ==
  /\ pc[s] = "insert"
  /\ IndexIsFree(s)
  /\ Confirmed(task[s].fee) # {} \/ AmountOf[task[s].fee] = 0
  /\ Refuse(s)

(* Bug: the rows are committed and the posting is lost.                    *)
PostPaymentAlone(s) ==
  /\ pc[s] = "post"
  /\ payment' = [payment EXCEPT ![task[s].payment] =
                   [fee |-> task[s].fee, status |-> "CONFIRMED"]]
  /\ fee' = [fee EXCEPT ![task[s].fee] = "PAID"]
  /\ Finish(s)
  /\ UNCHANGED ledger

(* post_transaction commits the payment, the fee and the posting.          *)
PostPayment(s) ==
  /\ pc[s] = "post"
  /\ payment' = [payment EXCEPT ![task[s].payment] =
                   [fee |-> task[s].fee, status |-> "CONFIRMED"]]
  /\ fee' = [fee EXCEPT ![task[s].fee] = "PAID"]
  /\ ledger' = ledger \cup {<<"PAYMENT", task[s].payment>>}
  /\ Finish(s)

(* reverse_payment: the confirmed payment and, further down, its posting.  *)
FindPayment(s) ==
  /\ pc[s] = "find"
  /\ \/ /\ Confirmed(task[s].fee) = {}
        /\ Refuse(s)
     \/ \E p \in Confirmed(task[s].fee) :
          /\ task' = [task EXCEPT ![s].payment = p]
          /\ Goto(s, "undo")
          /\ UNCHANGED Rows

(* reverse_transaction commits the compensating posting, or finds it done. *)
PostReversal(s) ==
  /\ pc[s] = "undo"
  /\ ledger' = IF <<"PAYMENT", task[s].payment>> \in ledger
               THEN ledger \cup {<<"REVERSAL", task[s].payment>>} ELSE ledger
  /\ Goto(s, "mark")
  /\ UNCHANGED <<fee, payment, task>>

(* Bug: the payment is marked, the fee stays PAID.                         *)
MarkPaymentOnly(s) ==
  /\ pc[s] = "mark"
  /\ payment' = [payment EXCEPT ![task[s].payment].status = "REVERSED"]
  /\ Finish(s)
  /\ UNCHANGED <<fee, ledger>>

MarkReversed(s) ==
  /\ pc[s] = "mark"
  /\ payment' = [payment EXCEPT ![task[s].payment].status = "REVERSED"]
  /\ fee' = [fee EXCEPT ![task[s].fee] = "OWED"]
  /\ Finish(s)
  /\ UNCHANGED ledger

(* The process dies or the database connection breaks: the open            *)
(* transaction is rolled back, what is committed stays.                    *)
Crash(s) == pc[s] # "idle" /\ Refuse(s)

Next ==
  \E s \in Sessions :
    \/ \E f \in Fees : Begin(s, f)
    \/ Waive(s) \/ InsertPayment(s) \/ RefuseInsert(s) \/ PostPayment(s)
    \/ FindPayment(s) \/ PostReversal(s) \/ MarkReversed(s)
    \/ Crash(s)

Spec == Init /\ [][Next]_vars
-----------------------------------------------------------------------------
Posted(p) == <<"PAYMENT", p>> \in ledger
Undone(p) == <<"REVERSAL", p>> \in ledger

(* Type invariant.                                                         *)
FeesTypeOK ==
  /\ fee \in [Fees -> FeeStatuses]
  /\ payment \in [Payments -> PaymentRows \cup {None}]
  /\ ledger \subseteq {"PAYMENT", "REVERSAL"} \X Payments
  /\ pc \in [Sessions -> Labels]
  /\ task \in [Sessions -> Tasks \cup {None}]

(* A fee that is PAID has a confirmed payment that was posted, whatever    *)
(* waive and reverse_payment wrote over it late; "a fee is OWED again only *)
(* after its payment is reversed" (ADR-022) is what late writers break.    *)
PaidIsBacked ==
  \A f \in Fees : fee[f] = "PAID" => \E p \in Confirmed(f) : Posted(p)

(* Payment rows tell what the ledger holds: a row exists only with its     *)
(* posting, and REVERSED only with the compensating one, although that is  *)
(* committed first and a crash may come in between.                        *)
PaymentsMatchLedger ==
  \A p \in Payments :
    /\ Posted(p) <=> payment[p] # None
    /\ Undone(p) => Posted(p)
    /\ payment[p] # None /\ payment[p].status = "REVERSED" => Undone(p)

(* "Registration-fee money now flows through the immutable ledger exactly  *)
(* once" (ADR-022): at no time is more than one payment of a fee standing  *)
(* in the ledger.                                                          *)
CollectedOnce ==
  \A f \in Fees : Cardinality({p \in Of(f) : Posted(p) /\ ~Undone(p)}) <= 1

(* The three together: fees, payments and ledger agree.                    *)
FeesMatchLedger == PaidIsBacked /\ PaymentsMatchLedger /\ CollectedOnce
=============================================================================
