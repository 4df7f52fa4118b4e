----------------------------- MODULE C2BPayments ----------------------------
(***************************************************************************)
(* Manual Paybill payments, translated from C2BPaymentService              *)
(* (app/services/c2b_payment.py).                                          *)
(*                                                                         *)
(* The provider asks for validation before it takes the money and confirms *)
(* afterwards, as often as it likes and to several processes at once.  A   *)
(* confirmation is three transactions: store the event, settle, write the  *)
(* event's final status.  A callback is known by its TransID; a body is    *)
(* one payload with that id, standing for its hash.                        *)
(*                                                                         *)
(* Left out: callback token and size checks, which reject before anything  *)
(* is read or written; payloads without a TransID, stored and never        *)
(* settled; units and accounts (Contributions, LedgerPosting); one period  *)
(* and one connection stand for all.                                       *)
(***************************************************************************)
EXTENDS Integers, FiniteSets

CONSTANTS
  Sessions,
  Trans,          \* TransIDs
  Bodies,         \* payloads
  TransOf,        \* TransOf[b]
  MemberOf,       \* MemberOf[b]: BillRefNumber, None when no member has it
  AmountOf,       \* AmountOf[b]: TransAmount, 0 when missing or unreadable
  Matching,       \* bodies that parse and carry the connection's short code
  Callbacks,      \* what the provider sends: pairs of a kind and a payload
  Members,
  Contributions,  \* ids of contribution rows; used up, which bounds the model
  None

Kinds == {"VALIDATION", "CONFIRMATION"}
EventStatuses == {"RECEIVED", "PROCESSED", "REJECTED", "UNPROCESSABLE",
                  "DEDUPLICATED", "DISAGREEMENT"}
Events == [body : Bodies, status : EventStatuses]
ContributionRows ==
  [member : Members, amount : Int, status : {"PENDING", "CONFIRMED", "REVERSED"},
   by : Bodies \cup {"manual", None}]
Tasks == [kind : Kinds, body : Bodies, status : EventStatuses,
          contribution : Contributions \cup {None}]

C2BAssumption ==
  /\ None \notin Sessions \cup Bodies \cup Members \cup Contributions
  /\ None \notin Events \cup ContributionRows \cup Tasks
  /\ "manual" \notin Bodies \cup {None}
  /\ TransOf \in [Bodies -> Trans]
  /\ MemberOf \in [Bodies -> Members \cup {None}]
  /\ AmountOf \in [Bodies -> Int]
  /\ Matching \subseteq Bodies
  /\ Callbacks \subseteq {"VALIDATION", "CONFIRMATION"} \X Bodies

VARIABLES
  connection,   \* the connection is ACTIVE
  member,       \* member[m]: the membership is ACTIVE
  event,        \* payment_events by <<kind, TransID>>: body and status
  contribution, \* of the current period: member, amount, status; by is the
                \* payload that confirmed it, "manual", or None
  pc,           \* where each session is
  task          \* its payload, the status it will write, its contribution

vars == <<connection, member, event, contribution, pc, task>>

Labels == {"idle", "insert", "settle", "create", "confirm", "mark"}

Rows == <<connection, member, event, contribution>>

Init ==
  /\ connection = TRUE
  /\ member = [m \in Members |-> TRUE]
  /\ event = [k \in Kinds \X Trans |-> None]
  /\ contribution = [c \in Contributions |-> None]
  /\ pc = [s \in Sessions |-> "idle"]
  /\ task = [s \in Sessions |-> None]

Goto(s, label) == pc' = [pc EXCEPT ![s] = label]

Finish(s) ==
  /\ Goto(s, "idle")
  /\ task' = [task EXCEPT ![s] = None]

(* _evaluate                                                               *)
Accepted(b) ==
  /\ connection /\ b \in Matching
  /\ MemberOf[b] # None /\ member[MemberOf[b]]

(* The status a new event gets.                                            *)
Verdict(kind, b) ==
  IF kind = "VALIDATION"
  THEN IF Accepted(b) THEN "PROCESSED" ELSE "REJECTED"
  ELSE IF connection /\ b \in Matching THEN "RECEIVED" ELSE "UNPROCESSABLE"

(* _store_event, for an event that is there already: whatever its status   *)
(* is, it is overwritten, and the delivery ends.                           *)
MarkDuplicate(key, b) ==
  event' = [event EXCEPT ![key].status =
              IF event[key].body # b THEN "DISAGREEMENT" ELSE "DEDUPLICATED"]

(* _bind, the tests on what it loads, and the search for the event.        *)
Deliver(s, kind, b) ==
  LET key == <<kind, TransOf[b]>> IN
  /\ pc[s] = "idle"
  /\ \/ event[key] # None /\ MarkDuplicate(key, b) /\ UNCHANGED <<pc, task>>
     \/ /\ event[key] = None
        /\ task' = [task EXCEPT ![s] = [kind |-> kind, body |-> b, contribution |-> None,
                                       status |-> Verdict(kind, b)]]
        /\ Goto(s, "insert")
        /\ UNCHANGED event
  /\ UNCHANGED <<connection, member, contribution>>

KeyOf(s) == <<task[s].kind, TransOf[task[s].body]>>

AddEvent(s) ==
  event' = [event EXCEPT ![KeyOf(s)] =
              [body |-> task[s].body, status |-> task[s].status]]

Continue(s) ==
  IF task[s].status = "RECEIVED" THEN Goto(s, "settle") /\ UNCHANGED task ELSE Finish(s)

(* Bug: no unique index on the event; the late delivery goes on as well.   *)
InsertWithoutIndex(s) ==
  /\ pc[s] = "insert"
  /\ AddEvent(s) /\ Continue(s)
  /\ UNCHANGED <<connection, member, contribution>>

(* The insert commits, or uq_payment_events_connection_event refuses it    *)
(* and the delivery is a duplicate after all.                              *)
InsertEvent(s) ==
  /\ pc[s] = "insert"
  /\ \/ event[KeyOf(s)] # None /\ MarkDuplicate(KeyOf(s), task[s].body) /\ Finish(s)
     \/ event[KeyOf(s)] = None /\ AddEvent(s) /\ Continue(s)
  /\ UNCHANGED <<connection, member, contribution>>

Open(m) == {c \in Contributions :
              contribution[c] # None /\ contribution[c].member = m
              /\ contribution[c].status # "REVERSED"}

Conclude(s, status) ==
  /\ task' = [task EXCEPT ![s].status = status]
  /\ Goto(s, "mark")

(* Bug: an amount that differs is not a disagreement.                      *)
PassAnyAmount(c, b) == contribution[c].status = "CONFIRMED"

(* A confirmed contribution of the same amount passes for this payment,    *)
(* whoever paid it.                                                        *)
Passes(c, b) == contribution[c].status = "CONFIRMED" /\ contribution[c].amount = AmountOf[b]

(* _settle_confirmation up to its writes.                                  *)
Payable(b) == AmountOf[b] > 0 /\ MemberOf[b] # None /\ member[MemberOf[b]]

Find(s) ==
  LET b == task[s].body IN
  /\ pc[s] = "settle"
  /\ \/ ~Payable(b) /\ Conclude(s, "DISAGREEMENT")
     \/ Payable(b) /\ Open(MemberOf[b]) = {} /\ Goto(s, "create") /\ UNCHANGED task
     \/ /\ Payable(b)
        /\ \E c \in Open(MemberOf[b]) :
             IF Passes(c, b) THEN Conclude(s, "PROCESSED")
             ELSE IF contribution[c].amount # AmountOf[b] THEN Conclude(s, "DISAGREEMENT")
             ELSE /\ task' = [task EXCEPT ![s].contribution = c]
                  /\ Goto(s, "confirm")
  /\ UNCHANGED Rows

(* A new contribution, confirmed and posted in one commit, unless another  *)
(* one is open by now.                                                     *)
Create(s) ==
  LET b == task[s].body IN
  /\ pc[s] = "create"
  /\ \/ /\ Open(MemberOf[b]) # {}
        /\ Conclude(s, "DISAGREEMENT")
        /\ UNCHANGED contribution
     \/ /\ Open(MemberOf[b]) = {}
        /\ \E c \in Contributions :
             /\ contribution[c] = None
             /\ contribution' = [contribution EXCEPT ![c] =
                  [member |-> MemberOf[b], amount |-> AmountOf[b],
                   status |-> "CONFIRMED", by |-> b]]
        /\ Conclude(s, "PROCESSED")
  /\ UNCHANGED <<connection, member, event>>

(* The contribution that was found PENDING; if it was confirmed since, its *)
(* share exists and the transaction is rolled back.                        *)
ConfirmFound(s) ==
  LET c == task[s].contribution IN
  /\ pc[s] = "confirm"
  /\ \/ /\ contribution[c].by # None
        /\ Conclude(s, "DISAGREEMENT")
        /\ UNCHANGED contribution
     \/ /\ contribution[c].by = None
        /\ contribution' = [contribution EXCEPT ![c].status = "CONFIRMED",
                                                ![c].by = task[s].body]
        /\ Conclude(s, "PROCESSED")
  /\ UNCHANGED <<connection, member, event>>

Mark(s) ==
  /\ pc[s] = "mark"
  /\ event' = [event EXCEPT ![KeyOf(s)].status = task[s].status]
  /\ Finish(s)
  /\ UNCHANGED <<connection, member, contribution>>

Crash(s) ==
  /\ pc[s] # "idle"
  /\ Finish(s)
  /\ UNCHANGED Rows

(* What the rest of the system does: contributions recorded, confirmed and *)
(* reversed by hand; members and the connection come and go.               *)
Record(c, m, a) ==
  /\ contribution[c] = None /\ Open(m) = {}
  /\ contribution' = [contribution EXCEPT ![c] =
       [member |-> m, amount |-> a, status |-> "PENDING", by |-> None]]
  /\ UNCHANGED <<connection, member, event, pc, task>>

ConfirmByHand(c) ==
  /\ contribution[c] # None /\ contribution[c].status = "PENDING"
  /\ contribution' = [contribution EXCEPT ![c].status = "CONFIRMED", ![c].by = "manual"]
  /\ UNCHANGED <<connection, member, event, pc, task>>

Reverse(c) ==
  /\ contribution[c] # None /\ contribution[c].status = "CONFIRMED"
  /\ contribution' = [contribution EXCEPT ![c].status = "REVERSED"]
  /\ UNCHANGED <<connection, member, event, pc, task>>

SetConnection ==
  /\ connection' = ~connection
  /\ UNCHANGED <<member, event, contribution, pc, task>>

SetMember(m) ==
  /\ member' = [member EXCEPT ![m] = ~@]
  /\ UNCHANGED <<connection, event, contribution, pc, task>>

Amounts == {AmountOf[b] : b \in Bodies} \ {0}

Next ==
  \/ \E s \in Sessions :
       \/ \E k \in Callbacks : Deliver(s, k[1], k[2])
       \/ InsertEvent(s) \/ Find(s) \/ Create(s) \/ ConfirmFound(s)
       \/ Mark(s) \/ Crash(s)
  \/ \E c \in Contributions :
       \/ \E m \in Members, a \in Amounts : Record(c, m, a)
       \/ ConfirmByHand(c)
       \/ Reverse(c)
  \/ SetConnection
  \/ \E m \in Members : SetMember(m)

Spec == Init /\ [][Next]_vars
-----------------------------------------------------------------------------
(* Type invariant.                                                         *)
C2BTypeOK ==
  /\ connection \in BOOLEAN
  /\ member \in [Members -> BOOLEAN]
  /\ event \in [Kinds \X Trans -> Events \cup {None}]
  /\ contribution \in [Contributions -> ContributionRows \cup {None}]
  /\ pc \in [Sessions -> Labels]
  /\ task \in [Sessions -> Tasks \cup {None}]

(* "Duplicate TransID: idempotent; no double contribution" (Developer      *)
(* Implementation Brief, 4.3): one TransID confirms one contribution at    *)
(* most, over redeliveries, altered payloads, crashes and reversals.       *)
CreditedOnce ==
  \A t \in Trans :
    Cardinality({c \in Contributions :
      contribution[c] # None /\ contribution[c].by \in {b \in Bodies : TransOf[b] = t}}) <= 1

(* A payment's event says PROCESSED only when a contribution of the payer  *)
(* and of this amount stands confirmed for it.  That may be one which      *)
(* another payment confirmed: a second payment of the same amount that     *)
(* finds it confirmed already is PROCESSED without being posted.           *)
ProcessedIsCredited ==
  \A t \in Trans :
    LET e == event[<<"CONFIRMATION", t>>] IN
    e # None /\ e.status = "PROCESSED" =>
      \E c \in Contributions :
        /\ contribution[c] # None /\ contribution[c].by # None
        /\ contribution[c].member = MemberOf[e.body]
        /\ contribution[c].amount = AmountOf[e.body]

(* Both: a payment is credited once at most, and none is reported as       *)
(* PROCESSED before a contribution as large was confirmed.                 *)
PaybillIsCredited == CreditedOnce /\ ProcessedIsCredited
=============================================================================
