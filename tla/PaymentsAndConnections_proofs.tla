-------------------- MODULE PaymentsAndConnections_proofs --------------------
(***************************************************************************)
(* Proofs about Payments, Connections, RateLimiter and C2BPayments, and    *)
(* about PaymentsAndConnections that runs them side by side, for any       *)
(* number of sessions, intents, charges, connections, keys and payloads.   *)
(* Inv, ConnectionInv, LimiterInv and C2BInv are the inductive invariants: *)
(* beside the properties, what a session that has left a transaction, and  *)
(* waits for the provider or a lock, may still rely on.                    *)
(***************************************************************************)
EXTENDS PaymentsAndConnections, SequenceTheorems, FiniteSetTheorems, TLAPS

LEMMA C2BCardinality ==
  ASSUME NEW S
  PROVE  C2B!Cardinality(S) = Cardinality(S) /\ (C2B!IsFiniteSet(S) <=> IsFiniteSet(S))
  BY DEF Cardinality, C2B!Cardinality, IsFiniteSet, C2B!IsFiniteSet

(* An attempt that will not be taken up again, and a charge of an intent.  *)
Closed(i, n) == n \in 1..Len(attempts[i]) /\ attempts[i][n].status \in {"SUCCEEDED", "FAILED"}
Charged(i, q) == q \in Charges /\ charge[q] # None /\ charge[q].intent = i
Paid(i, q) == Charged(i, q) /\ charge[q].state = "PAID"

(* What an attempt asked the provider for is a charge of its intent.       *)
RequestsAreCharges ==
  \A i \in Intents : \A n \in 1..Len(attempts[i]) :
    attempts[i][n].request # None => Charged(i, attempts[i][n].request)

(* What a session has in hand, of an intent that is initiated ...          *)
InitiateInHand(s) ==
  LET t == task[s]  i == task[s].intent IN
  /\ pc[s] \in {"attempts", "begin"} => t.number = 0
  /\ pc[s] = "call" => t.number < MaxAttempts /\ (t.number # 0 => Closed(i, t.number))
  /\ pc[s] = "insert" =>
       /\ t.number >= 1 /\ (t.number # 1 => Closed(i, t.number - 1))
       /\ t.attempt \in Attempts /\ t.attempt.status # "SUCCEEDED"
       /\ t.attempt.request # None => Charged(i, t.attempt.request)
  /\ pc[s] \in {"query", "succeed", "fail", "decide", "apply", "mark"} =>
       /\ t.number \in 1..Len(attempts[i])
       /\ t.attempt \in Attempts /\ t.attempt.request = attempts[i][t.number].request
  /\ pc[s] = "query" => t.attempt.request # None
  /\ pc[s] = "succeed" => Paid(i, t.attempt.request)
  /\ pc[s] = "decide" => Closed(i, t.number)

(* ... and of a callback.                                                  *)
CallbackInHand(s) ==
  LET t == task[s]  i == task[s].intent IN
  /\ pc[s] \in {"store", "find", "apply", "mark"} =>
       /\ Charged(i, t.charge) /\ t.payload \in Contents
       /\ t.payload = "SUCCEEDED" => Paid(i, t.charge)
  /\ pc[s] \in {"find", "apply", "mark"} =>
       event[t.charge] # None /\ event[t.charge].payload = t.payload
  /\ pc[s] \in {"apply", "mark"} => t.attempt.request = t.charge
  /\ pc[s] = "apply" /\ t.attempt.status = "SUCCEEDED" => Posted
  /\ pc[s] = "mark" => Posted

InHand(s) == pc[s] # "idle" => task[s] \in Tasks /\ InitiateInHand(s) /\ CallbackInHand(s)

TasksInHand == \A s \in Sessions : InHand(s)

(* The inductive invariant.                                                *)
Inv ==
  /\ TypeOK /\ RequestsAreCharges /\ TasksInHand
  /\ SuccessIsPaid /\ SuccessIsSettled /\ OnlyLastAttemptIsOpen

(* What never is undone: attempts keep what they asked for and stay        *)
(* closed, charges and events keep what they are of, the contribution does *)
(* not become PENDING again.                                               *)
RowsGrow ==
  /\ \A i \in Intents :
       /\ Len(attempts[i]) <= Len(attempts'[i])
       /\ \A n \in 1..Len(attempts[i]) :
            /\ attempts'[i][n].request = attempts[i][n].request
            /\ Closed(i, n) => attempts'[i][n].status \in {"SUCCEEDED", "FAILED"}
  /\ \A q \in Charges :
       /\ charge[q] # None => charge'[q] # None /\ charge'[q].intent = charge[q].intent
       /\ charge[q] # None /\ charge[q].state = "PAID" => charge'[q].state = "PAID"
       /\ event[q] # None => event'[q] # None /\ event'[q].payload = event[q].payload
  /\ Posted => Posted'

LEMMA AttemptsAreSequences ==
  ASSUME TypeOK, NEW i \in Intents
  PROVE  /\ attempts[i] \in Seq(Attempts) /\ Len(attempts[i]) \in Nat
         /\ Len(attempts[i]) <= MaxAttempts
         /\ \A n \in 1..Len(attempts[i]) : attempts[i][n] \in Attempts
<1>1. attempts[i] \in Seq(Attempts)
  BY DEF TypeOK
<1>2. Len(attempts[i]) \in Nat /\ \A n \in 1..Len(attempts[i]) : attempts[i][n] \in Attempts
  BY <1>1, LenProperties, ElementOfSeq
<1>3. QED
  BY <1>1, <1>2 DEF TypeOK

LEMMA ClosedStays ==
  ASSUME TypeOK, RowsGrow, NEW i \in Intents, NEW n, Closed(i, n),
         Len(attempts'[i]) \in Nat
  PROVE  Closed(i, n)'
  BY AttemptsAreSequences DEF RowsGrow, Closed

LEMMA ChargedStays ==
  ASSUME RowsGrow, NEW i \in Intents, NEW q
  PROVE  /\ Charged(i, q) => Charged(i, q)'
         /\ Paid(i, q) => Paid(i, q)'
  BY DEF RowsGrow, Charged, Paid

(* A session that is not concerned keeps what it has in hand.              *)
LEMMA OthersKeepTheirs ==
  ASSUME TypeOK, TypeOK', RowsGrow, NEW s \in Sessions, InHand(s),
         pc'[s] = pc[s], task'[s] = task[s]
  PROVE  InHand(s)'
<1> SUFFICES ASSUME pc[s] # "idle"
             PROVE  /\ task'[s] \in Tasks
                    /\ InitiateInHand(s)' /\ CallbackInHand(s)'
  BY DEF InHand
<1> DEFINE t == task[s]
           i == t.intent
<1>1. t \in Tasks /\ i \in Intents /\ InitiateInHand(s) /\ CallbackInHand(s)
  BY DEF InHand, Tasks
<1>2. Len(attempts[i]) \in Nat /\ Len(attempts'[i]) \in Nat
  BY <1>1, AttemptsAreSequences DEF TypeOK
<1>3. \A n : Closed(i, n) => Closed(i, n)'
  BY <1>1, <1>2, ClosedStays
<1>4. \A q : (Charged(i, q) => Charged(i, q)') /\ (Paid(i, q) => Paid(i, q)')
  BY <1>1, ChargedStays
<1>5. /\ Len(attempts[i]) <= Len(attempts'[i])
      /\ \A n \in 1..Len(attempts[i]) : attempts'[i][n].request = attempts[i][n].request
  BY <1>1 DEF RowsGrow
<1>6. \A q \in Charges : event[q] # None => event'[q] # None
        /\ event'[q].payload = event[q].payload
  BY DEF RowsGrow
<1>7. Posted => Posted'
  BY DEF RowsGrow
<1>8. InitiateInHand(s)'
  BY <1>1, <1>2, <1>3, <1>4, <1>5 DEF InitiateInHand
<1>9. CallbackInHand(s)'
  BY <1>1, <1>4, <1>6, <1>7 DEF CallbackInHand, Charged
<1>10. QED
  BY <1>1, <1>8, <1>9

LEMMA InitInv == Init => Inv
<1> SUFFICES ASSUME Init PROVE Inv
  OBVIOUS
<1> USE DEF Init
<1>1. \A i \in Intents : attempts[i] = << >> /\ attempts[i] \in Seq(Attempts)
        /\ Len(attempts[i]) = 0
  BY EmptySeq
<1>2. TypeOK
  BY <1>1, PaymentAssumption DEF TypeOK, IntentStatuses, Labels
<1>3. TasksInHand
  BY DEF TasksInHand, InHand
<1>4. \A i \in Intents : 1..Len(attempts[i]) = {}
  BY <1>1
<1>5. RequestsAreCharges /\ SuccessIsPaid
  BY <1>4 DEF RequestsAreCharges, SuccessIsPaid
<1>6. SuccessIsSettled
  <2>1. [payload |-> "SUCCEEDED", status |-> "PROCESSED"] # None
    BY PaymentAssumption DEF EventRows, EventStatuses, CallbackContents
  <2>2. QED
    BY <1>4, <2>1 DEF SuccessIsSettled
<1>7. OnlyLastAttemptIsOpen
  BY <1>1 DEF OnlyLastAttemptIsOpen
<1>8. QED
  BY <1>2, <1>3, <1>5, <1>6, <1>7 DEF Inv

(* Writing the next one.                                                   *)
LEMMA AppendEffect ==
  ASSUME TypeOK, NEW i \in Intents, NEW e \in Attempts,
         attempts' = [attempts EXCEPT ![i] = Append(@, e)]
  PROVE  /\ attempts' \in [Intents -> Seq(Attempts)]
         /\ \A j \in Intents : Len(attempts'[j]) = IF j = i THEN Len(attempts[j]) + 1
                                                   ELSE Len(attempts[j])
         /\ \A j \in Intents : \A m \in 1..Len(attempts'[j]) :
              attempts'[j][m] = IF j = i /\ m = Len(attempts[j]) + 1 THEN e ELSE attempts[j][m]
<1> DEFINE a == Append(attempts[i], e)
<1>1. attempts \in [Intents -> Seq(Attempts)] /\ attempts[i] \in Seq(Attempts)
  BY DEF TypeOK
<1>2. /\ a \in Seq(Attempts) /\ Len(a) = Len(attempts[i]) + 1 /\ Len(attempts[i]) \in Nat
      /\ \A m \in 1..Len(attempts[i]) : a[m] = attempts[i][m]
      /\ a[Len(attempts[i]) + 1] = e
  BY <1>1, AppendProperties, LenProperties
<1>3. attempts' = [attempts EXCEPT ![i] = a]
  OBVIOUS
<1> HIDE DEF a
<1>4. QED
  BY <1>1, <1>2, <1>3

(* Everything that the rows promise, apart from what is in hand.           *)
RowsInv ==
  /\ RequestsAreCharges /\ SuccessIsPaid /\ SuccessIsSettled /\ OnlyLastAttemptIsOpen

(* A step of one session: the others keep what they have in hand.          *)
LEMMA SessionStep ==
  ASSUME Inv, NEW s \in Sessions, NEW label, NEW t,
         pc' = [pc EXCEPT ![s] = label], task' = [task EXCEPT ![s] = t],
         TypeOK', RowsInv', RowsGrow, InHand(s)'
  PROVE  Inv'
<1>1. \A r \in Sessions \ {s} : pc'[r] = pc[r] /\ task'[r] = task[r]
  BY DEF Inv, TypeOK
<1>2. \A r \in Sessions \ {s} : InHand(r)'
  BY <1>1, OthersKeepTheirs DEF Inv, TasksInHand
<1>3. QED
  BY <1>2 DEF Inv, TasksInHand, RowsInv

LEMMA RowsStay ==
  ASSUME Inv, UNCHANGED <<Rows, charge>>
  PROVE  RowsInv' /\ RowsGrow
<1>1. RowsInv'
  BY DEF Inv, RowsInv, Rows, RequestsAreCharges, Charged, SuccessIsPaid, SuccessIsSettled,
         OnlyLastAttemptIsOpen, Posted
<1>2. RowsGrow
  BY AttemptsAreSequences DEF Inv, RowsGrow, Rows, Closed, Posted
<1>3. QED
  BY <1>1, <1>2

(* A session that only learns something, or ends.                          *)
LEMMA LearnKeepsInv ==
  ASSUME Inv, NEW s \in Sessions, NEW label \in Labels, NEW t \in Tasks \cup {None},
         Learn(s, t, label), UNCHANGED <<Rows, charge>>, InHand(s)'
  PROVE  Inv'
<1>1. pc' = [pc EXCEPT ![s] = label] /\ task' = [task EXCEPT ![s] = t]
  BY DEF Learn, Goto
<1>2. TypeOK'
  BY <1>1 DEF Inv, TypeOK, Rows
<1>3. QED
  BY <1>1, <1>2, RowsStay, SessionStep

LEMMA FinishKeepsInv ==
  ASSUME Inv, NEW s \in Sessions, Finish(s), UNCHANGED <<Rows, charge>>
  PROVE  Inv'
<1>1. "idle" \in Labels /\ Learn(s, None, "idle")
  BY DEF Finish, Labels
<1>2. InHand(s)'
  BY <1>1 DEF InHand, Learn, Goto, Inv, TypeOK
<1>3. QED
  BY <1>1, <1>2, LearnKeepsInv

(* The label and the task of s after a step.                               *)
LEMMA LearnEffect ==
  ASSUME Inv, NEW s \in Sessions, NEW label \in Labels, NEW t \in Tasks \cup {None},
         Learn(s, t, label)
  PROVE  /\ pc' = [pc EXCEPT ![s] = label] /\ task' = [task EXCEPT ![s] = t]
         /\ pc' \in [Sessions -> Labels] /\ task' \in [Sessions -> Tasks \cup {None}]
         /\ pc'[s] = label /\ task'[s] = t
  BY DEF Learn, Goto, Inv, TypeOK

(* Types of the rows.                                                      *)
RowsTypeOK ==
  /\ intent \in [Intents -> IntentStatuses]
  /\ attempts \in [Intents -> Seq(Attempts)]
  /\ \A i \in Intents : Len(attempts[i]) <= MaxAttempts
  /\ contribution \in {"PENDING", "CONFIRMED", "REVERSED"}
  /\ event \in [Charges -> EventRows \cup {None}]
  /\ charge \in [Charges -> ChargeStates \cup {None}]

(* What a commit may do to one attempt, its intent, an event and the       *)
(* contribution.                                                           *)
AttemptChange(i) ==
  \/ attempts' = attempts
  \/ \E n \in 1..Len(attempts[i]), e \in Attempts :
       /\ attempts' = [attempts EXCEPT ![i][n] = e]
       /\ e.request = attempts[i][n].request
       /\ e.status \in {"SUCCEEDED", "FAILED"}
       /\ e.status = "SUCCEEDED" => Posted' /\ Paid(i, e.request)

IntentChange(i) ==
  \/ intent' = intent
  \/ \E status \in IntentStatuses :
       /\ intent' = [intent EXCEPT ![i] = status]
       /\ status = "SUCCEEDED" =>
            Posted' /\ \E n \in 1..Len(attempts[i]) : Paid(i, attempts[i][n].request)

EventChange ==
  \/ event' = event
  \/ \E q \in Charges, payload \in Contents :
       /\ event[q] = None
       /\ event' = [event EXCEPT ![q] = [payload |-> payload, status |-> "RECEIVED"]]
  \/ \E q \in Charges, status \in EventStatuses :
       /\ event[q] # None
       /\ event' = [event EXCEPT ![q].status = status]
       /\ status = "PROCESSED" /\ event[q].payload = "SUCCEEDED" => Posted'

LEMMA AttemptChangeEffect ==
  ASSUME Inv, NEW i \in Intents, AttemptChange(i)
  PROVE  /\ attempts' \in [Intents -> Seq(Attempts)]
         /\ \A j \in Intents : Len(attempts'[j]) = Len(attempts[j])
         /\ \A j \in Intents : \A m \in 1..Len(attempts[j]) :
              /\ attempts'[j][m].request = attempts[j][m].request
              /\ \/ attempts'[j][m].status = attempts[j][m].status
                 \/ attempts'[j][m].status = "FAILED"
                 \/ /\ attempts'[j][m].status = "SUCCEEDED" /\ Posted'
                    /\ Paid(j, attempts[j][m].request)
<1>1. CASE attempts' = attempts
  BY <1>1 DEF Inv, TypeOK
<1>2. ASSUME NEW n \in 1..Len(attempts[i]), NEW e \in Attempts,
             attempts' = [attempts EXCEPT ![i][n] = e],
             e.request = attempts[i][n].request,
             e.status \in {"SUCCEEDED", "FAILED"},
             e.status = "SUCCEEDED" => Posted' /\ Paid(i, e.request)
      PROVE  /\ attempts' \in [Intents -> Seq(Attempts)]
             /\ \A j \in Intents : Len(attempts'[j]) = Len(attempts[j])
             /\ \A j \in Intents : \A m \in 1..Len(attempts[j]) :
                  /\ attempts'[j][m].request = attempts[j][m].request
                  /\ \/ attempts'[j][m].status = attempts[j][m].status
                     \/ attempts'[j][m].status = "FAILED"
                     \/ /\ attempts'[j][m].status = "SUCCEEDED" /\ Posted'
                        /\ Paid(j, attempts[j][m].request)
  <2>1. /\ attempts' \in [Intents -> Seq(Attempts)]
        /\ \A j \in Intents : Len(attempts'[j]) = Len(attempts[j])
        /\ \A j \in Intents : \A m \in 1..Len(attempts[j]) :
             attempts'[j][m] = IF j = i /\ m = n THEN e ELSE attempts[j][m]
    <3> DEFINE a == [attempts[i] EXCEPT ![n] = e]
    <3>1. attempts \in [Intents -> Seq(Attempts)] /\ attempts[i] \in Seq(Attempts)
      BY DEF Inv, TypeOK
    <3>2. a \in Seq(Attempts) /\ Len(a) = Len(attempts[i])
      BY <3>1, ExceptSeq
    <3>3. \A m \in 1..Len(attempts[i]) : a[m] = IF m = n THEN e ELSE attempts[i][m]
      BY <3>1, ExceptSeq
    <3>4. attempts' = [attempts EXCEPT ![i] = a]
      BY <1>2
    <3> HIDE DEF a
    <3>5. QED
      BY <3>1, <3>2, <3>3, <3>4
  <2>2. QED
    BY <1>2, <2>1
<1>3. QED
  BY <1>1, <1>2 DEF AttemptChange

LEMMA EventChangeEffect ==
  ASSUME Inv, EventChange
  PROVE  /\ event' \in [Charges -> EventRows \cup {None}]
         /\ \A q \in Charges : event[q] # None => event'[q] # None
              /\ event'[q].payload = event[q].payload
         /\ \A q \in Charges :
              event'[q] = [payload |-> "SUCCEEDED", status |-> "PROCESSED"] =>
                event'[q] = event[q] \/ Posted'
<1>1. CASE event' = event
  BY <1>1 DEF Inv, TypeOK
<1>2. ASSUME NEW q \in Charges, NEW payload \in Contents, event[q] = None,
             event' = [event EXCEPT ![q] = [payload |-> payload, status |-> "RECEIVED"]]
      PROVE  /\ event' \in [Charges -> EventRows \cup {None}]
             /\ \A p \in Charges : event[p] # None => event'[p] # None
                  /\ event'[p].payload = event[p].payload
             /\ \A p \in Charges :
                  event'[p] = [payload |-> "SUCCEEDED", status |-> "PROCESSED"] =>
                    event'[p] = event[p] \/ Posted'
  <2>1. [payload |-> payload, status |-> "RECEIVED"] \in EventRows
    BY PaymentAssumption DEF EventRows, EventStatuses
  <2>2. QED
    BY <1>2, <2>1 DEF Inv, TypeOK
<1>3. ASSUME NEW q \in Charges, NEW status \in EventStatuses, event[q] # None,
             event' = [event EXCEPT ![q].status = status],
             status = "PROCESSED" /\ event[q].payload = "SUCCEEDED" => Posted'
      PROVE  /\ event' \in [Charges -> EventRows \cup {None}]
             /\ \A p \in Charges : event[p] # None => event'[p] # None
                  /\ event'[p].payload = event[p].payload
             /\ \A p \in Charges :
                  event'[p] = [payload |-> "SUCCEEDED", status |-> "PROCESSED"] =>
                    event'[p] = event[p] \/ Posted'
  <2>1. event[q] \in EventRows
    BY <1>3 DEF Inv, TypeOK
  <2>2. [event[q] EXCEPT !.status = status] \in EventRows
    BY <2>1 DEF EventRows
  <2>3. /\ event'[q] = [event[q] EXCEPT !.status = status]
        /\ \A p \in Charges \ {q} : event'[p] = event[p]
    BY <1>3 DEF Inv, TypeOK
  <2>4. event'[q] # None /\ event'[q].payload = event[q].payload /\ event'[q].status = status
    BY <2>1, <2>2, <2>3, PaymentAssumption DEF EventRows
  <2>5. event' \in [Charges -> EventRows \cup {None}]
    BY <1>3, <2>2 DEF Inv, TypeOK
  <2>6. QED
    BY <1>3, <2>3, <2>4, <2>5
<1>4. QED
  BY <1>1, <1>2, <1>3 DEF EventChange

LEMMA RowsChange ==
  ASSUME Inv, NEW i \in Intents, AttemptChange(i), IntentChange(i), EventChange,
         charge' = charge, contribution' \in {"PENDING", "CONFIRMED", "REVERSED"}, Posted =>
           Posted'
  PROVE  RowsTypeOK' /\ RowsInv' /\ RowsGrow
<1>1. /\ attempts' \in [Intents -> Seq(Attempts)]
      /\ \A j \in Intents : Len(attempts'[j]) = Len(attempts[j]) /\ Len(attempts[j]) \in Nat
      /\ \A j \in Intents : \A m \in 1..Len(attempts[j]) :
           /\ attempts'[j][m].request = attempts[j][m].request
           /\ \/ attempts'[j][m].status = attempts[j][m].status
              \/ attempts'[j][m].status = "FAILED"
              \/ /\ attempts'[j][m].status = "SUCCEEDED" /\ Posted'
                 /\ Paid(j, attempts[j][m].request)
  BY AttemptChangeEffect, AttemptsAreSequences DEF Inv
<1>2. /\ event' \in [Charges -> EventRows \cup {None}]
      /\ \A q \in Charges : event[q] # None => event'[q] # None
           /\ event'[q].payload = event[q].payload
      /\ \A q \in Charges :
           event'[q] = [payload |-> "SUCCEEDED", status |-> "PROCESSED"] =>
             event'[q] = event[q] \/ Posted'
  BY EventChangeEffect
<1>3. /\ intent' \in [Intents -> IntentStatuses]
      /\ \A j \in Intents : intent'[j] = "SUCCEEDED" =>
           \/ intent[j] = "SUCCEEDED"
           \/ Posted' /\ \E n \in 1..Len(attempts[j]) : Paid(j, attempts[j][n].request)
  BY DEF IntentChange, Inv, TypeOK
<1>4. RowsTypeOK'
  BY <1>1, <1>2, <1>3 DEF Inv, TypeOK, RowsTypeOK
<1>5. RowsGrow
  BY <1>1, <1>2 DEF RowsGrow, Closed
<1>6. RequestsAreCharges'
  BY <1>1 DEF Inv, RequestsAreCharges, Charged
<1>7. SuccessIsPaid'
  <2>1. \A j \in Intents : \A q :
          Paid(j, q) => q # None /\ charge'[q] = [intent |-> j, state |-> "PAID"]
            /\ charge'[q].state = "PAID"
    BY PaymentAssumption DEF Paid, Charged, Inv, TypeOK, ChargeStates
  <2>2. ASSUME NEW j \in Intents, NEW n \in 1..Len(attempts'[j]),
               attempts'[j][n].status = "SUCCEEDED"
        PROVE  /\ attempts'[j][n].request # None
               /\ charge'[attempts'[j][n].request] = [intent |-> j, state |-> "PAID"]
    <3>1. n \in 1..Len(attempts[j])
      BY <1>1
    <3>2. attempts'[j][n].request = attempts[j][n].request
      BY <1>1, <3>1
    <3>3. attempts[j][n].status = "SUCCEEDED" \/ Paid(j, attempts[j][n].request)
      BY <1>1, <2>2, <3>1
    <3>4. CASE attempts[j][n].status = "SUCCEEDED"
      BY <3>1, <3>2, <3>4 DEF Inv, SuccessIsPaid
    <3>5. CASE Paid(j, attempts[j][n].request)
      BY <2>1, <3>2, <3>5
    <3>6. QED
      BY <3>3, <3>4, <3>5
  <2>3. ASSUME NEW j \in Intents, intent'[j] = "SUCCEEDED"
        PROVE  \E n \in 1..Len(attempts'[j]) :
                 attempts'[j][n].request # None /\ charge'[attempts'[j][n].request].state = "PAID"
    <3>1. PICK n \in 1..Len(attempts[j]) :
            attempts[j][n].request # None /\ charge'[attempts[j][n].request].state = "PAID"
      BY <1>3, <2>1, <2>3 DEF Inv, SuccessIsPaid
    <3>2. n \in 1..Len(attempts'[j]) /\ attempts'[j][n].request = attempts[j][n].request
      BY <1>1
    <3>3. QED
      BY <3>1, <3>2
  <2>4. QED
    BY <2>2, <2>3 DEF SuccessIsPaid
<1>8. SuccessIsSettled'
  <2>1. ASSUME NEW j \in Intents, intent'[j] = "SUCCEEDED" PROVE Posted'
    BY <1>3, <2>1 DEF Inv, SuccessIsSettled
  <2>2. ASSUME NEW j \in Intents, NEW n \in 1..Len(attempts[j]),
               attempts'[j][n].status = "SUCCEEDED"
        PROVE  Posted'
    BY <1>1, <2>2 DEF Inv, SuccessIsSettled
  <2>3. ASSUME NEW q \in Charges, event'[q] = [payload |-> "SUCCEEDED", status |-> "PROCESSED"]
        PROVE  Posted'
    BY <1>2, <2>3 DEF Inv, SuccessIsSettled
  <2>4. QED
    BY <1>1, <2>1, <2>2, <2>3 DEF SuccessIsSettled
<1>9. OnlyLastAttemptIsOpen'
  <2> SUFFICES ASSUME NEW j \in Intents, NEW n \in 1..(Len(attempts[j]) - 1)
               PROVE  attempts'[j][n].status \in {"SUCCEEDED", "FAILED"}
    BY <1>1 DEF OnlyLastAttemptIsOpen
  <2>1. n \in 1..Len(attempts[j]) /\ attempts[j][n].status \in {"SUCCEEDED", "FAILED"}
    BY <1>1 DEF Inv, OnlyLastAttemptIsOpen
  <2>2. QED
    BY <1>1, <2>1
<1>10. QED
  BY <1>4, <1>5, <1>6, <1>7, <1>8, <1>9 DEF RowsInv

(***************************************************************************)
(* The steps, one after the other.                                         *)
(***************************************************************************)

LEMMA CreateKeepsInv ==
  ASSUME Inv, NEW i \in Intents, Create(i)
  PROVE  Inv'
<1> USE DEF Create
<1>1. TypeOK'
  BY DEF Inv, TypeOK, IntentStatuses
<1>2. RowsGrow
  BY AttemptsAreSequences DEF Inv, RowsGrow, Closed, Posted
<1>3. \A s \in Sessions : InHand(s)'
  BY <1>1, <1>2, OthersKeepTheirs DEF Inv, TasksInHand
<1>4. RequestsAreCharges' /\ OnlyLastAttemptIsOpen'
  BY DEF Inv, RequestsAreCharges, OnlyLastAttemptIsOpen, Charged
<1>5. SuccessIsPaid' /\ SuccessIsSettled'
  BY DEF Inv, TypeOK, SuccessIsPaid, SuccessIsSettled, Posted
<1>6. QED
  BY <1>1, <1>3, <1>4, <1>5 DEF Inv, TasksInHand

LEMMA ConcludeKeepsInv ==
  ASSUME Inv, NEW q \in Charges, Conclude(q)
  PROVE  Inv'
<1>1. PICK state \in {"PAID", "REFUSED"} : charge' = [charge EXCEPT ![q].state = state]
  BY DEF Conclude
<1>2. /\ charge[q] \in ChargeStates /\ charge[q].state = "OPEN"
      /\ UNCHANGED <<intent, attempts, contribution, event, pc, task>>
  BY DEF Conclude, Rows, Inv, TypeOK
<1>3. /\ charge' \in [Charges -> ChargeStates \cup {None}]
      /\ charge'[q] \in ChargeStates /\ charge'[q].intent = charge[q].intent
      /\ \A p \in Charges \ {q} : charge'[p] = charge[p]
  BY <1>1, <1>2 DEF Inv, TypeOK, ChargeStates
<1>4. charge'[q] # None
  BY <1>3, PaymentAssumption
<1>5. TypeOK'
  BY <1>2, <1>3 DEF Inv, TypeOK
<1>6. RowsGrow
  <2>1. \A p \in Charges :
          /\ charge[p] # None => charge'[p] # None /\ charge'[p].intent = charge[p].intent
          /\ charge[p] # None /\ charge[p].state = "PAID" => charge'[p].state = "PAID"
    BY <1>2, <1>3, <1>4
  <2>2. \A i \in Intents : Len(attempts[i]) \in Nat
    BY AttemptsAreSequences DEF Inv
  <2>3. QED
    BY <1>2, <2>1, <2>2 DEF RowsGrow, Closed, Posted
<1>7. \A s \in Sessions : InHand(s)'
  BY <1>2, <1>5, <1>6, OthersKeepTheirs DEF Inv, TasksInHand
<1>8. \A i \in Intents : \A p : (Charged(i, p) => Charged(i, p)') /\ (Paid(i, p) => Paid(i, p)')
  BY <1>6, ChargedStays
<1>9. RequestsAreCharges'
  BY <1>2, <1>8 DEF Inv, RequestsAreCharges
<1>10. SuccessIsPaid'
  <2>1. ASSUME NEW p \in Charges, charge[p].state = "PAID" PROVE charge'[p] = charge[p]
    BY <1>2, <1>3, <2>1
  <2>2. \A i \in Intents : \A n \in 1..Len(attempts[i]) :
          attempts[i][n].request # None => attempts[i][n].request \in Charges
    BY AttemptsAreSequences DEF Inv, Attempts
  <2>3. QED
    BY <1>2, <2>1, <2>2 DEF Inv, SuccessIsPaid
<1>11. SuccessIsSettled' /\ OnlyLastAttemptIsOpen'
  BY <1>2 DEF Inv, SuccessIsSettled, Posted, OnlyLastAttemptIsOpen
<1>12. QED
  BY <1>5, <1>7, <1>9, <1>10, <1>11 DEF Inv, TasksInHand

LEMMA ConfirmOrReverseKeepsInv ==
  ASSUME Inv, ConfirmOrReverse
  PROVE  Inv'
<1>1. /\ UNCHANGED <<intent, attempts, event, charge, pc, task>>
      /\ contribution' \in {"CONFIRMED", "REVERSED"}
  BY DEF ConfirmOrReverse
<1>2. Posted'
  BY <1>1 DEF Posted
<1>3. TypeOK'
  BY <1>1 DEF Inv, TypeOK
<1>4. RowsGrow
  BY <1>1, <1>2, AttemptsAreSequences DEF Inv, RowsGrow, Closed
<1>5. \A s \in Sessions : InHand(s)'
  BY <1>1, <1>3, <1>4, OthersKeepTheirs DEF Inv, TasksInHand
<1>6. RequestsAreCharges' /\ OnlyLastAttemptIsOpen' /\ SuccessIsPaid'
  BY <1>1 DEF Inv, RequestsAreCharges, OnlyLastAttemptIsOpen, SuccessIsPaid, Charged
<1>7. SuccessIsSettled'
  BY <1>2 DEF SuccessIsSettled
<1>8. QED
  BY <1>3, <1>5, <1>6, <1>7 DEF Inv, TasksInHand

LEMMA StartKeepsInv ==
  ASSUME Inv, NEW s \in Sessions, NEW i \in Intents, LoadIntent(s, i) \/ LoadList(s, i)
  PROVE  Inv'
<1> DEFINE n == Len(attempts[i])
<1>1. n \in Nat /\ n <= MaxAttempts /\ \A m \in 1..n : attempts[i][m] \in Attempts
  BY AttemptsAreSequences DEF Inv
<1>2. CASE LoadIntent(s, i)
  <2> DEFINE t == [intent |-> i, seen |-> intent[i], number |-> 0,
                   attempt |-> None, charge |-> None, payload |-> None]
  <2>1. Learn(s, t, "attempts") /\ UNCHANGED <<Rows, charge>>
    BY <1>2 DEF LoadIntent
  <2>2. t \in Tasks /\ t.number = 0
    BY PaymentAssumption DEF Inv, TypeOK, Tasks
  <2> HIDE DEF t
  <2>3. InHand(s)'
    BY <2>1, <2>2 DEF Learn, Goto, Inv, TypeOK, InHand, InitiateInHand, CallbackInHand
  <2>4. QED
    BY <2>1, <2>2, <2>3, LearnKeepsInv DEF Labels
<1>3. CASE LoadList(s, i)
  <2> DEFINE t == [intent |-> i, seen |-> "PROCESSING", number |-> n,
                   attempt |-> attempts[i][n], charge |-> None, payload |-> None]
  <2>1. Learn(s, t, "repair") /\ UNCHANGED <<Rows, charge>> /\ n > 0
    BY <1>3 DEF LoadList
  <2>2. attempts[i][n] \in Attempts /\ n \in 0..MaxAttempts
    BY <1>1, <2>1, PaymentAssumption
  <2>3. t \in Tasks
    BY <2>2 DEF Tasks, IntentStatuses
  <2> HIDE DEF t
  <2>4. InHand(s)'
    BY <2>1, <2>3 DEF Learn, Goto, Inv, TypeOK, InHand, InitiateInHand, CallbackInHand
  <2>5. QED
    BY <2>1, <2>3, <2>4, LearnKeepsInv DEF Labels
<1>4. QED
  BY <1>2, <1>3

(* What a session that is at work has in hand.                             *)
LEMMA AtWork ==
  ASSUME Inv, NEW s \in Sessions, pc[s] # "idle"
  PROVE  /\ task[s] \in Tasks /\ task[s].intent \in Intents
         /\ InitiateInHand(s) /\ CallbackInHand(s)
  BY DEF Inv, TasksInHand, InHand, Tasks

LEMMA GotoIsLearn ==
  ASSUME Inv, NEW s \in Sessions, NEW label, Goto(s, label), UNCHANGED task
  PROVE  Learn(s, task[s], label)
  BY DEF Inv, TypeOK, Learn

(* A commit that writes over rows.                                         *)
LEMMA CommitKeepsInv ==
  ASSUME Inv, NEW s \in Sessions, NEW label \in Labels, NEW t \in Tasks \cup {None},
         Learn(s, t, label), NEW i \in Intents,
         AttemptChange(i), IntentChange(i), EventChange, charge' = charge,
         contribution' \in {"PENDING", "CONFIRMED", "REVERSED"}, Posted => Posted', InHand(s)'
  PROVE  Inv'
<1>1. RowsTypeOK' /\ RowsInv' /\ RowsGrow
  BY RowsChange
<1>2. /\ pc' = [pc EXCEPT ![s] = label] /\ task' = [task EXCEPT ![s] = t]
      /\ pc' \in [Sessions -> Labels] /\ task' \in [Sessions -> Tasks \cup {None}]
  BY LearnEffect
<1>3. TypeOK'
  BY <1>1, <1>2 DEF RowsTypeOK, TypeOK
<1>4. QED
  BY <1>1, <1>2, <1>3, SessionStep

LEMMA LastCommitKeepsInv ==
  ASSUME Inv, NEW s \in Sessions, Finish(s), NEW i \in Intents,
         AttemptChange(i), IntentChange(i), EventChange, charge' = charge,
         contribution' \in {"PENDING", "CONFIRMED", "REVERSED"}, Posted => Posted'
  PROVE  Inv'
<1>1. "idle" \in Labels /\ Learn(s, None, "idle")
  BY DEF Finish, Labels
<1>2. InHand(s)'
  BY <1>1, LearnEffect DEF InHand
<1>3. QED
  BY <1>1, <1>2, CommitKeepsInv

LEMMA LoadAttemptsKeepsInv ==
  ASSUME Inv, NEW s \in Sessions, LoadAttempts(s)
  PROVE  Inv'
<1> DEFINE t == task[s]
           i == t.intent
           n == Len(attempts[i])
           last == attempts[i][n]
           loaded == [t EXCEPT !.number = n, !.attempt = last]
<1>1. pc[s] = "attempts" /\ UNCHANGED <<Rows, charge>>
  BY DEF LoadAttempts
<1>2. t \in Tasks /\ i \in Intents /\ t.number = 0
  BY <1>1, AtWork DEF InitiateInHand
<1>3. n \in Nat /\ n <= MaxAttempts /\ \A m \in 1..n : attempts[i][m] \in Attempts
  BY <1>2, AttemptsAreSequences DEF Inv
<1>4. attempts' = attempts
  BY <1>1 DEF Rows
<1>5. CASE n = 0 /\ Goto(s, "begin") /\ UNCHANGED task
  <2>1. Learn(s, t, "begin") /\ "begin" \in Labels
    BY <1>5, GotoIsLearn DEF Labels
  <2>2. InHand(s)'
    BY <1>2, <2>1, LearnEffect DEF InHand, InitiateInHand, CallbackInHand
  <2>3. QED
    BY <1>1, <1>2, <2>1, <2>2, LearnKeepsInv
<1>6. CASE n > 0 /\ (\/ Ambiguous(last) /\ last.request # None /\ Learn(s, loaded, "query")
                     \/ ~ Ambiguous(last) /\ last.status # "SUCCEEDED"
                          /\ Learn(s, loaded, "decide"))
  <2>1. last \in Attempts /\ n \in 0..MaxAttempts /\ n \in 1..Len(attempts[i])
    BY <1>3, <1>6, PaymentAssumption
  <2>2. loaded \in Tasks /\ loaded.number = n /\ loaded.attempt = last /\ loaded.intent = i
    BY <1>2, <2>1 DEF Tasks
  <2>3. PICK label \in {"query", "decide"} :
          /\ Learn(s, loaded, label)
          /\ label = "query" => last.request # None
          /\ label = "decide" => last.status = "FAILED"
    BY <1>6, <2>1 DEF Ambiguous, Attempts
  <2>4. label \in Labels
    BY DEF Labels
  <2> HIDE DEF loaded
  <2>5. pc'[s] = label /\ task'[s] = loaded
    BY <2>2, <2>3, <2>4, LearnEffect
  <2>6. InHand(s)'
    BY <1>4, <2>1, <2>2, <2>3, <2>5 DEF InHand, InitiateInHand, CallbackInHand, Closed
  <2>7. QED
    BY <1>1, <2>2, <2>3, <2>4, <2>6, LearnKeepsInv
<1>7. CASE Finish(s)
  BY <1>1, <1>7, FinishKeepsInv
<1>8. QED
  BY <1>5, <1>6, <1>7, <1>3 DEF LoadAttempts

LEMMA BeginProcessingKeepsInv ==
  ASSUME Inv, NEW s \in Sessions, BeginProcessing(s)
  PROVE  Inv'
<1> DEFINE t == task[s]
           next == [t EXCEPT !.seen = "PROCESSING"]
<1>1. /\ pc[s] = "begin" /\ Learn(s, next, "call")
      /\ intent' = [intent EXCEPT ![t.intent] = "PROCESSING"]
      /\ UNCHANGED <<attempts, contribution, event, charge>>
  BY DEF BeginProcessing
<1>2. t \in Tasks /\ t.intent \in Intents /\ t.number = 0
  BY <1>1, AtWork DEF InitiateInHand
<1>3. next \in Tasks /\ next.number = 0 /\ "call" \in Labels
  BY <1>2 DEF Tasks, IntentStatuses, Labels
<1> HIDE DEF next
<1>4. InHand(s)'
  BY <1>1, <1>3, LearnEffect, PaymentAssumption DEF InHand, InitiateInHand, CallbackInHand
<1>5. AttemptChange(t.intent) /\ EventChange
  BY <1>1 DEF AttemptChange, EventChange
<1>6. IntentChange(t.intent)
  BY <1>1 DEF IntentChange, IntentStatuses
<1>7. contribution' \in {"PENDING", "CONFIRMED", "REVERSED"} /\ (Posted => Posted')
  BY <1>1 DEF Inv, TypeOK, Posted
<1>8. QED
  BY <1>1, <1>2, <1>3, <1>4, <1>5, <1>6, <1>7, CommitKeepsInv

(* What the adapters make of an answer is never a success.                 *)
LEMMA AnswersAreAttempts ==
  ASSUME NEW response, NEW q \in Charges \cup {None}
  PROVE  /\ Answered(response, q) \in Attempts
         /\ Answered(response, q).status # "SUCCEEDED"
         /\ Answered(response, q).request \in {q, None}
<1>1. /\ Attempt("INITIATED", FALSE, q) \in Attempts
      /\ Attempt("TIMEOUT", TRUE, None) \in Attempts
      /\ Attempt("FAILED", TRUE, None) \in Attempts /\ Attempt("FAILED", FALSE, None) \in Attempts
  BY DEF Attempt, Attempts
<1>2. Answered(response, q) \in {Attempt("INITIATED", FALSE, q), Attempt("TIMEOUT", TRUE, None),
                                 Attempt("FAILED", TRUE, None), Attempt("FAILED", FALSE, None)}
  BY DEF Answered, DarajaAttempt, JengaAttempt
<1> DEFINE Good(a) == a \in Attempts /\ a.status # "SUCCEEDED" /\ a.request \in {q, None}
<1>3. /\ Good(Attempt("INITIATED", FALSE, q)) /\ Good(Attempt("TIMEOUT", TRUE, None))
      /\ Good(Attempt("FAILED", TRUE, None)) /\ Good(Attempt("FAILED", FALSE, None))
  BY <1>1 DEF Attempt
<1> HIDE DEF Good
<1>4. Good(Answered(response, q))
  BY <1>2, <1>3, Zenon
<1>5. QED
  BY <1>4 DEF Good

(* The provider makes a charge.                                            *)
LEMMA NewCharge ==
  ASSUME Inv, NEW q \in Charges, charge[q] = None, NEW i \in Intents,
         charge' \in [Charges -> ChargeStates \cup {None}],
         charge'[q] = [intent |-> i, state |-> "OPEN"],
         \A p \in Charges \ {q} : charge'[p] = charge[p], UNCHANGED Rows
  PROVE  /\ RowsTypeOK' /\ RowsInv' /\ RowsGrow
         /\ Charged(i, q)'
<1>1. UNCHANGED <<intent, attempts, contribution, event>>
  BY DEF Rows
<1>2. [intent |-> i, state |-> "OPEN"] \in ChargeStates
  BY DEF ChargeStates
<1>3. Charged(i, q)'
  BY <1>2, PaymentAssumption DEF Charged
<1>4. RowsTypeOK'
  BY <1>1, <1>2 DEF Inv, TypeOK, RowsTypeOK
<1>5. RowsGrow
  <2>1. \A p \in Charges : charge[p] # None => charge'[p] = charge[p]
    BY <1>2
  <2>2. \A j \in Intents : Len(attempts[j]) \in Nat
    BY AttemptsAreSequences DEF Inv
  <2>3. QED
    BY <1>1, <2>1, <2>2 DEF RowsGrow, Closed, Posted
<1>6. RequestsAreCharges'
  <2>1. \A j \in Intents : \A p : Charged(j, p) => Charged(j, p)'
    BY <1>5, ChargedStays
  <2>2. QED
    BY <1>1, <2>1 DEF Inv, RequestsAreCharges
<1>7. \A j \in Intents : \A n \in 1..Len(attempts[j]) :
        attempts[j][n].request # None =>
          charge'[attempts[j][n].request] = charge[attempts[j][n].request]
  BY <1>2 DEF Inv, RequestsAreCharges, Charged
<1>8. SuccessIsPaid'
  BY <1>1, <1>7 DEF Inv, SuccessIsPaid
<1>9. SuccessIsSettled' /\ OnlyLastAttemptIsOpen'
  BY <1>1 DEF Inv, SuccessIsSettled, Posted, OnlyLastAttemptIsOpen
<1>10. QED
  BY <1>3, <1>4, <1>5, <1>6, <1>8, <1>9 DEF RowsInv

LEMMA CallKeepsInv ==
  ASSUME Inv, NEW s \in Sessions, Call(s)
  PROVE  Inv'
<1>1. pc[s] = "call" /\ UNCHANGED Rows /\ attempts' = attempts /\ "insert" \in Labels
  BY DEF Call, Rows, Labels
<1>2. PICK t \in Tasks : t = task[s] /\ t.intent \in Intents
  BY <1>1, AtWork
<1>3. PICK i \in Intents : i = t.intent
  BY <1>2
<1>4. PICK n \in Nat : n = t.number
  BY DEF Tasks
<1>5. n < MaxAttempts /\ (n # 0 => Closed(i, n))
  BY <1>1, <1>2, <1>3, <1>4, AtWork DEF InitiateInHand
<1>6. n + 1 \in 0..MaxAttempts /\ n + 1 >= 1 /\ (n + 1) - 1 = n /\ (n + 1 # 1 => n # 0)
  BY <1>5, PaymentAssumption
<1>7. ASSUME NEW a \in Attempts, a.status # "SUCCEEDED",
             Learn(s, [task[s] EXCEPT !.number = @ + 1, !.attempt = a], "insert"),
             a.request # None => Charged(i, a.request)'
      PROVE  \E l \in Tasks : Learn(s, l, "insert") /\ InHand(s)'
  <2>1. PICK l : l = [t EXCEPT !.number = @ + 1, !.attempt = a]
    OBVIOUS
  <2>2. l \in Tasks /\ l.number = n + 1 /\ l.attempt = a /\ l.intent = i
    BY <1>3, <1>4, <1>6, <2>1 DEF Tasks
  <2>3. Learn(s, l, "insert")
    BY <1>2, <1>7, <2>1
  <2>4. pc'[s] = "insert" /\ task'[s] = l
    BY <1>1, <2>2, <2>3, LearnEffect
  <2>5. Closed(i, n) => Closed(i, n)'
    BY <1>1 DEF Closed
  <2>6. l.number >= 1 /\ (l.number # 1 => Closed(l.intent, l.number - 1)')
    <3>1. ASSUME l.number # 1 PROVE Closed(i, n)'
      BY <1>5, <1>6, <2>2, <2>5, <3>1
    <3>2. l.number - 1 = n
      BY <1>6, <2>2
    <3>3. QED
      BY <1>6, <2>2, <3>1, <3>2
  <2>7. InHand(s)'
    BY <1>7, <2>2, <2>4, <2>6 DEF InHand, InitiateInHand, CallbackInHand
  <2>8. QED
    BY <2>2, <2>3, <2>7
<1>8. CASE \E response \in IfNotCharged :
             /\ Learn(s, [task[s] EXCEPT !.number = @ + 1, !.attempt = Answered(response, None)],
                  "insert")
             /\ UNCHANGED charge
  <2>1. PICK response \in IfNotCharged :
             /\ Learn(s, [task[s] EXCEPT !.number = @ + 1, !.attempt = Answered(response, None)],
                  "insert")
             /\ UNCHANGED charge
    BY <1>8
  <2>2. PICK a \in Attempts : a = Answered(response, None) /\ a.status # "SUCCEEDED"
               /\ a.request = None
    BY AnswersAreAttempts
  <2>3. PICK l \in Tasks : Learn(s, l, "insert") /\ InHand(s)'
    BY <1>7, <2>1, <2>2
  <2>4. QED
    BY <1>1, <2>1, <2>3, LearnKeepsInv
<1>9. CASE \E q \in Charges, response \in IfCharged :
             /\ charge[q] = None
             /\ charge' = [charge EXCEPT ![q] = [intent |-> task[s].intent, state |-> "OPEN"]]
             /\ Learn(s, [task[s] EXCEPT !.number = @ + 1, !.attempt = Answered(response, q)],
                  "insert")
  <2>1. PICK q \in Charges, response \in IfCharged :
             /\ charge[q] = None
             /\ charge' = [charge EXCEPT ![q] = [intent |-> i, state |-> "OPEN"]]
             /\ Learn(s, [task[s] EXCEPT !.number = @ + 1, !.attempt = Answered(response, q)],
                  "insert")
    BY <1>2, <1>3, <1>9
  <2>2. PICK a \in Attempts : a = Answered(response, q) /\ a.status # "SUCCEEDED"
               /\ a.request \in {q, None}
    BY AnswersAreAttempts
  <2>3. RowsTypeOK' /\ RowsInv' /\ RowsGrow /\ Charged(i, q)'
    <3>1. /\ charge' \in [Charges -> ChargeStates \cup {None}]
          /\ charge'[q] = [intent |-> i, state |-> "OPEN"]
          /\ \A p \in Charges \ {q} : charge'[p] = charge[p]
      BY <2>1 DEF Inv, TypeOK, ChargeStates
    <3>2. QED
      BY <1>1, <2>1, <3>1, NewCharge
  <2>4. a.request # None => Charged(i, a.request)'
    BY <2>2, <2>3
  <2>5. PICK l \in Tasks : Learn(s, l, "insert") /\ InHand(s)'
    BY <1>7, <2>1, <2>2, <2>4
  <2>6. /\ pc' = [pc EXCEPT ![s] = "insert"] /\ task' = [task EXCEPT ![s] = l]
        /\ pc' \in [Sessions -> Labels] /\ task' \in [Sessions -> Tasks \cup {None}]
    BY <1>1, <2>5, LearnEffect
  <2>7. TypeOK'
    BY <2>3, <2>6 DEF RowsTypeOK, TypeOK
  <2>8. QED
    BY <2>3, <2>5, <2>6, <2>7, SessionStep
<1>10. QED
  BY <1>8, <1>9 DEF Call

(* The next attempt is inserted: the one before it is closed.              *)
LEMMA AttemptInserted ==
  ASSUME Inv, NEW i \in Intents, NEW e \in Attempts,
         attempts' = [attempts EXCEPT ![i] = Append(@, e)],
         Len(attempts[i]) < MaxAttempts,
         Len(attempts[i]) # 0 => Closed(i, Len(attempts[i])),
         e.status # "SUCCEEDED", e.request # None => Charged(i, e.request),
         \/ intent' = intent
         \/ \E status \in IntentStatuses \ {"SUCCEEDED"} :
              intent' = [intent EXCEPT ![i] = status],
         UNCHANGED <<contribution, event, charge>>
  PROVE  RowsTypeOK' /\ RowsInv' /\ RowsGrow
<1>1. \A j \in Intents : Len(attempts[j]) \in Nat /\ Len(attempts[j]) <= MaxAttempts
  BY AttemptsAreSequences DEF Inv
<1>2. /\ attempts' \in [Intents -> Seq(Attempts)]
      /\ \A j \in Intents : Len(attempts'[j]) = IF j = i THEN Len(attempts[j]) + 1
                                                ELSE Len(attempts[j])
      /\ \A j \in Intents : \A m \in 1..Len(attempts'[j]) :
           attempts'[j][m] = IF j = i /\ m = Len(attempts[j]) + 1 THEN e ELSE attempts[j][m]
  BY AppendEffect DEF Inv
<1>3. /\ intent' \in [Intents -> IntentStatuses]
      /\ \A j \in Intents : intent'[j] = "SUCCEEDED" => intent[j] = "SUCCEEDED"
  BY DEF Inv, TypeOK
<1>4. \A j \in Intents : \A m \in 1..Len(attempts'[j]) :
        \/ j = i /\ m = Len(attempts[j]) + 1 /\ attempts'[j][m] = e
        \/ m \in 1..Len(attempts[j]) /\ attempts'[j][m] = attempts[j][m]
  BY <1>1, <1>2
<1>5. \A j \in Intents : /\ Len(attempts[j]) <= Len(attempts'[j])
                         /\ \A m \in 1..Len(attempts[j]) :
                              m \in 1..Len(attempts'[j]) /\ attempts'[j][m] = attempts[j][m]
  BY <1>1, <1>2
<1>6. RowsTypeOK'
  <2>1. \A j \in Intents : Len(attempts'[j]) <= MaxAttempts
    BY <1>1, <1>2, PaymentAssumption
  <2>2. QED
    BY <1>2, <1>3, <2>1 DEF Inv, TypeOK, RowsTypeOK
<1>7. RowsGrow
  BY <1>5 DEF RowsGrow, Closed, Posted
<1>8. RequestsAreCharges'
  <2> SUFFICES ASSUME NEW j \in Intents, NEW m \in 1..Len(attempts'[j]),
                      attempts'[j][m].request # None
               PROVE  Charged(j, attempts'[j][m].request)
    BY DEF RequestsAreCharges, Charged
  <2>1. CASE attempts'[j][m] = e /\ j = i
    BY <2>1
  <2>2. CASE m \in 1..Len(attempts[j]) /\ attempts'[j][m] = attempts[j][m]
    BY <2>2 DEF Inv, RequestsAreCharges
  <2>3. QED
    BY <1>4, <2>1, <2>2
<1>9. SuccessIsPaid'
  <2>1. ASSUME NEW j \in Intents, NEW m \in 1..Len(attempts'[j]),
               attempts'[j][m].status = "SUCCEEDED"
        PROVE  /\ attempts'[j][m].request # None
               /\ charge[attempts'[j][m].request] = [intent |-> j, state |-> "PAID"]
    <3>1. m \in 1..Len(attempts[j]) /\ attempts'[j][m] = attempts[j][m]
      BY <1>4, <2>1
    <3>2. QED
      BY <2>1, <3>1 DEF Inv, SuccessIsPaid
  <2>2. ASSUME NEW j \in Intents, intent'[j] = "SUCCEEDED"
        PROVE  \E m \in 1..Len(attempts'[j]) :
                 attempts'[j][m].request # None /\ charge[attempts'[j][m].request].state = "PAID"
    <3>1. PICK m \in 1..Len(attempts[j]) :
            attempts[j][m].request # None /\ charge[attempts[j][m].request].state = "PAID"
      BY <1>3, <2>2 DEF Inv, SuccessIsPaid
    <3>2. m \in 1..Len(attempts'[j]) /\ attempts'[j][m] = attempts[j][m]
      BY <1>5
    <3>3. QED
      BY <3>1, <3>2
  <2>3. QED
    BY <2>1, <2>2 DEF SuccessIsPaid
<1>10. SuccessIsSettled'
  <2>1. ASSUME NEW j \in Intents, NEW m \in 1..Len(attempts'[j]),
               attempts'[j][m].status = "SUCCEEDED"
        PROVE  Posted
    <3>1. m \in 1..Len(attempts[j]) /\ attempts'[j][m] = attempts[j][m]
      BY <1>4, <2>1
    <3>2. QED
      BY <2>1, <3>1 DEF Inv, SuccessIsSettled
  <2>2. Posted' = Posted
    BY DEF Posted
  <2>3. QED
    BY <1>3, <2>1, <2>2 DEF Inv, SuccessIsSettled
<1>11. OnlyLastAttemptIsOpen'
  <2> SUFFICES ASSUME NEW j \in Intents, NEW m \in 1..(Len(attempts'[j]) - 1)
               PROVE  attempts'[j][m].status \in {"SUCCEEDED", "FAILED"}
    BY DEF OnlyLastAttemptIsOpen
  <2>1. m \in 1..Len(attempts[j]) /\ attempts'[j][m] = attempts[j][m]
    BY <1>1, <1>2
  <2>2. CASE m \in 1..(Len(attempts[j]) - 1)
    BY <2>1, <2>2 DEF Inv, OnlyLastAttemptIsOpen
  <2>3. CASE j = i /\ m = Len(attempts[i])
    BY <2>1, <2>3 DEF Closed
  <2>4. QED
    BY <1>1, <1>2, <2>1, <2>2, <2>3
<1>12. QED
  BY <1>6, <1>7, <1>8, <1>9, <1>10, <1>11 DEF RowsInv

LEMMA InsertAttemptKeepsInv ==
  ASSUME Inv, NEW s \in Sessions, InsertAttempt(s)
  PROVE  Inv'
<1>1. pc[s] = "insert" /\ Finish(s) /\ UNCHANGED <<contribution, event, charge>>
  BY DEF InsertAttempt
<1>2. PICK t \in Tasks : t = task[s] /\ t.intent \in Intents
  BY <1>1, AtWork
<1>3. PICK i \in Intents : i = t.intent
  BY <1>2
<1>4. PICK n \in Nat : n = t.number /\ n <= MaxAttempts
  BY PaymentAssumption DEF Tasks
<1>5. PICK e \in Attempts : e = t.attempt
  BY <1>1, <1>2, AtWork DEF InitiateInHand
<1>6. /\ n >= 1 /\ (n # 1 => Closed(i, n - 1)) /\ e.status # "SUCCEEDED"
      /\ e.request # None => Charged(i, e.request)
  BY <1>1, <1>2, <1>3, <1>4, <1>5, AtWork DEF InitiateInHand
<1>7. Len(attempts[i]) \in Nat
  BY AttemptsAreSequences DEF Inv
<1>8. CASE Len(attempts[i]) >= n
  <2>1. UNCHANGED <<intent, attempts>>
    BY <1>2, <1>3, <1>4, <1>8 DEF InsertAttempt
  <2>2. QED
    BY <1>1, <2>1, FinishKeepsInv DEF Rows
<1>9. CASE ~ Len(attempts[i]) >= n
  <2>1. /\ attempts' = [attempts EXCEPT ![i] = Append(@, e)]
        /\ \/ intent' = intent
           \/ \E status \in IntentStatuses \ {"SUCCEEDED"} :
                intent' = [intent EXCEPT ![i] = status]
    <3>1. /\ attempts' = [attempts EXCEPT ![i] = Append(@, e)]
          /\ intent' = IF e.status = "INITIATED" /\ t.seen = "PENDING"
                       THEN [intent EXCEPT ![i] = "PROCESSING"]
                       ELSE IF e.status = "FAILED" /\ ~ e.retryable
                               /\ t.seen = "PROCESSING"
                       THEN [intent EXCEPT ![i] = "FAILED"]
                       ELSE intent
      BY <1>2, <1>3, <1>4, <1>5, <1>9 DEF InsertAttempt
    <3>2. QED
      BY <3>1 DEF IntentStatuses
  <2>2. Len(attempts[i]) < MaxAttempts /\ (Len(attempts[i]) # 0 => Closed(i, Len(attempts[i])))
    <3>1. CASE n = 1
      BY <1>4, <1>7, <1>9, <3>1, PaymentAssumption
    <3>2. CASE n # 1
      <4>1. Closed(i, n - 1)
        BY <1>6, <3>2
      <4>2. n - 1 = Len(attempts[i])
        BY <1>7, <1>9, <4>1 DEF Closed
      <4>3. QED
        BY <1>4, <1>7, <4>1, <4>2, PaymentAssumption
    <3>3. QED
      BY <3>1, <3>2
  <2>3. RowsTypeOK' /\ RowsInv' /\ RowsGrow
    BY <1>1, <1>6, <2>1, <2>2, AttemptInserted
  <2>4. Learn(s, None, "idle") /\ "idle" \in Labels
    BY <1>1 DEF Finish, Labels
  <2>5. /\ pc' = [pc EXCEPT ![s] = "idle"] /\ task' = [task EXCEPT ![s] = None]
        /\ pc' \in [Sessions -> Labels] /\ task' \in [Sessions -> Tasks \cup {None}]
        /\ pc'[s] = "idle"
    BY <2>4, LearnEffect
  <2>6. TypeOK' /\ InHand(s)'
    BY <2>3, <2>5 DEF RowsTypeOK, TypeOK, InHand
  <2>7. QED
    BY <2>3, <2>5, <2>6, SessionStep
<1>10. QED
  BY <1>8, <1>9

(* What a session has in hand that is past the attempt it has loaded.      *)
LEMMA AtAttempt ==
  ASSUME Inv, NEW s \in Sessions,
         pc[s] \in {"query", "succeed", "fail", "decide", "apply", "mark"}
  PROVE  \E t \in Tasks, i \in Intents, e \in Attempts :
           \E n \in 1..Len(attempts[i]) :
             /\ t = task[s] /\ i = t.intent /\ n = t.number /\ e = t.attempt
             /\ e.request = attempts[i][n].request /\ n \in Nat /\ n <= MaxAttempts
             /\ attempts[i][n] \in Attempts
<1>1. /\ task[s] \in Tasks /\ task[s].intent \in Intents
      /\ task[s].number \in 1..Len(attempts[task[s].intent])
      /\ task[s].attempt \in Attempts
      /\ task[s].attempt.request = attempts[task[s].intent][task[s].number].request
  BY AtWork DEF InitiateInHand
<1>2. task[s].number \in Nat /\ task[s].number <= MaxAttempts
  BY <1>1, PaymentAssumption DEF Tasks
<1>3. attempts[task[s].intent][task[s].number] \in Attempts
  BY <1>1, AttemptsAreSequences DEF Inv
<1>4. QED
  BY <1>1, <1>2, <1>3

LEMMA QueryKeepsInv ==
  ASSUME Inv, NEW s \in Sessions, Query(s)
  PROVE  Inv'
<1>1. pc[s] = "query" /\ UNCHANGED <<Rows, charge>>
  BY DEF Query
<1>2. PICK t \in Tasks, i \in Intents, e \in Attempts :
        \E n \in 1..Len(attempts[i]) :
          /\ t = task[s] /\ i = t.intent /\ n = t.number /\ e = t.attempt
          /\ e.request = attempts[i][n].request /\ n \in Nat /\ n <= MaxAttempts
          /\ attempts[i][n] \in Attempts
  BY <1>1, AtAttempt
<1>3. PICK q \in Charges : q = e.request /\ Charged(i, q)
  <2>1. e.request # None
    BY <1>1, <1>2, AtWork DEF InitiateInHand
  <2>2. QED
    BY <1>2, <2>1 DEF Inv, RequestsAreCharges, Charged
<1>4. CASE Finish(s)
  BY <1>1, <1>4, FinishKeepsInv
<1>5. ASSUME NEW answer \in Answers(task[s].attempt.request), NEW label \in {"succeed", "fail"},
             label = "succeed" => Normalized(answer) = "SUCCEEDED", Goto(s, label), UNCHANGED task
      PROVE  Inv'
  <2>1. label \in Labels /\ Learn(s, t, label)
    BY <1>2, <1>5, GotoIsLearn DEF Labels
  <2>2. label = "succeed" => Paid(i, q)
    <3>1. ASSUME label = "succeed" PROVE answer = "success"
      BY <1>5, <3>1, PaymentAssumption DEF Normalized, DarajaStatus, JengaStatus
    <3>2. answer = "success" => charge[q].state = "PAID"
      BY <1>2, <1>3, <1>5 DEF Answers
    <3>3. QED
      BY <1>3, <3>1, <3>2 DEF Paid
  <2>3. pc'[s] = label /\ task'[s] = t
    BY <2>1, LearnEffect
  <2>4. attempts' = attempts /\ charge' = charge
    BY <1>1 DEF Rows
  <2>5. Paid(i, q)' = Paid(i, q)
    BY <2>4 DEF Paid, Charged
  <2>6. InHand(s)'
    BY <1>2, <1>3, <2>2, <2>3, <2>4, <2>5 DEF InHand, InitiateInHand, CallbackInHand
  <2>7. QED
    BY <1>1, <2>1, <2>6, LearnKeepsInv
<1>6. QED
  BY <1>4, <1>5 DEF Query

LEMMA ResolveSuccessKeepsInv ==
  ASSUME Inv, NEW s \in Sessions, ResolveSuccess(s) \/ ResolveReversed(s)
  PROVE  Inv'
<1>1. CASE ResolveReversed(s)
  BY <1>1, FinishKeepsInv DEF ResolveReversed, Refuse
<1>2. CASE ResolveSuccess(s)
  <2>1. PICK t \in Tasks, i \in Intents, e \in Attempts :
          \E m \in 1..Len(attempts[i]) :
            /\ t = task[s] /\ i = t.intent /\ m = t.number /\ e = t.attempt
            /\ e.request = attempts[i][m].request /\ m \in Nat /\ m <= MaxAttempts
            /\ attempts[i][m] \in Attempts
    BY <1>2, AtAttempt DEF ResolveSuccess
  <2>2. PICK n \in 1..Len(attempts[i]) :
            /\ n = task[s].number /\ i = task[s].intent
            /\ e.request = attempts[i][n].request /\ attempts[i][n] \in Attempts
    BY <2>1
  <2>3. Paid(i, attempts[i][n].request)
    BY <1>2, <2>1, <2>2, AtWork DEF ResolveSuccess, InitiateInHand
  <2>4. /\ contribution' = "CONFIRMED" /\ Posted' /\ charge' = charge /\ event' = event
        /\ Finish(s)
    BY <1>2 DEF ResolveSuccess, Settle, Posted
  <2>5. AttemptChange(i)
    <3>1. attempts' = [attempts EXCEPT ![i][n].status = "SUCCEEDED"]
      BY <1>2, <2>2 DEF ResolveSuccess, SetAttempt
    <3>2. PICK f \in Attempts : f = [attempts[i][n] EXCEPT !.status = "SUCCEEDED"]
      BY <2>2 DEF Attempts
    <3>3. attempts' = [attempts EXCEPT ![i][n] = f]
      BY <3>1, <3>2
    <3>4. f.status = "SUCCEEDED" /\ f.request = attempts[i][n].request
      BY <2>2, <3>2 DEF Attempts
    <3>5. QED
      BY <2>3, <2>4, <3>3, <3>4 DEF AttemptChange
  <2>6. IntentChange(i)
    <3>1. intent' = intent \/ intent' = [intent EXCEPT ![i] = "SUCCEEDED"]
      BY <1>2, <2>2 DEF ResolveSuccess, FollowIntent
    <3>2. QED
      BY <2>3, <2>4, <3>1 DEF IntentChange, IntentStatuses
  <2>7. EventChange
    BY <2>4 DEF EventChange
  <2>8. QED
    BY <2>4, <2>5, <2>6, <2>7, LastCommitKeepsInv
<1>3. QED
  BY <1>1, <1>2

LEMMA ResolveFailureKeepsInv ==
  ASSUME Inv, NEW s \in Sessions, ResolveFailure(s)
  PROVE  Inv'
<1>1. pc[s] = "fail" /\ UNCHANGED <<intent, contribution, event, charge>> /\ "decide" \in Labels
  BY DEF ResolveFailure, Labels
<1>2. PICK t \in Tasks, i \in Intents, e \in Attempts :
        \E m \in 1..Len(attempts[i]) :
          /\ t = task[s] /\ i = t.intent /\ m = t.number /\ e = t.attempt
          /\ e.request = attempts[i][m].request /\ m \in Nat /\ m <= MaxAttempts
          /\ attempts[i][m] \in Attempts
  BY <1>1, AtAttempt
<1>3. PICK n \in 1..Len(attempts[i]) :
          /\ n = t.number /\ e.request = attempts[i][n].request /\ n \in Nat
  BY <1>2
<1>4. PICK f \in Attempts : f = [e EXCEPT !.status = "FAILED", !.retryable = TRUE]
  BY DEF Attempts
<1>5. f.status = "FAILED" /\ f.request = attempts[i][n].request
  BY <1>3, <1>4 DEF Attempts
<1>6. PICK l \in Tasks : l = [t EXCEPT !.attempt = f]
  BY DEF Tasks
<1>7. l.intent = i /\ l.number = n /\ l.attempt = f
  BY <1>2, <1>3, <1>6 DEF Tasks
<1>8. attempts' = [attempts EXCEPT ![i][n] = f] /\ Learn(s, l, "decide")
  BY <1>2, <1>3, <1>4, <1>6 DEF ResolveFailure
<1>9. AttemptChange(i)
  BY <1>5, <1>8 DEF AttemptChange
<1>10. IntentChange(i) /\ EventChange
  BY <1>1 DEF IntentChange, EventChange
<1>11. contribution' \in {"PENDING", "CONFIRMED", "REVERSED"} /\ (Posted => Posted')
  BY <1>1 DEF Inv, TypeOK, Posted
<1>12. pc'[s] = "decide" /\ task'[s] = l
  BY <1>1, <1>8, LearnEffect
<1>13. attempts'[i][n] = f /\ Len(attempts'[i]) = Len(attempts[i])
  <2>1. attempts \in [Intents -> Seq(Attempts)] /\ attempts[i] \in Seq(Attempts)
    BY DEF Inv, TypeOK
  <2>2. attempts'[i] = [attempts[i] EXCEPT ![n] = f]
    BY <1>8, <2>1
  <2>3. QED
    BY <2>1, <2>2, ExceptSeq
<1>14. InHand(s)'
  BY <1>5, <1>7, <1>12, <1>13 DEF InHand, InitiateInHand, CallbackInHand, Closed
<1>15. QED
  BY <1>1, <1>8, <1>9, <1>10, <1>11, <1>14, CommitKeepsInv

(* The intent follows to FAILED.                                           *)
LEMMA IntentFails ==
  ASSUME Inv, NEW s \in Sessions, task[s].intent \in Intents, FollowIntent(s, "FAILED"),
         Finish(s),
         UNCHANGED <<attempts, contribution, event, charge>>
  PROVE  Inv'
<1>1. PICK i \in Intents : i = task[s].intent
  OBVIOUS
<1>2. IntentChange(i)
  BY <1>1 DEF FollowIntent, IntentChange, IntentStatuses
<1>3. AttemptChange(i) /\ EventChange
  BY DEF AttemptChange, EventChange
<1>4. contribution' \in {"PENDING", "CONFIRMED", "REVERSED"} /\ (Posted => Posted')
  BY DEF Inv, TypeOK, Posted
<1>5. QED
  BY <1>2, <1>3, <1>4, LastCommitKeepsInv

LEMMA DecideKeepsInv ==
  ASSUME Inv, NEW s \in Sessions, Decide(s) \/ Repair(s)
  PROVE  Inv'
<1>1. pc[s] \in {"decide", "repair"} /\ UNCHANGED <<attempts, contribution, event, charge>>
  BY DEF Decide, Repair
<1>2. task[s].intent \in Intents
  BY <1>1, AtWork
<1>3. CASE FollowIntent(s, "FAILED") /\ Finish(s)
  BY <1>1, <1>2, <1>3, IntentFails
<1>4. CASE pc[s] = "decide" /\ MayRetry(s) /\ Goto(s, "call") /\ UNCHANGED <<intent, task>>
  <2>1. PICK t \in Tasks, i \in Intents : t = task[s] /\ i = t.intent /\ t.number < MaxAttempts
               /\ Closed(i, t.number)
    BY <1>2, <1>4, AtWork DEF InitiateInHand, MayRetry
  <2>2. Learn(s, t, "call") /\ "call" \in Labels
    BY <1>4, <2>1, GotoIsLearn DEF Labels
  <2>3. pc'[s] = "call" /\ task'[s] = t
    BY <2>2, LearnEffect
  <2>4. Closed(i, t.number)'
    BY <1>1, <2>1 DEF Closed
  <2>5. InHand(s)'
    BY <2>1, <2>3, <2>4 DEF InHand, InitiateInHand, CallbackInHand
  <2>6. QED
    BY <1>1, <1>4, <2>2, <2>5, LearnKeepsInv DEF Rows
<1>5. QED
  BY <1>3, <1>4 DEF Decide, Repair

(***************************************************************************)
(* Callbacks.                                                              *)
(***************************************************************************)

(* An event that is stored is marked, and the request ends.                *)
LEMMA MarkKeepsInv ==
  ASSUME Inv, NEW s \in Sessions, NEW i \in Intents, NEW q \in Charges,
         NEW status \in EventStatuses,
         event[q] # None, SetEvent(q, status), Finish(s),
         status = "PROCESSED" /\ event[q].payload = "SUCCEEDED" => Posted,
         UNCHANGED <<intent, attempts, contribution, charge>>
  PROVE  Inv'
<1>1. AttemptChange(i) /\ IntentChange(i)
  BY DEF AttemptChange, IntentChange
<1>2. Posted' = Posted /\ contribution' \in {"PENDING", "CONFIRMED", "REVERSED"}
  BY DEF Inv, TypeOK, Posted
<1>3. EventChange
  BY <1>2 DEF EventChange, SetEvent
<1>4. QED
  BY <1>1, <1>2, <1>3, LastCommitKeepsInv

LEMMA ResolveDuplicateKeepsInv ==
  ASSUME Inv, NEW s \in Sessions, NEW q \in Charges, NEW payload \in Contents, NEW t \in Tasks,
         event[q] # None, ResolveDuplicate(s, q, payload, t),
         t.charge = q, t.payload = payload, Charged(t.intent, q),
         payload = "SUCCEEDED" => Paid(t.intent, q),
         UNCHANGED <<intent, attempts, contribution, charge>>
  PROVE  Inv'
<1>1. CASE \E status \in {"DISAGREEMENT", "DEDUPLICATED"} : SetEvent(q, status) /\ Finish(s)
  <2>1. t.intent \in Intents
    BY DEF Tasks
  <2>2. QED
    BY <1>1, <2>1, MarkKeepsInv DEF EventStatuses
<1>2. CASE event[q].payload = payload /\ Learn(s, t, "find") /\ UNCHANGED event
  <2>1. pc'[s] = "find" /\ task'[s] = t /\ "find" \in Labels
    BY <1>2, LearnEffect DEF Labels
  <2>2. Charged(t.intent, q)' /\ (payload = "SUCCEEDED" => Paid(t.intent, q)')
    BY DEF Charged, Paid
  <2>3. InHand(s)'
    BY <1>2, <2>1, <2>2 DEF InHand, InitiateInHand, CallbackInHand
  <2>4. QED
    BY <1>2, <2>1, <2>3, LearnKeepsInv DEF Rows
<1>3. QED
  BY <1>1, <1>2 DEF ResolveDuplicate

LEMMA DeliverKeepsInv ==
  ASSUME Inv, NEW s \in Sessions, NEW q \in Charges, NEW payload \in Contents,
         Deliver(s, q, payload)
  PROVE  Inv'
<1>1. /\ charge[q] # None /\ payload \in Payloads(q)
      /\ UNCHANGED <<intent, attempts, contribution, charge>>
  BY DEF Deliver
<1>2. PICK i \in Intents : i = charge[q].intent
  BY <1>1 DEF Inv, TypeOK, ChargeStates
<1>3. PICK t \in Tasks : t = [intent |-> i, seen |-> "ABSENT", number |-> 0,
                              attempt |-> None, charge |-> q, payload |-> payload]
  <2>1. [intent |-> i, seen |-> "ABSENT", number |-> 0,
         attempt |-> None, charge |-> q, payload |-> payload] \in Tasks
    BY PaymentAssumption DEF Tasks, IntentStatuses
  <2>2. QED
    BY <2>1
<1>4. Charged(i, q) /\ t.intent = i /\ t.charge = q /\ t.payload = payload
  BY <1>1, <1>2, <1>3 DEF Charged
<1>5. payload = "SUCCEEDED" => Paid(i, q)
  <2>1. payload = "SUCCEEDED" => payload \in Outcomes(q)
    BY <1>1 DEF Payloads, DarajaPayloads, JengaPayloads
  <2>2. QED
    BY <1>4, <2>1 DEF Outcomes, Paid
<1>6. CASE event[q] = None /\ Learn(s, t, "store") /\ UNCHANGED event
  <2>1. pc'[s] = "store" /\ task'[s] = t /\ "store" \in Labels
    BY <1>6, LearnEffect DEF Labels
  <2>2. Charged(i, q)' /\ (payload = "SUCCEEDED" => Paid(i, q)')
    BY <1>1, <1>4, <1>5 DEF Charged, Paid
  <2>3. InHand(s)'
    BY <1>4, <2>1, <2>2 DEF InHand, InitiateInHand, CallbackInHand
  <2>4. QED
    BY <1>1, <1>6, <2>1, <2>3, LearnKeepsInv DEF Rows
<1>7. CASE event[q] # None /\ ResolveDuplicate(s, q, payload, t)
  BY <1>1, <1>4, <1>5, <1>7, ResolveDuplicateKeepsInv
<1>8. QED
  BY <1>2, <1>3, <1>6, <1>7 DEF Deliver

(* What a session has in hand of a callback.                               *)
LEMMA AtCallback ==
  ASSUME Inv, NEW s \in Sessions, pc[s] \in {"store", "find", "apply", "mark"}
  PROVE  \E t \in Tasks, i \in Intents, q \in Charges, payload \in Contents :
           /\ t = task[s] /\ i = t.intent /\ q = t.charge /\ payload = t.payload
           /\ Charged(i, q) /\ (payload = "SUCCEEDED" => Paid(i, q))
           /\ pc[s] # "store" => event[q] # None /\ event[q].payload = payload
  BY AtWork DEF CallbackInHand, Charged

LEMMA StoreEventKeepsInv ==
  ASSUME Inv, NEW s \in Sessions, StoreEvent(s)
  PROVE  Inv'
<1>1. pc[s] = "store" /\ UNCHANGED <<intent, attempts, contribution, charge>>
  BY DEF StoreEvent
<1>2. PICK t \in Tasks, i \in Intents, q \in Charges, payload \in Contents :
        /\ t = task[s] /\ i = t.intent /\ q = t.charge /\ payload = t.payload
        /\ Charged(i, q) /\ (payload = "SUCCEEDED" => Paid(i, q))
  BY <1>1, AtCallback
<1>3. CASE event[q] # None
  BY <1>1, <1>2, <1>3, ResolveDuplicateKeepsInv DEF StoreEvent
<1>4. CASE event[q] = None
  <2>1. /\ event' = [event EXCEPT ![q] = [payload |-> payload, status |-> "RECEIVED"]]
        /\ Goto(s, "find") /\ UNCHANGED task
    BY <1>2, <1>4 DEF StoreEvent
  <2>2. Learn(s, t, "find") /\ "find" \in Labels
    BY <1>2, <2>1, GotoIsLearn DEF Labels
  <2>3. pc'[s] = "find" /\ task'[s] = t
    BY <2>2, LearnEffect
  <2>4. Charged(i, q)' /\ (payload = "SUCCEEDED" => Paid(i, q)')
    BY <1>1, <1>2 DEF Charged, Paid
  <2>5. event'[q] # None /\ event'[q].payload = payload
    <3>1. [payload |-> payload, status |-> "RECEIVED"] \in EventRows
      BY PaymentAssumption DEF EventRows, EventStatuses
    <3>2. event'[q] = [payload |-> payload, status |-> "RECEIVED"]
      BY <2>1 DEF Inv, TypeOK
    <3>3. QED
      BY <3>1, <3>2, PaymentAssumption
  <2>6. InHand(s)'
    BY <1>2, <2>3, <2>4, <2>5 DEF InHand, InitiateInHand, CallbackInHand
  <2>7. AttemptChange(i) /\ IntentChange(i) /\ EventChange
    BY <1>1, <1>4, <2>1 DEF AttemptChange, IntentChange, EventChange
  <2>8. contribution' \in {"PENDING", "CONFIRMED", "REVERSED"} /\ (Posted => Posted')
    BY <1>1 DEF Inv, TypeOK, Posted
  <2>9. QED
    BY <1>1, <2>2, <2>6, <2>7, <2>8, CommitKeepsInv
<1>5. QED
  BY <1>3, <1>4

LEMMA FindAttemptKeepsInv ==
  ASSUME Inv, NEW s \in Sessions, FindAttempt(s)
  PROVE  Inv'
<1>1. pc[s] = "find" /\ UNCHANGED <<intent, attempts, contribution, charge>>
  BY DEF FindAttempt
<1>2. PICK t \in Tasks, i \in Intents, q \in Charges, payload \in Contents :
        /\ t = task[s] /\ i = t.intent /\ q = t.charge /\ payload = t.payload
        /\ Charged(i, q) /\ (payload = "SUCCEEDED" => Paid(i, q))
        /\ event[q] # None /\ event[q].payload = payload
  BY <1>1, AtCallback
<1>3. CASE SetEvent(q, "UNPROCESSABLE") /\ Finish(s)
  BY <1>1, <1>2, <1>3, MarkKeepsInv DEF EventStatuses
<1>4. ASSUME NEW n \in 1..Len(attempts[i]), Bound(i, n, q),
             Learn(s, [t EXCEPT !.number = n, !.attempt = attempts[i][n], !.seen = intent[i]],
               "apply"),
             UNCHANGED event
      PROVE  Inv'
  <2>1. PICK e \in Attempts : e = attempts[i][n] /\ e.request = q
    BY <1>4, AttemptsAreSequences DEF Inv, Bound
  <2>2. n \in 0..MaxAttempts /\ n \in Nat
    BY AttemptsAreSequences, PaymentAssumption DEF Inv
  <2>3. intent[i] \in IntentStatuses
    BY DEF Inv, TypeOK
  <2>4. PICK l \in Tasks : l = [t EXCEPT !.number = n, !.attempt = e, !.seen = intent[i]]
    BY <2>1, <2>2, <2>3 DEF Tasks
  <2>5. l.intent = i /\ l.number = n /\ l.attempt = e /\ l.charge = q /\ l.payload = payload
    BY <1>2, <2>4 DEF Tasks
  <2>6. Learn(s, l, "apply") /\ "apply" \in Labels
    BY <1>4, <2>1, <2>4 DEF Labels
  <2>7. pc'[s] = "apply" /\ task'[s] = l
    BY <2>6, LearnEffect
  <2>8. Charged(i, q)' /\ (payload = "SUCCEEDED" => Paid(i, q)')
    BY <1>1, <1>2 DEF Charged, Paid
  <2>9. e.status = "SUCCEEDED" => Posted'
    BY <1>1, <2>1 DEF Inv, SuccessIsSettled, Posted
  <2>10. InitiateInHand(s)'
    BY <1>1, <2>1, <2>5, <2>7 DEF InitiateInHand
  <2>11. CallbackInHand(s)'
    BY <1>1, <1>2, <1>4, <2>1, <2>5, <2>7, <2>8, <2>9 DEF CallbackInHand
  <2>12. InHand(s)'
    BY <2>7, <2>10, <2>11 DEF InHand
  <2>13. QED
    BY <1>1, <1>4, <2>6, <2>12, LearnKeepsInv DEF Rows
<1>5. QED
  BY <1>2, <1>3, <1>4 DEF FindAttempt

(* What is in hand when a callback is applied.                             *)
LEMMA AtApply ==
  ASSUME Inv, NEW s \in Sessions, pc[s] \in {"apply", "mark"}
  PROVE  \E i \in Intents, q \in Charges, payload \in Contents :
           \E n \in 1..Len(attempts[i]) :
             /\ task[s].intent = i /\ task[s].number = n
             /\ task[s].charge = q /\ task[s].payload = payload
             /\ attempts[i][n] \in Attempts /\ attempts[i][n].request = q
             /\ payload = "SUCCEEDED" => Paid(i, q)
             /\ event[q] # None /\ event[q].payload = payload
             /\ pc[s] = "apply" /\ task[s].attempt.status = "SUCCEEDED" => Posted
             /\ pc[s] = "mark" => Posted
<1>1. PICK t \in Tasks, i \in Intents, q \in Charges, payload \in Contents :
           /\ t = task[s] /\ i = t.intent /\ q = t.charge /\ payload = t.payload
           /\ Charged(i, q) /\ (payload = "SUCCEEDED" => Paid(i, q))
           /\ event[q] # None /\ event[q].payload = payload
  BY AtCallback
<1>2. PICK u \in Tasks, j \in Intents, e \in Attempts :
        \E n \in 1..Len(attempts[j]) :
             /\ u = task[s] /\ j = u.intent /\ n = u.number /\ e = u.attempt
             /\ e.request = attempts[j][n].request /\ n \in Nat /\ n <= MaxAttempts
             /\ attempts[j][n] \in Attempts
  BY AtAttempt
<1>3. /\ task[s].attempt.request = q
      /\ pc[s] = "apply" /\ task[s].attempt.status = "SUCCEEDED" => Posted
      /\ pc[s] = "mark" => Posted
  BY <1>1, AtWork DEF CallbackInHand
<1>4. j = i
  BY <1>1, <1>2
<1>5. PICK n \in 1..Len(attempts[i]) :
        /\ n = task[s].number /\ task[s].attempt.request = attempts[i][n].request
        /\ attempts[i][n] \in Attempts
  BY <1>2, <1>4
<1>6. QED
  BY <1>1, <1>3, <1>5

LEMMA AcknowledgeKeepsInv ==
  ASSUME Inv, NEW s \in Sessions, AcknowledgeCallback(s) \/ MarkProcessed(s)
  PROVE  Inv'
<1>1. pc[s] \in {"apply", "mark"} /\ UNCHANGED <<intent, attempts, contribution, charge>>
        /\ Finish(s)
  BY DEF AcknowledgeCallback, MarkProcessed
<1>2. PICK i \in Intents, q \in Charges, payload \in Contents :
           \E n \in 1..Len(attempts[i]) :
             /\ task[s].intent = i /\ task[s].number = n
             /\ task[s].charge = q /\ task[s].payload = payload
             /\ attempts[i][n] \in Attempts /\ attempts[i][n].request = q
             /\ payload = "SUCCEEDED" => Paid(i, q)
             /\ event[q] # None /\ event[q].payload = payload
             /\ pc[s] = "apply" /\ task[s].attempt.status = "SUCCEEDED" => Posted
             /\ pc[s] = "mark" => Posted
  BY <1>1, AtApply
<1>3. PICK status \in EventStatuses :
        SetEvent(q, status) /\ (status = "PROCESSED" /\ payload = "SUCCEEDED" => Posted)
  <2>1. CASE AcknowledgeCallback(s)
    BY <1>2, <2>1 DEF AcknowledgeCallback, EventStatuses
  <2>2. CASE MarkProcessed(s)
    BY <1>2, <2>2 DEF MarkProcessed, EventStatuses
  <2>3. QED
    BY <2>1, <2>2
<1>4. QED
  BY <1>1, <1>2, <1>3, MarkKeepsInv

LEMMA ApplySuccessKeepsInv ==
  ASSUME Inv, NEW s \in Sessions, ApplySuccess(s)
  PROVE  Inv'
<1>1. /\ pc[s] = "apply" /\ task[s].payload = "SUCCEEDED" /\ UNCHANGED charge
      /\ contribution' = "CONFIRMED" /\ Posted'
  BY DEF ApplySuccess, Settle, Posted
<1>2. PICK i \in Intents, q \in Charges :
           \E n \in 1..Len(attempts[i]) :
             /\ task[s].intent = i /\ task[s].number = n /\ task[s].charge = q
             /\ attempts[i][n] \in Attempts /\ attempts[i][n].request = q
             /\ Paid(i, q) /\ event[q] # None /\ event[q].payload = "SUCCEEDED"
  BY <1>1, AtApply
<1>3. PICK n \in 1..Len(attempts[i]) :
             /\ task[s].number = n
             /\ attempts[i][n] \in Attempts /\ attempts[i][n].request = q
  BY <1>2
<1>4. AttemptChange(i)
  <2>1. attempts' = [attempts EXCEPT ![i][n].status = "SUCCEEDED"]
    BY <1>2, <1>3 DEF ApplySuccess, SetAttempt
  <2>2. PICK f \in Attempts : f = [attempts[i][n] EXCEPT !.status = "SUCCEEDED"]
    BY <1>3 DEF Attempts
  <2>3. attempts' = [attempts EXCEPT ![i][n] = f]
    BY <2>1, <2>2
  <2>4. f.status = "SUCCEEDED" /\ f.request = q
    BY <1>3, <2>2 DEF Attempts
  <2>5. QED
    BY <1>1, <1>2, <1>3, <2>3, <2>4 DEF AttemptChange
<1>5. IntentChange(i)
  <2>1. intent' = intent \/ intent' = [intent EXCEPT ![i] = "SUCCEEDED"]
    BY <1>2 DEF ApplySuccess, FollowIntent
  <2>2. QED
    BY <1>1, <1>2, <1>3, <2>1 DEF IntentChange, IntentStatuses
<1>6. CASE SetEvent(q, "PROCESSED") /\ Finish(s)
  <2>1. EventChange
    BY <1>1, <1>2, <1>6 DEF EventChange, SetEvent, EventStatuses
  <2>2. QED
    BY <1>1, <1>4, <1>5, <1>6, <2>1, LastCommitKeepsInv
<1>7. CASE Goto(s, "mark") /\ UNCHANGED <<event, task>>
  <2>1. PICK t \in Tasks : t = task[s] /\ t.intent \in Intents
    BY <1>1, AtWork
  <2>2. Learn(s, t, "mark") /\ "mark" \in Labels
    BY <1>7, <2>1, GotoIsLearn DEF Labels
  <2>3. pc'[s] = "mark" /\ task'[s] = t
    BY <2>2, LearnEffect
  <2>4. /\ t.number = n /\ t.intent = i /\ t.charge = q
        /\ t.attempt \in Attempts /\ t.attempt.request = q /\ t.payload \in Contents
        /\ t.payload = "SUCCEEDED"
    BY <1>1, <1>2, <1>3, <2>1, AtWork DEF InitiateInHand, CallbackInHand
  <2>5. Len(attempts'[i]) = Len(attempts[i]) /\ attempts'[i][n].request = q
    BY <1>3, <1>4, AttemptChangeEffect
  <2>6. Paid(i, q)' /\ Charged(i, q)'
    BY <1>1, <1>2 DEF Paid, Charged
  <2>7. InitiateInHand(s)'
    BY <2>3, <2>4, <2>5 DEF InitiateInHand
  <2>8. CallbackInHand(s)'
    BY <1>1, <1>2, <1>7, <2>3, <2>4, <2>6 DEF CallbackInHand
  <2>9. InHand(s)'
    BY <2>3, <2>7, <2>8 DEF InHand
  <2>10. EventChange
    BY <1>7 DEF EventChange
  <2>11. QED
    BY <1>1, <1>4, <1>5, <2>2, <2>9, <2>10, CommitKeepsInv
<1>8. QED
  BY <1>2, <1>6, <1>7 DEF ApplySuccess

LEMMA ApplyFailureKeepsInv ==
  ASSUME Inv, NEW s \in Sessions, ApplyFailure(s)
  PROVE  Inv'
<1>1. /\ pc[s] = "apply" /\ task[s].payload = "FAILED" /\ UNCHANGED <<contribution, charge>>
      /\ Finish(s)
  BY DEF ApplyFailure
<1>2. PICK i \in Intents, q \in Charges :
           \E n \in 1..Len(attempts[i]) :
             /\ task[s].intent = i /\ task[s].number = n /\ task[s].charge = q
             /\ attempts[i][n] \in Attempts
             /\ event[q] # None /\ event[q].payload = "FAILED"
  BY <1>1, AtApply
<1>3. PICK n \in 1..Len(attempts[i]) : task[s].number = n /\ attempts[i][n] \in Attempts
  BY <1>2
<1>4. AttemptChange(i)
  <2>1. attempts' = [attempts EXCEPT ![i][n].status = "FAILED"]
    BY <1>2, <1>3 DEF ApplyFailure, SetAttempt
  <2>2. PICK f \in Attempts : f = [attempts[i][n] EXCEPT !.status = "FAILED"]
    BY <1>3 DEF Attempts
  <2>3. attempts' = [attempts EXCEPT ![i][n] = f]
    BY <2>1, <2>2
  <2>4. f.status = "FAILED" /\ f.request = attempts[i][n].request
    BY <1>3, <2>2 DEF Attempts
  <2>5. QED
    BY <2>3, <2>4 DEF AttemptChange
<1>5. IntentChange(i)
  <2>1. intent' = intent \/ intent' = [intent EXCEPT ![i] = "FAILED"]
    BY <1>2 DEF ApplyFailure, FollowIntent
  <2>2. QED
    BY <2>1 DEF IntentChange, IntentStatuses
<1>6. EventChange
  BY <1>2 DEF ApplyFailure, EventChange, SetEvent, EventStatuses
<1>7. contribution' \in {"PENDING", "CONFIRMED", "REVERSED"} /\ (Posted => Posted')
  BY <1>1 DEF Inv, TypeOK, Posted
<1>8. QED
  BY <1>1, <1>4, <1>5, <1>6, <1>7, LastCommitKeepsInv

LEMMA RunKeepsInv ==
  ASSUME Inv, NEW s \in Sessions, Run(s) \/ Crash(s)
  PROVE  Inv'
<1>1. CASE Crash(s) \/ ApplyReversed(s)
  BY <1>1, FinishKeepsInv DEF Crash, ApplyReversed, Refuse
<1>2. CASE Run(s) /\ ~ ApplyReversed(s)
  BY <1>2, LoadAttemptsKeepsInv, BeginProcessingKeepsInv, CallKeepsInv, InsertAttemptKeepsInv,
     QueryKeepsInv, ResolveSuccessKeepsInv, ResolveFailureKeepsInv, DecideKeepsInv,
     StoreEventKeepsInv, FindAttemptKeepsInv, AcknowledgeKeepsInv, ApplySuccessKeepsInv,
     ApplyFailureKeepsInv DEF Run
<1>3. QED
  BY <1>1, <1>2

LEMMA StutterKeepsInv ==
  ASSUME Inv, UNCHANGED vars
  PROVE  Inv'
<1>1. RowsInv'
  BY RowsStay DEF vars, Rows
<1>2. TypeOK' /\ TasksInHand'
  BY DEF vars, Inv, TypeOK, TasksInHand, InHand, InitiateInHand, CallbackInHand, Charged, Paid,
         Closed, Posted
<1>3. QED
  BY <1>1, <1>2 DEF Inv, RowsInv

THEOREM Invariance == Spec => []Inv
<1>1. Inv /\ [Next]_vars => Inv'
  <2> SUFFICES ASSUME Inv, [Next]_vars PROVE Inv'
    OBVIOUS
  <2>1. ASSUME NEW i \in Intents, Create(i) PROVE Inv'
    BY <2>1, CreateKeepsInv
  <2>2. ASSUME NEW s \in Sessions, Start(s) PROVE Inv'
    BY <2>2, StartKeepsInv, DeliverKeepsInv DEF Start
  <2>3. ASSUME NEW s \in Sessions, Run(s) \/ Crash(s) PROVE Inv'
    BY <2>3, RunKeepsInv
  <2>4. ASSUME NEW q \in Charges, Conclude(q) PROVE Inv'
    BY <2>4, ConcludeKeepsInv
  <2>5. CASE ConfirmOrReverse
    BY <2>5, ConfirmOrReverseKeepsInv
  <2>6. CASE UNCHANGED vars
    BY <2>6, StutterKeepsInv
  <2>7. QED
    BY <2>1, <2>2, <2>3, <2>4, <2>5, <2>6 DEF Next
<1>2. QED
  BY <1>1, InitInv, PTL DEF Spec

(* Types of intents, attempts, events, charges and sessions.               *)
THEOREM TypeCorrect == Spec => []TypeOK
<1>1. Inv => TypeOK
  BY DEF Inv
<1>2. QED
  BY <1>1, Invariance, PTL

(* An attempt that SUCCEEDED asked for a charge of its intent that was     *)
(* paid, and an intent that SUCCEEDED has such an attempt: whatever        *)
(* sessions, status queries and callbacks do at a time, and whoever        *)
(* crashes (app/services/payment_intent.py and payment_webhook.py).        *)
THEOREM SuccessAlwaysPaid == Spec => []SuccessIsPaid
<1>1. Inv => SuccessIsPaid
  BY DEF Inv
<1>2. QED
  BY <1>1, Invariance, PTL

(* An intent or an attempt that SUCCEEDED, and a success that is           *)
(* acknowledged as PROCESSED, have settled the contribution, also when a   *)
(* crash came in between (app/services/settlement.py, payment_intent.py    *)
(* and payment_webhook.py).                                                *)
THEOREM SuccessAlwaysSettled == Spec => []SuccessIsSettled
<1>1. Inv => SuccessIsSettled
  BY DEF Inv
<1>2. QED
  BY <1>1, Invariance, PTL

(* A new attempt is inserted only when the one before is closed, and a     *)
(* closed one stays closed (initiate in app/services/payment_intent.py).   *)
THEOREM OnlyLastAlwaysOpen == Spec => []OnlyLastAttemptIsOpen
<1>1. Inv => OnlyLastAttemptIsOpen
  BY DEF Inv
<1>2. QED
  BY <1>1, Invariance, PTL

-----------------------------------------------------------------------------
(* What the provider accepts, or another secret of its consumer key.       *)
ConnectionAccepted(r) ==
  /\ \E genuine \in Genuine : genuine[1] = r.seal.credentials[1]
  /\ r.slot \notin Caching => r.seal.credentials \in Genuine

TokensAreGenuine == \A token \in tokens : \E genuine \in Genuine : genuine[1] = token[2]

(* What an operation knows when it commits: a validation that nobody came  *)
(* in between has seen the row as it is.                                   *)
ConnectionKnown(t) ==
  /\ t \in Connecting!Tasks
  /\ t.op = "create" => t.slot \in Slots
  /\ t.op # "create" => t.id \in ConnectionIds /\ row[t.id] # None
  /\ t.op \in {"validate", "replace"} =>
       t.loaded \in Connecting!ConnectionRows
         /\ (Connecting!Exists(t.id) => row[t.id].slot = t.loaded.slot)
  /\ t.op = "validate" =>
       /\ t.loaded.status # "ACTIVE"
       /\ t.valid => ConnectionAccepted(t.loaded)
       /\ Connecting!Exists(t.id) /\ t.id \notin connectionOverlap =>
            row[t.id].seal = t.loaded.seal /\ row[t.id].status = t.loaded.status
  /\ t.op = "replace" /\ t.loaded.status = "PENDING_VALIDATION" =>
       (Connecting!Exists(t.id) /\ t.id \notin connectionOverlap => row[t.id].status # "ACTIVE")

HeldAreKnown ==
  \A s \in Sessions : connectionPc[s] = "commit" => ConnectionKnown(connectionTask[s])

ActiveIsAccepted ==
  \A c \in ConnectionIds :
    Connecting!Exists(c) /\ row[c].status = "ACTIVE" /\ c \notin connectionOverlap =>
      passed[c] = row[c].seal /\ ConnectionAccepted(row[c])

SealsFit == \A c \in ConnectionIds : Connecting!Exists(c) => row[c].seal.version = row[c].version

ConnectionInv ==
  /\ Connecting!ConnectionsTypeOK /\ TokensAreGenuine /\ HeldAreKnown /\ ActiveIsAccepted
  /\ SealsFit /\ Connecting!ConnectionRecordsAreKept

LEMMA ConnectionRowOf ==
  ASSUME ConnectionInv, NEW c \in ConnectionIds, Connecting!Exists(c)
  PROVE  row[c] \in Connecting!ConnectionRows
  BY DEF ConnectionInv, Connecting!ConnectionsTypeOK, Connecting!Exists

LEMMA ConnectionInitInv == ASSUME Connecting!ConnectionAssumption, Connecting!Init
                           PROVE  ConnectionInv
<1> USE DEF Connecting!Init
<1>1. Connecting!ConnectionsTypeOK
  BY DEF Connecting!ConnectionAssumption, Connecting!ConnectionsTypeOK
<1>2. TokensAreGenuine /\ HeldAreKnown
  BY DEF TokensAreGenuine, HeldAreKnown
<1>3. \A c \in ConnectionIds : ~ Connecting!Exists(c)
  BY DEF Connecting!Exists
<1>4. ActiveIsAccepted /\ SealsFit /\ Connecting!ConnectionRecordsAreKept
  BY <1>3 DEF ActiveIsAccepted, SealsFit,
              Connecting!ConnectionRecordsAreKept
<1>5. QED
  BY <1>1, <1>2, <1>4 DEF ConnectionInv

(* What is stored stays; sessions begin or end.                            *)
LEMMA ConnectionStoredStays ==
  ASSUME ConnectionInv, UNCHANGED Connecting!Stored,
         history' \subseteq ConnectionIds, \A c \in history' : Connecting!Exists(c),
         key' \in [current : 1..MaxKey, kept : SUBSET (1..MaxKey)],
         tokens' \subseteq Caching \X ConsumerKeys, TokensAreGenuine',
         connectionPc' \in [Sessions -> {"idle", "commit"}],
         connectionTask' \in [Sessions -> Connecting!Tasks \cup {None}],
         \A s \in Sessions : connectionPc'[s] = "commit" => ConnectionKnown(connectionTask'[s])
  PROVE  ConnectionInv'
<1>1. UNCHANGED <<row, audited, passed, connectionOverlap>>
  BY DEF Connecting!Stored
<1>2. Connecting!ConnectionsTypeOK'
  BY <1>1 DEF ConnectionInv, Connecting!ConnectionsTypeOK
<1>3. \A c : Connecting!Exists(c)' = Connecting!Exists(c)
  BY <1>1 DEF Connecting!Exists
<1>4. \A t : ConnectionKnown(t)' = ConnectionKnown(t)
  BY <1>1, <1>3 DEF ConnectionKnown, ConnectionAccepted
<1>5. HeldAreKnown'
  BY <1>4 DEF HeldAreKnown
<1>6. ActiveIsAccepted' /\ SealsFit' /\ Connecting!ConnectionRecordsAreKept'
  BY <1>1, <1>3 DEF ConnectionInv, ActiveIsAccepted, SealsFit,
                    Connecting!ConnectionRecordsAreKept, ConnectionAccepted
<1>7. QED
  BY <1>2, <1>5, <1>6 DEF ConnectionInv

LEMMA ConnectionTakeKeepsInv ==
  ASSUME ConnectionInv, NEW s \in Sessions, NEW t, Connecting!Take(s, t), ConnectionKnown(t),
         tokens' \subseteq Caching \X ConsumerKeys, TokensAreGenuine'
  PROVE  ConnectionInv'
<1>1. /\ connectionPc' = [connectionPc EXCEPT ![s] = "commit"]
      /\ connectionTask' = [connectionTask EXCEPT ![s] = t]
      /\ UNCHANGED Connecting!Stored /\ history' = history /\ key' = key
  BY DEF Connecting!Take
<1>2. t \in Connecting!Tasks
  BY DEF ConnectionKnown
<1>3. /\ connectionPc' \in [Sessions -> {"idle", "commit"}]
      /\ connectionTask' \in [Sessions -> Connecting!Tasks \cup {None}]
      /\ connectionTask'[s] = t
      /\ \A u \in Sessions \ {s} : connectionPc'[u] = connectionPc[u]
           /\ connectionTask'[u] = connectionTask[u]
  BY <1>1, <1>2 DEF ConnectionInv, Connecting!ConnectionsTypeOK
<1>4. ASSUME NEW u \in Sessions, connectionPc'[u] = "commit"
      PROVE  ConnectionKnown(connectionTask'[u])
  <2>1. CASE u = s
    BY <1>3, <2>1
  <2>2. CASE u # s
    BY <1>3, <1>4, <2>2 DEF ConnectionInv, HeldAreKnown
  <2>3. QED
    BY <2>1, <2>2
<1>5. /\ history' \subseteq ConnectionIds /\ (\A c \in history' : Connecting!Exists(c))
      /\ key' \in [current : 1..MaxKey, kept : SUBSET (1..MaxKey)]
  BY <1>1 DEF ConnectionInv, Connecting!ConnectionsTypeOK, Connecting!ConnectionRecordsAreKept
<1>6. QED
  BY <1>1, <1>3, <1>4, <1>5, ConnectionStoredStays

LEMMA ConnectionRefuseKeepsInv ==
  ASSUME ConnectionInv, NEW s \in Sessions, Connecting!Refuse(s)
  PROVE  ConnectionInv'
<1>1. /\ connectionPc' = [connectionPc EXCEPT ![s] = "idle"]
      /\ connectionTask' = [connectionTask EXCEPT ![s] = None]
      /\ UNCHANGED Connecting!Stored /\ UNCHANGED <<history, key, tokens>>
  BY DEF Connecting!Refuse, Connecting!Finish, Connecting!Others
<1>2. /\ connectionPc' \in [Sessions -> {"idle", "commit"}]
      /\ connectionTask' \in [Sessions -> Connecting!Tasks \cup {None}]
      /\ connectionPc'[s] = "idle"
      /\ \A u \in Sessions \ {s} : connectionPc'[u] = connectionPc[u]
           /\ connectionTask'[u] = connectionTask[u]
  BY <1>1 DEF ConnectionInv, Connecting!ConnectionsTypeOK
<1>3. \A u \in Sessions : connectionPc'[u] = "commit" => ConnectionKnown(connectionTask'[u])
  BY <1>2 DEF ConnectionInv, HeldAreKnown
<1>4. /\ history' \subseteq ConnectionIds /\ (\A c \in history' : Connecting!Exists(c))
      /\ key' \in [current : 1..MaxKey, kept : SUBSET (1..MaxKey)]
      /\ tokens' \subseteq Caching \X ConsumerKeys /\ TokensAreGenuine'
  BY <1>1 DEF ConnectionInv, Connecting!ConnectionsTypeOK, Connecting!ConnectionRecordsAreKept,
              TokensAreGenuine
<1>5. QED
  BY <1>1, <1>2, <1>3, <1>4, ConnectionStoredStays

(* The steps of no session.                                                *)
LEMMA ConnectionOthersKeepInv ==
  ASSUME ConnectionInv, UNCHANGED Connecting!Stored, UNCHANGED <<connectionPc, connectionTask>>,
         history' \subseteq ConnectionIds, \A c \in history' : Connecting!Exists(c),
         key' \in [current : 1..MaxKey, kept : SUBSET (1..MaxKey)],
         tokens' \subseteq Caching \X ConsumerKeys, TokensAreGenuine'
  PROVE  ConnectionInv'
<1>1. /\ connectionPc' \in [Sessions -> {"idle", "commit"}]
      /\ connectionTask' \in [Sessions -> Connecting!Tasks \cup {None}]
      /\ \A s \in Sessions : connectionPc'[s] = "commit" => ConnectionKnown(connectionTask'[s])
  BY DEF ConnectionInv, Connecting!ConnectionsTypeOK, HeldAreKnown
<1>2. QED
  BY <1>1, ConnectionStoredStays

(* A token that is got shows that the provider knows the consumer key.     *)
LEMMA ConnectionTokenShows ==
  ASSUME Connecting!ConnectionAssumption, ConnectionInv, NEW slot \in Slots,
         NEW credentials \in Connecting!Credentials, NEW got,
         Connecting!AccessToken(slot, credentials, got)
  PROVE  /\ tokens' \subseteq Caching \X ConsumerKeys /\ TokensAreGenuine'
         /\ got => /\ \E genuine \in Genuine : genuine[1] = credentials[1]
                   /\ slot \notin Caching => credentials \in Genuine
<1>1. tokens \subseteq Caching \X ConsumerKeys /\ TokensAreGenuine
  BY DEF ConnectionInv, Connecting!ConnectionsTypeOK
<1>2. CASE Connecting!CachedToken(slot, credentials) /\ UNCHANGED tokens
  BY <1>1, <1>2 DEF Connecting!CachedToken, TokensAreGenuine
<1>3. CASE /\ got => credentials \in Genuine
           /\ tokens' = IF got /\ slot \in Caching
                        THEN tokens \cup {<<slot, credentials[1]>>} ELSE tokens
  BY <1>1, <1>3 DEF TokensAreGenuine, Connecting!Credentials
<1>4. QED
  BY <1>2, <1>3 DEF Connecting!AccessToken

LEMMA ConnectionBeginKeepsInv ==
  ASSUME Connecting!ConnectionAssumption, ConnectionInv, NEW s \in Sessions,
         \/ \E slot \in Slots : Connecting!BeginCreate(s, slot)
         \/ \E c \in ConnectionIds, op \in Connecting!Changes : Connecting!Begin(s, op, c)
  PROVE  ConnectionInv'
<1>1. ASSUME UNCHANGED tokens
      PROVE  tokens' \subseteq Caching \X ConsumerKeys /\ TokensAreGenuine'
  BY <1>1 DEF ConnectionInv, Connecting!ConnectionsTypeOK, TokensAreGenuine
<1>2. ASSUME NEW slot \in Slots, Connecting!BeginCreate(s, slot) PROVE ConnectionInv'
  <2> DEFINE t == [op |-> "create", id |-> None, loaded |-> None, slot |-> slot, valid |-> FALSE]
  <2>1. Connecting!Take(s, t) /\ UNCHANGED tokens
    BY <1>2 DEF Connecting!BeginCreate
  <2>2. t \in Connecting!Tasks /\ t.op = "create" /\ t.slot = slot
    BY DEF Connecting!Tasks
  <2> HIDE DEF t
  <2>3. ConnectionKnown(t)
    BY <2>2 DEF ConnectionKnown
  <2>4. QED
    BY <1>1, <2>1, <2>3, ConnectionTakeKeepsInv
<1>3. ASSUME NEW c \in ConnectionIds, NEW op \in Connecting!Changes, Connecting!Begin(s, op, c)
      PROVE  ConnectionInv'
  <2>1. PICK loaded \in Connecting!ConnectionRows \cup {None} :
          /\ Connecting!Take(s,
               [op |-> op, id |-> c, slot |-> None, valid |-> FALSE, loaded |-> loaded])
          /\ op = "replace" => loaded = row[c]
    BY <1>3 DEF Connecting!Begin, ConnectionInv, Connecting!ConnectionsTypeOK,
                Connecting!Admissible, Connecting!Exists
  <2>2. Connecting!Exists(c) /\ UNCHANGED tokens /\ row[c] # None
          /\ row[c] \in Connecting!ConnectionRows
    BY <1>3, ConnectionRowOf DEF Connecting!Begin, Connecting!Admissible, Connecting!Exists
  <2> DEFINE t == [op |-> op, id |-> c, slot |-> None, valid |-> FALSE, loaded |-> loaded]
  <2>3. t \in Connecting!Tasks /\ t.op = op /\ t.id = c /\ t.loaded = loaded
    BY DEF Connecting!Tasks
  <2>4. op # "create" /\ op # "validate"
    BY DEF Connecting!Changes
  <2>5. Connecting!Take(s, t)
    BY <2>1
  <2> HIDE DEF t
  <2>6. ConnectionKnown(t)
    BY <2>1, <2>2, <2>3, <2>4 DEF ConnectionKnown
  <2>7. QED
    BY <1>1, <2>2, <2>5, <2>6, ConnectionTakeKeepsInv
<1>4. QED
  BY <1>2, <1>3

LEMMA ConnectionBeginValidateKeepsInv ==
  ASSUME Connecting!ConnectionAssumption, ConnectionInv, NEW s \in Sessions,
         NEW c \in ConnectionIds, Connecting!BeginValidate(s, c)
  PROVE  ConnectionInv'
<1>1. /\ Connecting!Exists(c) /\ row[c].status # "ACTIVE"
      /\ row[c] \in Connecting!ConnectionRows /\ row[c] # None
  BY ConnectionRowOf DEF Connecting!BeginValidate, Connecting!Admissible, Connecting!Exists
<1>2. PICK r \in Connecting!ConnectionRows : r = row[c]
  BY <1>1
<1>3. PICK valid \in BOOLEAN :
        /\ Connecting!Take(s,
             [op |-> "validate", id |-> c, slot |-> None, valid |-> valid, loaded |-> r])
        /\ IF Connecting!Opens(r.seal, r.version)
           THEN Connecting!AccessToken(r.slot, r.seal.credentials, valid)
           ELSE ~ valid /\ UNCHANGED tokens
  BY <1>2 DEF Connecting!BeginValidate
<1>4. r.slot \in Slots /\ r.seal.credentials \in Connecting!Credentials
  BY DEF Connecting!ConnectionRows, Connecting!Seals
<1>5. /\ tokens' \subseteq Caching \X ConsumerKeys /\ TokensAreGenuine'
      /\ valid => ConnectionAccepted(r)
  <2>1. CASE Connecting!Opens(r.seal, r.version)
    BY <1>3, <1>4, <2>1, ConnectionTokenShows DEF ConnectionAccepted
  <2>2. CASE ~ Connecting!Opens(r.seal, r.version)
    BY <1>3, <2>2 DEF ConnectionInv, Connecting!ConnectionsTypeOK, TokensAreGenuine
  <2>3. QED
    BY <2>1, <2>2
<1> DEFINE t == [op |-> "validate", id |-> c, slot |-> None, valid |-> valid, loaded |-> r]
<1>6. t \in Connecting!Tasks
  BY DEF Connecting!Tasks
<1>7. t.op = "validate" /\ t.id = c /\ t.loaded = r
  OBVIOUS
<1>8. t.valid => ConnectionAccepted(t.loaded)
  BY <1>5
<1>9. Connecting!Take(s, t)
  BY <1>3
<1> HIDE DEF t
<1>10. ConnectionKnown(t)
  BY <1>1, <1>2, <1>6, <1>7, <1>8 DEF ConnectionKnown
<1>11. QED
  BY <1>5, <1>9, <1>10, ConnectionTakeKeepsInv

LEMMA ConnectionNoSessionKeepsInv ==
  ASSUME Connecting!ConnectionAssumption, ConnectionInv,
         \/ \E c \in ConnectionIds : Connecting!Use(c) \/ Connecting!CallProvider(c)
         \/ Connecting!ForgetToken \/ Connecting!RotateKey \/ \E k \in 1..MaxKey :
              Connecting!DropKey(k)
         \/ UNCHANGED Connecting!vars
  PROVE  ConnectionInv'
<1>1. /\ history \subseteq ConnectionIds /\ (\A c \in history : Connecting!Exists(c))
      /\ key \in [current : 1..MaxKey, kept : SUBSET (1..MaxKey)]
      /\ tokens \subseteq Caching \X ConsumerKeys /\ TokensAreGenuine
  BY DEF ConnectionInv, Connecting!ConnectionsTypeOK, Connecting!ConnectionRecordsAreKept
<1>2. ASSUME NEW c \in ConnectionIds, Connecting!Use(c) PROVE ConnectionInv'
  BY <1>1, <1>2, ConnectionOthersKeepInv DEF Connecting!Use, TokensAreGenuine
<1>3. ASSUME NEW c \in ConnectionIds, Connecting!CallProvider(c) PROVE ConnectionInv'
  <2>1. row[c].slot \in Slots /\ row[c].seal.credentials \in Connecting!Credentials
    BY <1>3, ConnectionRowOf DEF Connecting!CallProvider, Connecting!ConnectionRows,
                                 Connecting!Seals
  <2>2. tokens' \subseteq Caching \X ConsumerKeys /\ TokensAreGenuine'
    BY <1>3, <2>1, ConnectionTokenShows DEF Connecting!CallProvider
  <2>3. QED
    BY <1>1, <1>3, <2>2, ConnectionOthersKeepInv DEF Connecting!CallProvider
<1>4. CASE Connecting!ForgetToken
  BY <1>1, <1>4, ConnectionOthersKeepInv DEF Connecting!ForgetToken, TokensAreGenuine
<1>5. CASE Connecting!RotateKey
  <2>1. key' \in [current : 1..MaxKey, kept : SUBSET (1..MaxKey)]
    BY <1>1, <1>5 DEF Connecting!RotateKey, Connecting!ConnectionAssumption
  <2>2. QED
    BY <1>1, <1>5, <2>1, ConnectionOthersKeepInv DEF Connecting!RotateKey,
                                                     TokensAreGenuine
<1>6. ASSUME NEW k \in 1..MaxKey, Connecting!DropKey(k) PROVE ConnectionInv'
  <2>1. key' \in [current : 1..MaxKey, kept : SUBSET (1..MaxKey)]
    BY <1>1, <1>6 DEF Connecting!DropKey
  <2>2. QED
    BY <1>1, <1>6, <2>1, ConnectionOthersKeepInv DEF Connecting!DropKey,
                                                     TokensAreGenuine
<1>7. CASE UNCHANGED Connecting!vars
  BY <1>1, <1>7, ConnectionOthersKeepInv DEF Connecting!vars, Connecting!Stored,
                                             TokensAreGenuine
<1>8. QED
  BY <1>2, <1>3, <1>4, <1>5, <1>6, <1>7

(* An operation that writes row c: the others that hold it know it, or it  *)
(* is noted that they overlap.                                             *)
LEMMA ConnectionCommitKeepsInv ==
  ASSUME Connecting!ConnectionAssumption, ConnectionInv, NEW s \in Sessions,
         NEW c \in ConnectionIds,
         NEW r \in Connecting!ConnectionRows \cup {Gone},
         row[c] # Gone, row' = [row EXCEPT ![c] = r], Connecting!Finish(s),
         UNCHANGED Connecting!Others,
         passed' \in [ConnectionIds -> Connecting!Seals \cup {None}],
         audited' \in [ConnectionIds -> SUBSET Connecting!Statuses],
         \A d \in ConnectionIds \ {c} : passed'[d] = passed[d] /\ audited'[d] = audited[d],
         connectionOverlap' = connectionOverlap
           \/ connectionOverlap' = connectionOverlap \cup {c},
         r = Gone => c \notin history,
         r # Gone => /\ r.seal.version = r.version /\ r.status \in audited'[c]
                     /\ Connecting!Exists(c) => r.slot = row[c].slot,
         r # Gone /\ r.status = "ACTIVE" /\ c \notin connectionOverlap' => passed'[c] = r.seal
           /\ ConnectionAccepted(r),
         \/ row[c] = None \/ c \in connectionOverlap' \/ r = Gone
         \/ /\ \A u \in Sessions \ {s} : Connecting!Holds(u, c) =>
                 connectionTask[u].op # "validate"
            /\ r.status = "ACTIVE" =>
                 row[c].status = "ACTIVE" \/ \A u \in Sessions \ {s} : ~ Connecting!Holds(u, c)
  PROVE  ConnectionInv'
<1>1. /\ connectionPc' = [connectionPc EXCEPT ![s] = "idle"]
      /\ connectionTask' = [connectionTask EXCEPT ![s] = None]
      /\ history' = history /\ key' = key /\ tokens' = tokens
  BY DEF Connecting!Finish, Connecting!Others
<1>2. /\ connectionPc' \in [Sessions -> {"idle", "commit"}]
      /\ connectionTask' \in [Sessions -> Connecting!Tasks \cup {None}]
      /\ connectionPc'[s] = "idle"
      /\ \A u \in Sessions \ {s} : connectionPc'[u] = connectionPc[u]
           /\ connectionTask'[u] = connectionTask[u]
  BY <1>1 DEF ConnectionInv, Connecting!ConnectionsTypeOK
<1>3. /\ row' \in [ConnectionIds -> Connecting!ConnectionRows \cup {None, Gone}]
      /\ row'[c] = r /\ \A d \in ConnectionIds \ {c} : row'[d] = row[d]
  BY DEF ConnectionInv, Connecting!ConnectionsTypeOK
<1>4. /\ connectionOverlap' \subseteq ConnectionIds
      /\ connectionOverlap \subseteq connectionOverlap'
      /\ \A d \in ConnectionIds \ {c} : d \in connectionOverlap' <=> d \in connectionOverlap
  BY DEF ConnectionInv, Connecting!ConnectionsTypeOK
<1>5. Connecting!ConnectionsTypeOK'
  BY <1>1, <1>2, <1>3, <1>4 DEF ConnectionInv, Connecting!ConnectionsTypeOK
<1>6. None \notin Connecting!ConnectionRows /\ Gone \notin Connecting!ConnectionRows
        /\ None # Gone
  BY DEF Connecting!ConnectionAssumption
<1>7. /\ Connecting!Exists(c)' <=> r # Gone
      /\ r # Gone => r \in Connecting!ConnectionRows
      /\ \A d \in ConnectionIds \ {c} : Connecting!Exists(d)' <=> Connecting!Exists(d)
  BY <1>3, <1>6 DEF Connecting!Exists
<1>8. TokensAreGenuine'
  BY <1>1 DEF ConnectionInv, TokensAreGenuine
<1>9. HeldAreKnown'
  <2> SUFFICES ASSUME NEW u \in Sessions, connectionPc'[u] = "commit"
               PROVE  ConnectionKnown(connectionTask[u])'
                        /\ connectionTask'[u] = connectionTask[u]
    BY DEF HeldAreKnown
  <2>1. u # s /\ connectionPc[u] = "commit" /\ connectionTask'[u] = connectionTask[u]
          /\ ConnectionKnown(connectionTask[u])
    BY <1>2 DEF ConnectionInv, HeldAreKnown
  <2>2. PICK t \in Connecting!Tasks : t = connectionTask[u]
    BY <2>1 DEF ConnectionKnown
  <2>3. ConnectionKnown(t)
    BY <2>1, <2>2
  <2>4. CASE t.op = "create"
    <3>1. ConnectionKnown(t)'
      BY <2>3, <2>4 DEF ConnectionKnown
    <3>2. QED
      BY <2>1, <2>2, <3>1
  <2>5. CASE t.op # "create" /\ t.id # c
    <3>1. PICK d \in ConnectionIds \ {c} : d = t.id
      BY <2>3, <2>5 DEF ConnectionKnown
    <3>2. row'[d] = row[d] /\ (Connecting!Exists(d)' <=> Connecting!Exists(d))
            /\ (d \in connectionOverlap' <=> d \in connectionOverlap)
      BY <1>3, <1>4, <1>7
    <3>3. ConnectionKnown(t)'
      BY <2>3, <2>5, <3>1, <3>2 DEF ConnectionKnown, ConnectionAccepted
    <3>4. QED
      BY <2>1, <2>2, <3>3
  <2>6. CASE t.op # "create" /\ t.id = c
    <3>1. row[c] # None /\ Connecting!Exists(c) /\ row'[c] # None /\ Connecting!Holds(u, c)
      BY <1>3, <1>6, <2>1, <2>2, <2>3, <2>6 DEF ConnectionKnown, Connecting!Exists,
                                                Connecting!Holds
    <3>2. t.op \in {"validate", "replace"} =>
            t.loaded \in Connecting!ConnectionRows /\ (r # Gone => r.slot = t.loaded.slot)
      BY <2>3, <2>6, <3>1 DEF ConnectionKnown
    <3>3. t.op = "validate" => t.loaded.status # "ACTIVE"
            /\ (t.valid => ConnectionAccepted(t.loaded))
      BY <2>3 DEF ConnectionKnown
    <3>4. t.op = "validate" /\ r # Gone => c \in connectionOverlap'
      BY <2>1, <2>2, <3>1
    <3>5. t.op = "replace" /\ t.loaded.status = "PENDING_VALIDATION" /\ r # Gone
            /\ c \notin connectionOverlap'
            => r.status # "ACTIVE"
      <4>1. t.op = "replace" /\ t.loaded.status = "PENDING_VALIDATION"
              /\ c \notin connectionOverlap'
              => row[c].status # "ACTIVE"
        BY <1>4, <2>3, <2>6, <3>1 DEF ConnectionKnown
      <4>2. QED
        BY <2>1, <3>1, <4>1
    <3>6. ConnectionKnown(t)'
      BY <1>3, <1>7, <2>6, <3>1, <3>2, <3>3, <3>4, <3>5 DEF ConnectionKnown, ConnectionAccepted
    <3>7. QED
      BY <2>1, <2>2, <3>6
  <2>7. QED
    BY <2>4, <2>5, <2>6
<1>10. ActiveIsAccepted'
  <2> SUFFICES ASSUME NEW d \in ConnectionIds, Connecting!Exists(d)', row'[d].status = "ACTIVE",
                      d \notin connectionOverlap'
               PROVE  passed'[d] = row'[d].seal /\ ConnectionAccepted(row'[d])
    BY DEF ActiveIsAccepted, ConnectionAccepted
  <2>1. CASE d = c
    BY <1>3, <1>7, <2>1
  <2>2. CASE d # c
    BY <1>3, <1>4, <1>7, <2>2 DEF ConnectionInv, ActiveIsAccepted
  <2>3. QED
    BY <2>1, <2>2
<1>11. SealsFit'
  BY <1>3, <1>7 DEF ConnectionInv, SealsFit
<1>12. Connecting!ConnectionRecordsAreKept'
  BY <1>1, <1>3, <1>7 DEF ConnectionInv, Connecting!ConnectionsTypeOK,
                          Connecting!ConnectionRecordsAreKept
<1>13. QED
  BY <1>5, <1>8, <1>9, <1>10, <1>11, <1>12 DEF ConnectionInv

LEMMA ConnectionCreateKeepsInv ==
  ASSUME Connecting!ConnectionAssumption, ConnectionInv, NEW s \in Sessions,
         NEW credentials \in Connecting!Credentials,
         Connecting!Create(s, credentials)
  PROVE  ConnectionInv'
<1>1. CASE Connecting!Refuse(s)
  BY <1>1, ConnectionRefuseKeepsInv
<1>2. CASE ~ Connecting!Refuse(s)
  <2>1. PICK slot \in Slots : slot = connectionTask[s].slot
    BY DEF Connecting!Create, ConnectionInv, HeldAreKnown, ConnectionKnown
  <2>2. PICK c \in ConnectionIds :
          /\ row[c] = None
          /\ row' = [row EXCEPT ![c] = [slot |-> slot, status |-> "PENDING_VALIDATION",
                                        version |-> 1, seal |-> Connecting!Seal(1, credentials)]]
          /\ audited' = [audited EXCEPT ![c] = {"PENDING_VALIDATION"}]
          /\ Connecting!Finish(s) /\ UNCHANGED <<Connecting!Others, passed, connectionOverlap>>
    BY <1>2, <2>1 DEF Connecting!Create
  <2>3. key.current \in 1..MaxKey /\ 1 \in 1..MaxVersion
    BY DEF ConnectionInv, Connecting!ConnectionsTypeOK, Connecting!ConnectionAssumption
  <2>4. Connecting!Seal(1, credentials) \in Connecting!Seals
          /\ Connecting!Seal(1, credentials).version = 1
    BY <2>3 DEF Connecting!Seal, Connecting!Seals
  <2>5. PICK r \in Connecting!ConnectionRows :
               r = [slot |-> slot, status |-> "PENDING_VALIDATION",
                                         version |-> 1, seal |-> Connecting!Seal(1, credentials)]
    BY <2>3, <2>4 DEF Connecting!ConnectionRows, Connecting!Statuses
  <2>6. r.seal.version = r.version /\ r.status = "PENDING_VALIDATION" /\ r # Gone
    BY <2>4, <2>5 DEF Connecting!ConnectionAssumption
  <2>7. /\ audited' \in [ConnectionIds -> SUBSET Connecting!Statuses]
        /\ audited'[c] = {"PENDING_VALIDATION"}
        /\ \A d \in ConnectionIds \ {c} : audited'[d] = audited[d]
    BY <2>2 DEF ConnectionInv, Connecting!ConnectionsTypeOK, Connecting!Statuses
  <2>8. passed' \in [ConnectionIds -> Connecting!Seals \cup {None}] /\ row[c] # Gone
          /\ ~ Connecting!Exists(c)
    BY <2>2 DEF ConnectionInv, Connecting!ConnectionsTypeOK, Connecting!ConnectionAssumption,
                Connecting!Exists
  <2>9. row' = [row EXCEPT ![c] = r]
    BY <2>2, <2>5
  <2>10. QED
    BY <2>2, <2>6, <2>7, <2>8, <2>9, ConnectionCommitKeepsInv
<1>3. QED
  BY <1>1, <1>2

(* What a session that holds a connection knows of it.                     *)
LEMMA ConnectionHolding ==
  ASSUME Connecting!ConnectionAssumption, ConnectionInv, NEW s \in Sessions,
         connectionPc[s] = "commit", connectionTask[s].op # "create",
         Connecting!Exists(connectionTask[s].id)
  PROVE  \E t \in Connecting!Tasks, c \in ConnectionIds, old \in Connecting!ConnectionRows :
           /\ t = connectionTask[s] /\ c = t.id /\ old = row[c] /\ row[c] # Gone /\ row[c] # None
           /\ ConnectionKnown(t) /\ old.seal.version = old.version /\ old.status \in audited[c]
<1>1. ConnectionKnown(connectionTask[s])
  BY DEF ConnectionInv, HeldAreKnown
<1>2. connectionTask[s] \in Connecting!Tasks /\ connectionTask[s].id \in ConnectionIds
  BY <1>1 DEF ConnectionKnown
<1>3. row[connectionTask[s].id] \in Connecting!ConnectionRows
        /\ row[connectionTask[s].id] \notin {None, Gone}
  BY <1>2, ConnectionRowOf DEF Connecting!Exists
<1>4. /\ row[connectionTask[s].id].seal.version = row[connectionTask[s].id].version
      /\ row[connectionTask[s].id].status \in audited[connectionTask[s].id]
  BY <1>2 DEF ConnectionInv, SealsFit, Connecting!ConnectionRecordsAreKept
<1>5. QED
  BY <1>1, <1>2, <1>3, <1>4

LEMMA ConnectionAuditEffect ==
  ASSUME ConnectionInv, NEW s \in Sessions, NEW c \in ConnectionIds, c = connectionTask[s].id,
         NEW status \in Connecting!Statuses,
         Connecting!Audit(s, status)
  PROVE  /\ audited' \in [ConnectionIds -> SUBSET Connecting!Statuses]
         /\ audited'[c] = audited[c] \cup {status}
         /\ \A d \in ConnectionIds \ {c} : audited'[d] = audited[d]
  BY DEF Connecting!Audit, ConnectionInv, Connecting!ConnectionsTypeOK

LEMMA ConnectionOverlapEffect ==
  ASSUME NEW s \in Sessions, NEW c \in ConnectionIds, c = connectionTask[s].id,
         Connecting!NoteOverlap(s)
  PROVE  /\ connectionOverlap' = connectionOverlap
              \/ connectionOverlap' = connectionOverlap \cup {c}
         /\ c \notin connectionOverlap' => \A u \in Sessions \ {s} :
              Connecting!Holds(u, c) =>
                "validate" \notin {connectionTask[s].op, connectionTask[u].op}
  BY DEF Connecting!NoteOverlap

LEMMA ConnectionReplaceKeepsInv ==
  ASSUME Connecting!ConnectionAssumption, ConnectionInv, NEW s \in Sessions,
         NEW credentials \in Connecting!Credentials,
         Connecting!Replace(s, credentials)
  PROVE  ConnectionInv'
<1>1. PICK t \in Connecting!Tasks, c \in ConnectionIds, old \in Connecting!ConnectionRows :
           /\ t = connectionTask[s] /\ c = t.id /\ old = row[c] /\ row[c] # Gone /\ row[c] # None
           /\ ConnectionKnown(t) /\ old.seal.version = old.version /\ old.status \in audited[c]
  BY ConnectionHolding DEF Connecting!Replace
<1>2. t.op = "replace" /\ t.loaded \in Connecting!ConnectionRows
  BY <1>1 DEF Connecting!Replace, ConnectionKnown
<1>3. PICK v \in 1..MaxVersion : v = t.loaded.version + 1
  BY <1>1, <1>2 DEF Connecting!Replace, Connecting!ConnectionRows
<1>4. PICK status \in Connecting!Statuses : status = Connecting!AfterReplace(s)
  BY <1>1 DEF Connecting!AfterReplace, Connecting!Written, Connecting!Statuses,
              Connecting!ConnectionRows
<1>5. Connecting!Seal(v, credentials) \in Connecting!Seals
        /\ Connecting!Seal(v, credentials).version = v
  <2>1. key.current \in 1..MaxKey
    BY DEF ConnectionInv, Connecting!ConnectionsTypeOK
  <2>2. QED
    BY <2>1 DEF Connecting!Seal, Connecting!Seals
<1>6. PICK r \in Connecting!ConnectionRows :
             r = [old EXCEPT !.seal = Connecting!Seal(v, credentials), !.version = v,
               !.status = status]
  BY <1>5 DEF Connecting!ConnectionRows
<1>7. r.slot = old.slot /\ r.seal.version = r.version /\ r.status = status /\ r # Gone
  BY <1>5, <1>6 DEF Connecting!ConnectionRows, Connecting!ConnectionAssumption
<1>8. row' = [row EXCEPT ![c] = r]
  <2>1. row' = [row EXCEPT ![c].seal = Connecting!Seal(v, credentials), ![c].version = v,
          ![c].status = status]
    BY <1>1, <1>3, <1>4 DEF Connecting!Replace, Connecting!NextVersion
  <2>2. row \in [ConnectionIds -> Connecting!ConnectionRows \cup {None, Gone}]
    BY DEF ConnectionInv, Connecting!ConnectionsTypeOK
  <2>3. QED
    BY <1>1, <1>6, <2>1, <2>2
<1>9. /\ Connecting!Audit(s, "PENDING_VALIDATION") /\ Connecting!NoteOverlap(s)
      /\ Connecting!Finish(s)
      /\ UNCHANGED Connecting!Others /\ UNCHANGED passed
  BY DEF Connecting!Replace
<1>10. /\ audited' \in [ConnectionIds -> SUBSET Connecting!Statuses]
       /\ audited'[c] = audited[c] \cup {"PENDING_VALIDATION"}
       /\ \A d \in ConnectionIds \ {c} : audited'[d] = audited[d]
  BY <1>1, <1>9, ConnectionAuditEffect DEF Connecting!Statuses
<1>11. /\ connectionOverlap' = connectionOverlap
            \/ connectionOverlap' = connectionOverlap \cup {c}
       /\ c \notin connectionOverlap' => \A u \in Sessions \ {s} :
            Connecting!Holds(u, c) =>
              "validate" \notin {connectionTask[s].op, connectionTask[u].op}
  BY <1>1, <1>9, ConnectionOverlapEffect
<1>12. status = old.status \/ status = "PENDING_VALIDATION"
  BY <1>1, <1>4 DEF Connecting!AfterReplace, Connecting!Written
<1>13. c \notin connectionOverlap' => status # "ACTIVE"
  <2>1. CASE t.loaded.status = "PENDING_VALIDATION"
    BY <1>1, <1>2, <1>11, <1>12, <2>1 DEF ConnectionKnown, Connecting!Exists
  <2>2. CASE t.loaded.status # "PENDING_VALIDATION"
    BY <1>1, <1>4, <2>2 DEF Connecting!AfterReplace, Connecting!Written
  <2>3. QED
    BY <2>1, <2>2
<1>14. passed' \in [ConnectionIds -> Connecting!Seals \cup {None}]
  BY <1>9 DEF ConnectionInv, Connecting!ConnectionsTypeOK
<1>15. r.status \in audited'[c] /\ (Connecting!Exists(c) => r.slot = row[c].slot)
  BY <1>1, <1>7, <1>10, <1>12
<1>16. QED
  BY <1>1, <1>7, <1>8, <1>9, <1>10, <1>11, <1>13, <1>14, <1>15, ConnectionCommitKeepsInv

LEMMA ConnectionDisableKeepsInv ==
  ASSUME Connecting!ConnectionAssumption, ConnectionInv, NEW s \in Sessions, Connecting!Disable(s)
  PROVE  ConnectionInv'
<1>1. PICK t \in Connecting!Tasks, c \in ConnectionIds, old \in Connecting!ConnectionRows :
           /\ t = connectionTask[s] /\ c = t.id /\ old = row[c] /\ row[c] # Gone /\ row[c] # None
           /\ ConnectionKnown(t) /\ old.seal.version = old.version /\ old.status \in audited[c]
  BY ConnectionHolding DEF Connecting!Disable
<1>2. PICK r \in Connecting!ConnectionRows : r = [old EXCEPT !.status = "DISABLED"]
  BY DEF Connecting!ConnectionRows, Connecting!Statuses
<1>3. r.slot = old.slot /\ r.seal.version = r.version /\ r.status = "DISABLED" /\ r # Gone
  BY <1>1, <1>2 DEF Connecting!ConnectionRows, Connecting!ConnectionAssumption
<1>4. row' = [row EXCEPT ![c] = r]
  <2>1. row' = [row EXCEPT ![c].status = "DISABLED"]
    BY <1>1 DEF Connecting!Disable
  <2>2. QED
    BY <1>1, <1>2, <2>1
<1>5. /\ Connecting!Audit(s, "DISABLED") /\ Connecting!NoteOverlap(s) /\ Connecting!Finish(s)
      /\ UNCHANGED Connecting!Others /\ UNCHANGED passed
  BY DEF Connecting!Disable
<1>6. /\ audited' \in [ConnectionIds -> SUBSET Connecting!Statuses]
      /\ audited'[c] = audited[c] \cup {"DISABLED"}
      /\ \A d \in ConnectionIds \ {c} : audited'[d] = audited[d]
  BY <1>1, <1>5, ConnectionAuditEffect DEF Connecting!Statuses
<1>7. /\ connectionOverlap' = connectionOverlap \/ connectionOverlap' = connectionOverlap \cup {c}
      /\ c \notin connectionOverlap' => \A u \in Sessions \ {s} :
           Connecting!Holds(u, c) =>
             "validate" \notin {connectionTask[s].op, connectionTask[u].op}
  BY <1>1, <1>5, ConnectionOverlapEffect
<1>8. passed' \in [ConnectionIds -> Connecting!Seals \cup {None}]
  BY <1>5 DEF ConnectionInv, Connecting!ConnectionsTypeOK
<1>9. r.status \in audited'[c] /\ (Connecting!Exists(c) => r.slot = row[c].slot)
  BY <1>1, <1>3, <1>6
<1>10. QED
  BY <1>1, <1>3, <1>4, <1>5, <1>6, <1>7, <1>8, <1>9, ConnectionCommitKeepsInv

LEMMA ConnectionValidateKeepsInv ==
  ASSUME Connecting!ConnectionAssumption, ConnectionInv, NEW s \in Sessions,
         Connecting!Validate(s)
  PROVE  ConnectionInv'
<1>1. PICK t \in Connecting!Tasks, c \in ConnectionIds, old \in Connecting!ConnectionRows :
           /\ t = connectionTask[s] /\ c = t.id /\ old = row[c] /\ row[c] # Gone /\ row[c] # None
           /\ ConnectionKnown(t) /\ old.seal.version = old.version /\ old.status \in audited[c]
  BY ConnectionHolding DEF Connecting!Validate
<1>2. /\ t.op = "validate" /\ t.loaded \in Connecting!ConnectionRows /\ t.loaded.status # "ACTIVE"
      /\ t.valid => ConnectionAccepted(t.loaded)
      /\ c \notin connectionOverlap => old.seal = t.loaded.seal /\ old.status = t.loaded.status
      /\ old.slot = t.loaded.slot
  BY <1>1 DEF Connecting!Validate, ConnectionKnown, Connecting!Exists
<1>3. PICK outcome \in Connecting!Statuses : outcome = Connecting!Outcome(s)
  BY DEF Connecting!Outcome, Connecting!Statuses
<1>4. PICK status \in Connecting!Statuses : status = Connecting!Written(s, outcome)
  BY <1>1 DEF Connecting!Written, Connecting!Statuses, Connecting!ConnectionRows
<1>5. PICK r \in Connecting!ConnectionRows : r = [old EXCEPT !.status = status]
  BY DEF Connecting!ConnectionRows
<1>6. /\ r.slot = old.slot /\ r.seal = old.seal /\ r.seal.version = r.version
      /\ r.status = status /\ r # Gone
  BY <1>1, <1>5 DEF Connecting!ConnectionRows, Connecting!ConnectionAssumption
<1>7. row' = [row EXCEPT ![c] = r]
  <2>1. row' = [row EXCEPT ![c].status = status]
    BY <1>1, <1>3, <1>4 DEF Connecting!Validate
  <2>2. QED
    BY <1>1, <1>5, <2>1
<1>8. /\ Connecting!Audit(s, outcome) /\ Connecting!NoteOverlap(s) /\ Connecting!Finish(s)
      /\ UNCHANGED Connecting!Others
      /\ passed' = IF t.valid THEN [passed EXCEPT ![c] = t.loaded.seal] ELSE passed
  BY <1>1, <1>3 DEF Connecting!Validate
<1>9. /\ audited' \in [ConnectionIds -> SUBSET Connecting!Statuses]
      /\ audited'[c] = audited[c] \cup {outcome}
      /\ \A d \in ConnectionIds \ {c} : audited'[d] = audited[d]
  BY <1>1, <1>8, ConnectionAuditEffect
<1>10. /\ connectionOverlap' = connectionOverlap
            \/ connectionOverlap' = connectionOverlap \cup {c}
       /\ c \notin connectionOverlap' => \A u \in Sessions \ {s} :
            Connecting!Holds(u, c) =>
              "validate" \notin {connectionTask[s].op, connectionTask[u].op}
  BY <1>1, <1>8, ConnectionOverlapEffect
<1>11. status = old.status \/ status = outcome
  BY <1>1, <1>4 DEF Connecting!Written
<1>12. /\ passed' \in [ConnectionIds -> Connecting!Seals \cup {None}]
       /\ \A d \in ConnectionIds \ {c} : passed'[d] = passed[d]
       /\ t.valid => passed'[c] = t.loaded.seal
  <2>1. passed \in [ConnectionIds -> Connecting!Seals \cup {None}]
          /\ t.loaded.seal \in Connecting!Seals
    BY <1>2 DEF ConnectionInv, Connecting!ConnectionsTypeOK, Connecting!ConnectionRows
  <2>2. QED
    BY <1>8, <2>1
<1>13. c \notin connectionOverlap' /\ status = "ACTIVE" => passed'[c] = r.seal
         /\ ConnectionAccepted(r)
  <2> SUFFICES ASSUME c \notin connectionOverlap', status = "ACTIVE"
               PROVE  passed'[c] = r.seal /\ ConnectionAccepted(r)
    OBVIOUS
  <2>1. c \notin connectionOverlap /\ old.seal = t.loaded.seal /\ old.status = t.loaded.status
    BY <1>2, <1>10
  <2>2. outcome = "ACTIVE"
    BY <1>2, <1>11, <2>1
  <2>3. t.valid
    BY <1>1, <1>3, <2>2 DEF Connecting!Outcome
  <2>4. QED
    BY <1>2, <1>6, <1>12, <2>1, <2>3 DEF ConnectionAccepted
<1>14. r.status \in audited'[c] /\ (Connecting!Exists(c) => r.slot = row[c].slot)
  BY <1>1, <1>6, <1>9, <1>11
<1>15. c \notin connectionOverlap' => \A u \in Sessions \ {s} : ~ Connecting!Holds(u, c)
  BY <1>1, <1>2, <1>10
<1>16. \/ c \in connectionOverlap'
       \/ /\ \A u \in Sessions \ {s} : Connecting!Holds(u, c) => connectionTask[u].op # "validate"
          /\ r.status = "ACTIVE" =>
               row[c].status = "ACTIVE" \/ \A u \in Sessions \ {s} : ~ Connecting!Holds(u, c)
  BY <1>15
<1>17. row[c] # Gone /\ Connecting!Finish(s) /\ UNCHANGED Connecting!Others
  BY <1>1, <1>8
<1>18. r # Gone /\ r.seal.version = r.version
  BY <1>6
<1>19. r.status = "ACTIVE" /\ c \notin connectionOverlap' => passed'[c] = r.seal
         /\ ConnectionAccepted(r)
  BY <1>6, <1>13
<1>20. /\ audited' \in [ConnectionIds -> SUBSET Connecting!Statuses]
       /\ \A d \in ConnectionIds \ {c} : passed'[d] = passed[d] /\ audited'[d] = audited[d]
       /\ passed' \in [ConnectionIds -> Connecting!Seals \cup {None}]
       /\ connectionOverlap' = connectionOverlap
            \/ connectionOverlap' = connectionOverlap \cup {c}
  BY <1>9, <1>10, <1>12
<1>21. QED
  BY <1>7, <1>14, <1>16, <1>17, <1>18, <1>19, <1>20, ConnectionCommitKeepsInv

LEMMA ConnectionDeleteKeepsInv ==
  ASSUME Connecting!ConnectionAssumption, ConnectionInv, NEW s \in Sessions, Connecting!Delete(s)
  PROVE  ConnectionInv'
<1>1. PICK c \in ConnectionIds : c = connectionTask[s].id /\ row[c] # Gone /\ c \notin history
  BY ConnectionHolding DEF Connecting!Delete, Connecting!Deletable
<1>2. /\ row' = [row EXCEPT ![c] = Gone] /\ audited' = [audited EXCEPT ![c] = {}]
      /\ Connecting!Finish(s) /\ UNCHANGED Connecting!Others
      /\ UNCHANGED <<passed, connectionOverlap>>
  BY <1>1 DEF Connecting!Delete
<1>3. /\ audited' \in [ConnectionIds -> SUBSET Connecting!Statuses]
      /\ \A d \in ConnectionIds \ {c} : audited'[d] = audited[d]
      /\ passed' \in [ConnectionIds -> Connecting!Seals \cup {None}]
  BY <1>2 DEF ConnectionInv, Connecting!ConnectionsTypeOK
<1>4. QED
  BY <1>1, <1>2, <1>3, ConnectionCommitKeepsInv

LEMMA ConnectionStepKeepsInv ==
  ASSUME Connecting!ConnectionAssumption, ConnectionInv, [Connecting!Next]_(Connecting!vars)
  PROVE  ConnectionInv'
<1>1. ASSUME NEW s \in Sessions,
             \/ \E slot \in Slots : Connecting!BeginCreate(s, slot)
             \/ \E c \in ConnectionIds : Connecting!BeginValidate(s, c)
                  \/ \E op \in Connecting!Changes : Connecting!Begin(s, op, c)
             \/ \E credentials \in Connecting!Credentials : Connecting!Create(s, credentials)
                  \/ Connecting!Replace(s, credentials)
             \/ Connecting!Validate(s) \/ Connecting!Disable(s) \/ Connecting!Delete(s)
                  \/ Connecting!Abort(s)
      PROVE  ConnectionInv'
  BY <1>1, ConnectionBeginKeepsInv, ConnectionBeginValidateKeepsInv, ConnectionCreateKeepsInv,
     ConnectionReplaceKeepsInv, ConnectionValidateKeepsInv, ConnectionDisableKeepsInv,
     ConnectionDeleteKeepsInv, ConnectionRefuseKeepsInv
     DEF Connecting!Abort
<1>2. QED
  BY <1>1, ConnectionNoSessionKeepsInv DEF Connecting!Next

LEMMA ConnectionInvMeansTested ==
  ASSUME ConnectionInv
  PROVE  Connecting!ConnectionsTypeOK /\ Connecting!ConnectionsAreSound
           /\ Connecting!ActiveIsTested
<1>1. Connecting!SealMatchesVersion
  BY DEF ConnectionInv, SealsFit, Connecting!SealMatchesVersion, Connecting!Opens
<1>2. Connecting!ActiveIsTested
  BY DEF ConnectionInv, ActiveIsAccepted, Connecting!ActiveIsTested,
         ConnectionAccepted
<1>3. QED
  BY <1>1, <1>2 DEF ConnectionInv, Connecting!ConnectionsAreSound

THEOREM ConnectionInvariance ==
  ASSUME Connecting!ConnectionAssumption
  PROVE  Connecting!Spec => []ConnectionInv
<1>1. Connecting!Init => ConnectionInv
  BY ConnectionInitInv
<1>2. ConnectionInv /\ [Connecting!Next]_(Connecting!vars) => ConnectionInv'
  BY ConnectionStepKeepsInv
<1>3. QED
  BY <1>1, <1>2, PTL DEF Connecting!Spec

THEOREM ConnectionSound ==
  ASSUME Connecting!ConnectionAssumption
  PROVE  Connecting!Spec =>
           [](Connecting!ConnectionsTypeOK /\ Connecting!ConnectionsAreSound
             /\ Connecting!ActiveIsTested)
<1>1. ConnectionInv => Connecting!ConnectionsTypeOK /\ Connecting!ConnectionsAreSound
        /\ Connecting!ActiveIsTested
  BY ConnectionInvMeansTested
<1>2. QED
  BY <1>1, ConnectionInvariance, PTL

-----------------------------------------------------------------------------
(* The window that is counted is the last one, and the count is what was   *)
(* granted in it; when none is counted, all of them were over when the     *)
(* last one was pruned.                                                    *)
CountsTell(k) ==
  /\ counts[k] # None => granted[k][counts[k].start] = counts[k].count
  /\ \A w \in Limiter!Times : granted[k][w] > 0 =>
       IF counts[k] = None THEN w + Window <= forgot[k]
       ELSE w = counts[k].start \/ w + Window <= counts[k].start

KeyBudgetIsKept(k) ==
  /\ \A w \in Limiter!Times : granted[k][w] <= MaxRequests
  /\ \A v, w \in Limiter!Times :
       granted[k][v] > 0 /\ granted[k][w] > 0 /\ v < w => w - v >= Window

LimiterInv ==
  /\ Limiter!LimiterTypeOK
  /\ \A k \in Keys \ late : CountsTell(k) /\ KeyBudgetIsKept(k)

LEMMA LimiterInitInv == ASSUME Limiter!LimiterAssumption, Limiter!Init PROVE LimiterInv
<1> USE DEF Limiter!Init
<1>1. Limiter!LimiterTypeOK
  BY DEF Limiter!LimiterAssumption, Limiter!LimiterTypeOK, Limiter!Times, Limiter!NoGrants
<1>2. \A k \in Keys, w \in Limiter!Times : granted[k][w] = 0
  BY DEF Limiter!NoGrants
<1>3. \A k \in Keys : CountsTell(k) /\ KeyBudgetIsKept(k)
  BY <1>2 DEF CountsTell, KeyBudgetIsKept, Limiter!LimiterAssumption
<1>4. QED
  BY <1>1, <1>3 DEF LimiterInv

LEMMA LimiterClockKeepsInv ==
  ASSUME Limiter!LimiterAssumption, LimiterInv,
         Limiter!Tick \/ (\E t \in Sessions : Limiter!ReadClock(t)) \/ UNCHANGED Limiter!vars
  PROVE  LimiterInv'
<1>1. counts' = counts /\ granted' = granted /\ forgot' = forgot /\ late' = late
  BY DEF Limiter!Tick, Limiter!ReadClock, Limiter!vars
<1>2. Limiter!LimiterTypeOK'
  <2>1. CASE Limiter!Tick
    BY <1>1, <2>1 DEF Limiter!Tick, LimiterInv, Limiter!LimiterTypeOK, Limiter!Times,
                      Limiter!LimiterAssumption
  <2>2. ASSUME NEW t \in Sessions, Limiter!ReadClock(t) PROVE Limiter!LimiterTypeOK'
    BY <1>1, <2>2 DEF Limiter!ReadClock, LimiterInv, Limiter!LimiterTypeOK
  <2>3. CASE UNCHANGED Limiter!vars
    BY <2>3 DEF Limiter!vars, LimiterInv, Limiter!LimiterTypeOK
  <2>4. QED
    BY <2>1, <2>2, <2>3
<1>3. \A k \in Keys \ late : CountsTell(k)' /\ KeyBudgetIsKept(k)'
  BY <1>1 DEF LimiterInv, CountsTell, KeyBudgetIsKept
<1>4. QED
  BY <1>1, <1>2, <1>3 DEF LimiterInv

(* The window that a decision charges.                                     *)
LEMMA LimiterCharged ==
  ASSUME Limiter!LimiterAssumption, LimiterInv, NEW k \in Keys, NEW now \in Limiter!Times
  PROVE  /\ Limiter!Current(k, now) \in Limiter!Windows
         /\ ~ Limiter!Expired(Limiter!Current(k, now), now)
         /\ Limiter!Exhausted(Limiter!Current(k, now)) => Limiter!Current(k, now) = counts[k]
<1>1. now \in Nat /\ Window \in Nat /\ Window > 0 /\ MaxRequests \in Nat /\ MaxRequests > 0
  BY DEF Limiter!Times, Limiter!LimiterAssumption
<1>2. CASE counts[k] = None \/ Limiter!Expired(counts[k], now)
  <2>1. Limiter!Current(k, now) = [count |-> 0, start |-> now]
    BY <1>2 DEF Limiter!Current
  <2>2. QED
    BY <1>1, <2>1 DEF Limiter!Windows, Limiter!Expired, Limiter!Exhausted
<1>3. CASE counts[k] # None /\ ~ Limiter!Expired(counts[k], now)
  <2>1. Limiter!Current(k, now) = counts[k]
    BY <1>3 DEF Limiter!Current
  <2>2. QED
    BY <1>3, <2>1 DEF LimiterInv, Limiter!LimiterTypeOK
<1>4. QED
  BY <1>2, <1>3

LEMMA LimiterRefuseKeepsInv ==
  ASSUME Limiter!LimiterAssumption, LimiterInv, NEW t \in Sessions, NEW k \in Keys,
         NEW now \in Limiter!Times, Limiter!Exhausted(Limiter!Current(k, now)),
         counts' = [counts EXCEPT ![k] = Limiter!Current(k, now)],
         read' = [read EXCEPT ![t] = None],
         UNCHANGED <<clock, granted, forgot, late>>
  PROVE  LimiterInv'
<1>1. Limiter!Current(k, now) = counts[k]
  BY LimiterCharged
<1>2. counts' = counts
  BY <1>1 DEF LimiterInv, Limiter!LimiterTypeOK
<1>3. Limiter!LimiterTypeOK'
  BY <1>2 DEF LimiterInv, Limiter!LimiterTypeOK
<1>4. \A j \in Keys \ late : CountsTell(j)' /\ KeyBudgetIsKept(j)'
  BY <1>2 DEF LimiterInv, CountsTell, KeyBudgetIsKept
<1>5. QED
  BY <1>3, <1>4 DEF LimiterInv

LEMMA LimiterGrantKeepsInv ==
  ASSUME Limiter!LimiterAssumption, LimiterInv, NEW t \in Sessions, NEW k \in Keys,
         NEW now \in Limiter!Times,
         NEW w \in Limiter!Windows, w = Limiter!Current(k, now), ~ Limiter!Exhausted(w),
         counts' = Limiter!Pruned([counts EXCEPT ![k] = [w EXCEPT !.count = @ + 1]], now),
         granted' = [granted EXCEPT ![k][w.start] = @ + 1],
         forgot' = [j \in Keys |-> IF counts[j] # None /\ counts'[j] = None THEN now
                                   ELSE forgot[j]],
         late' = IF counts[k] = None /\ now < forgot[k] THEN late \cup {k} ELSE late,
         read' = [read EXCEPT ![t] = None],
         UNCHANGED clock
  PROVE  LimiterInv'
<1>1. /\ now \in Nat /\ Window \in Nat /\ Window > 0 /\ MaxRequests \in Nat
      /\ w.start \in Nat /\ w.start \in Limiter!Times /\ w.count \in Nat /\ w.count < MaxRequests
  BY DEF Limiter!Times, Limiter!Windows, Limiter!Exhausted, Limiter!LimiterAssumption
<1>2. ~ Limiter!Expired(w, now)
  BY LimiterCharged
<1>3. PICK v \in Limiter!Windows : v = [w EXCEPT !.count = @ + 1]
  <2>1. w.count + 1 \in 0..MaxRequests
    BY <1>1
  <2>2. [w EXCEPT !.count = @ + 1] \in Limiter!Windows
    BY <2>1 DEF Limiter!Windows
  <2>3. QED
    BY <2>2
<1>4. v.start = w.start /\ v.count = w.count + 1 /\ v # None /\ ~ Limiter!Expired(v, now)
  BY <1>1, <1>2, <1>3 DEF Limiter!Windows, Limiter!Expired, Limiter!LimiterAssumption
<1>5. /\ counts'[k] = v
      /\ \A j \in Keys \ {k} :
           counts'[j] = IF counts[j] # None /\ Limiter!Expired(counts[j], now) THEN None
                        ELSE counts[j]
      /\ counts' \in [Keys -> Limiter!Windows \cup {None}]
  BY <1>3, <1>4 DEF Limiter!Pruned, LimiterInv, Limiter!LimiterTypeOK
<1>6. /\ \A j \in Keys \ {k} : granted'[j] = granted[j]
      /\ \A x \in Limiter!Times : granted'[k][x] = IF x = w.start THEN granted[k][x] + 1
                                                   ELSE granted[k][x]
      /\ granted' \in [Keys -> [Limiter!Times -> Nat]]
  BY <1>1 DEF LimiterInv, Limiter!LimiterTypeOK
<1>7. forgot' \in [Keys -> Limiter!Times]
  BY DEF LimiterInv, Limiter!LimiterTypeOK
<1>8. Limiter!LimiterTypeOK'
  BY <1>5, <1>6, <1>7 DEF LimiterInv, Limiter!LimiterTypeOK
<1>9. ASSUME NEW j \in Keys \ late', j # k PROVE CountsTell(j)' /\ KeyBudgetIsKept(j)'
  <2>1. j \in Keys \ late /\ granted'[j] = granted[j] /\ CountsTell(j) /\ KeyBudgetIsKept(j)
    BY <1>6, <1>9 DEF LimiterInv
  <2>2. KeyBudgetIsKept(j)'
    BY <2>1 DEF KeyBudgetIsKept
  <2>3. CASE counts'[j] = counts[j]
    <3>1. forgot'[j] = forgot[j]
      BY <2>3
    <3>2. CountsTell(j)' = CountsTell(j)
      BY <2>1, <2>3, <3>1, Zenon DEF CountsTell
    <3>3. QED
      BY <2>1, <2>2, <3>2
  <2>4. CASE counts'[j] = None /\ counts[j] # None /\ Limiter!Expired(counts[j], now)
    <3>1. counts[j].start \in Nat /\ counts[j].start + Window <= now
      <4>1. counts[j] \in Limiter!Windows
        BY <2>4 DEF LimiterInv, Limiter!LimiterTypeOK
      <4>2. counts[j].start \in Nat
        BY <4>1 DEF Limiter!Windows, Limiter!Times
      <4>3. QED
        BY <1>1, <2>4, <4>2 DEF Limiter!Expired
    <3>2. ASSUME NEW x \in Limiter!Times, granted[j][x] > 0 PROVE x + Window <= now
      BY <1>1, <2>1, <2>4, <3>1, <3>2 DEF CountsTell, Limiter!Times
    <3>3. forgot'[j] = now
      BY <2>4
    <3>4. QED
      BY <2>1, <2>2, <2>4, <3>2, <3>3 DEF CountsTell
  <2>5. QED
    BY <1>5, <1>9, <2>2, <2>3, <2>4
<1>10. ASSUME k \notin late' PROVE CountsTell(k)' /\ KeyBudgetIsKept(k)'
  <2>1. /\ k \notin late /\ CountsTell(k) /\ KeyBudgetIsKept(k)
        /\ counts[k] = None => forgot[k] <= now
    BY <1>1, <1>10 DEF LimiterInv, Limiter!LimiterTypeOK, Limiter!Times
  <2>2. \A x \in Limiter!Times : x \in Nat /\ granted[k][x] \in Nat
    <3>1. granted \in [Keys -> [Limiter!Times -> Nat]]
      BY DEF LimiterInv, Limiter!LimiterTypeOK
    <3>2. \A x \in Limiter!Times : x \in Nat
      BY DEF Limiter!Times
    <3>3. QED
      BY <3>1, <3>2
  <2>3. /\ granted[k][w.start] = w.count
        /\ \A x \in Limiter!Times : granted[k][x] > 0 => x = w.start \/ x + Window <= w.start
    <3>1. CASE counts[k] = None
      <4>1. w.count = 0 /\ w.start = now
        BY <2>1, <3>1 DEF Limiter!Current
      <4>2. \A x \in Limiter!Times : granted[k][x] > 0 => x + Window <= now
        BY <1>1, <2>1, <3>1 DEF CountsTell, LimiterInv, Limiter!LimiterTypeOK, Limiter!Times
      <4>3. ~ granted[k][w.start] > 0
        BY <1>1, <4>1, <4>2
      <4>4. granted[k][w.start] = 0
        BY <1>1, <2>2, <4>3
      <4>5. QED
        BY <4>1, <4>2, <4>4
    <3>2. CASE counts[k] # None /\ Limiter!Expired(counts[k], now)
      <4>1. w.count = 0 /\ w.start = now
        BY <2>1, <3>2 DEF Limiter!Current
      <4>2. counts[k].start \in Nat /\ counts[k].start + Window <= now
        BY <1>1, <2>1, <3>2 DEF LimiterInv, Limiter!LimiterTypeOK, Limiter!Windows,
                                Limiter!Times, Limiter!Expired
      <4>3. \A x \in Limiter!Times : granted[k][x] > 0 => x = counts[k].start
              \/ x + Window <= counts[k].start
        BY <2>1, <3>2 DEF CountsTell
      <4>4. \A x \in Limiter!Times : granted[k][x] > 0 => x + Window <= now
        BY <1>1, <2>2, <4>2, <4>3
      <4>5. ~ granted[k][w.start] > 0
        BY <1>1, <4>1, <4>4
      <4>6. granted[k][w.start] = 0
        BY <1>1, <2>2, <4>5
      <4>7. QED
        BY <4>1, <4>4, <4>6
    <3>3. CASE counts[k] # None /\ ~ Limiter!Expired(counts[k], now)
      <4>1. w = counts[k]
        BY <3>3 DEF Limiter!Current
      <4>2. QED
        BY <2>1, <3>3, <4>1 DEF CountsTell
    <3>4. QED
      BY <3>1, <3>2, <3>3
  <2>4. CountsTell(k)'
    <3>1. counts'[k] # None /\ counts'[k].start = w.start /\ counts'[k].count = w.count + 1
      BY <1>4, <1>5
    <3>2. granted'[k][w.start] = w.count + 1
      BY <1>1, <1>6, <2>3
    <3>3. ASSUME NEW x \in Limiter!Times, granted'[k][x] > 0, x # w.start
          PROVE  x + Window <= w.start
      BY <1>6, <2>3, <3>3
    <3>4. QED
      BY <3>1, <3>2, <3>3 DEF CountsTell
  <2>5. KeyBudgetIsKept(k)'
    <3>1. \A x \in Limiter!Times : granted'[k][x] <= MaxRequests
      BY <1>1, <1>6, <2>1, <2>2, <2>3 DEF KeyBudgetIsKept
    <3>2. \A x \in Limiter!Times : granted'[k][x] > 0 => granted[k][x] > 0 \/ x = w.start
      BY <1>6
    <3>3. ASSUME NEW x \in Limiter!Times, NEW y \in Limiter!Times, granted'[k][x] > 0,
                 granted'[k][y] > 0, x < y
          PROVE  y - x >= Window
      <4>1. x \in Nat /\ y \in Nat
        BY DEF Limiter!Times
      <4>2. CASE granted[k][x] > 0 /\ granted[k][y] > 0
        BY <2>1, <3>3, <4>2 DEF KeyBudgetIsKept
      <4>3. CASE y = w.start /\ granted[k][x] > 0
        BY <1>1, <2>3, <3>3, <4>1, <4>3
      <4>4. CASE x = w.start /\ granted[k][y] > 0
        BY <1>1, <2>3, <3>3, <4>1, <4>4
      <4>5. QED
        BY <3>2, <3>3, <4>1, <4>2, <4>3, <4>4
    <3>4. QED
      BY <3>1, <3>3 DEF KeyBudgetIsKept
  <2>6. QED
    BY <2>4, <2>5
<1>11. QED
  BY <1>8, <1>9, <1>10 DEF LimiterInv

LEMMA LimiterStepKeepsInv ==
  ASSUME Limiter!LimiterAssumption, LimiterInv, [Limiter!Next]_(Limiter!vars)
  PROVE  LimiterInv'
<1>1. ASSUME NEW t \in Sessions, NEW k \in Keys, Limiter!Decide(t, k) PROVE LimiterInv'
  <2>1. PICK now \in Limiter!Times : now = read[t]
    BY <1>1 DEF Limiter!Decide, LimiterInv, Limiter!LimiterTypeOK
  <2>2. Limiter!Current(k, now) \in Limiter!Windows
    BY <2>1, LimiterCharged
  <2>3. CASE Limiter!Exhausted(Limiter!Current(k, now))
    BY <1>1, <2>1, <2>3, LimiterRefuseKeepsInv DEF Limiter!Decide
  <2>4. CASE ~ Limiter!Exhausted(Limiter!Current(k, now))
    BY <1>1, <2>1, <2>2, <2>4, LimiterGrantKeepsInv DEF Limiter!Decide
  <2>5. QED
    BY <2>3, <2>4
<1>2. QED
  BY <1>1, LimiterClockKeepsInv DEF Limiter!Next

THEOREM LimiterInvariance ==
  ASSUME Limiter!LimiterAssumption
  PROVE  Limiter!Spec => []LimiterInv
<1>1. Limiter!Init => LimiterInv
  BY LimiterInitInv
<1>2. LimiterInv /\ [Limiter!Next]_(Limiter!vars) => LimiterInv'
  BY LimiterStepKeepsInv
<1>3. QED
  BY <1>1, <1>2, PTL DEF Limiter!Spec

THEOREM LimiterSound ==
  ASSUME Limiter!LimiterAssumption
  PROVE  Limiter!Spec => [](Limiter!LimiterTypeOK /\ Limiter!BudgetIsKept)
<1>1. LimiterInv => Limiter!LimiterTypeOK /\ Limiter!BudgetIsKept
  BY DEF LimiterInv, Limiter!BudgetIsKept, KeyBudgetIsKept
<1>2. QED
  BY <1>1, LimiterInvariance, PTL

-----------------------------------------------------------------------------
Settling == {"settle", "create", "confirm"}
BodiesOf(t) == {b \in Bodies : TransOf[b] = t}
C2BKey(b) == <<"CONFIRMATION", TransOf[b]>>

(* The contribution that a payment with payload b counts for is confirmed. *)
Credited(b) ==
  \E c \in Records :
    /\ paid[c] # None /\ paid[c].by # None
    /\ paid[c].member = PayerOf[b]
    /\ paid[c].amount = PaidBy[b]

C2BTasksInFlight == \A s \in Sessions : c2bPc[s] # "idle" => c2bTask[s] \in C2B!Tasks

(* What a new event gets: only a confirmation goes on, and none is         *)
(* PROCESSED from the start.                                               *)
InsertersHaveVerdict ==
  \A s \in Sessions : c2bPc[s] = "insert" =>
    /\ c2bTask[s].status = "RECEIVED" => c2bTask[s].kind = "CONFIRMATION"
    /\ c2bTask[s].kind = "CONFIRMATION" => c2bTask[s].status # "PROCESSED"

(* Who settles has stored the event, and is alone with it.                 *)
SettlersStoredIt ==
  \A s \in Sessions : c2bPc[s] \in Settling \cup {"mark"} =>
    /\ c2bTask[s].kind = "CONFIRMATION"
    /\ inbox[C2BKey(c2bTask[s].body)] # None
    /\ inbox[C2BKey(c2bTask[s].body)].body = c2bTask[s].body
    /\ \A r \in Sessions \ {s} : c2bPc[r] \in Settling \cup {"mark"} =>
         TransOf[c2bTask[r].body] # TransOf[c2bTask[s].body]

(* As long as it is settled, the payment has confirmed nothing.            *)
NotYetCredited ==
  \A s \in Sessions : c2bPc[s] \in Settling =>
    \A c \in Records : paid[c] # None =>
      paid[c].by \notin BodiesOf(TransOf[c2bTask[s].body])

CreditsHaveEvents ==
  \A c \in Records :
    paid[c] # None /\ paid[c].by \in Bodies =>
      inbox[C2BKey(paid[c].by)] # None

(* At most one contribution of each payment, without counting.             *)
OneCredit ==
  \A c, d \in Records :
    /\ paid[c] # None /\ paid[c].by \in Bodies
    /\ paid[d] # None /\ paid[d].by \in Bodies
    /\ TransOf[paid[c].by] = TransOf[paid[d].by]
    => c = d

(* A contribution is PENDING until something confirms it.                  *)
PendingHasNoBy ==
  \A c \in Records : paid[c] # None =>
    (paid[c].status = "PENDING" <=> paid[c].by = None)

CreatorsHaveMember ==
  \A s \in Sessions : c2bPc[s] = "create" => PayerOf[c2bTask[s].body] # None

(* The contribution that was found is still that of the member, with the   *)
(* amount of the payment.                                                  *)
FoundIsThere ==
  \A s \in Sessions : c2bPc[s] = "confirm" =>
    LET c == c2bTask[s].contribution IN
    /\ c \in Records /\ paid[c] # None
    /\ paid[c].member = PayerOf[c2bTask[s].body]
    /\ paid[c].amount = PaidBy[c2bTask[s].body]

MarkedIsCredited ==
  \A s \in Sessions :
    c2bPc[s] = "mark" /\ c2bTask[s].status = "PROCESSED" => Credited(c2bTask[s].body)

(* The inductive invariant.                                                *)
C2BInv ==
  /\ C2B!C2BTypeOK /\ C2BTasksInFlight /\ InsertersHaveVerdict /\ SettlersStoredIt
  /\ NotYetCredited /\ CreditsHaveEvents /\ OneCredit /\ PendingHasNoBy
  /\ CreatorsHaveMember /\ FoundIsThere /\ MarkedIsCredited /\ C2B!ProcessedIsCredited

-----------------------------------------------------------------------------
(* Contributions that are new, or keep who they are for and, once they     *)
(* are confirmed, by what.                                                 *)
C2BGrows ==
  \A c \in Records : paid[c] # None =>
    /\ paid'[c] # None
    /\ paid'[c].member = paid[c].member
    /\ paid'[c].amount = paid[c].amount
    /\ paid[c].by # None => paid'[c].by = paid[c].by

LEMMA C2BKeyType ==
  ASSUME C2B!C2BAssumption, NEW b \in Bodies
  PROVE  TransOf[b] \in Trans /\ C2BKey(b) \in C2B!Kinds \X Trans
  BY DEF C2B!C2BAssumption, C2BKey, C2B!Kinds

(* A processed event is that of a payload that is credited.                *)
LEMMA C2BProcessedBody ==
  ASSUME C2B!C2BAssumption, C2BInv, NEW t \in Trans, inbox[<<"CONFIRMATION", t>>] # None,
         inbox[<<"CONFIRMATION", t>>].status = "PROCESSED"
  PROVE  Credited(inbox[<<"CONFIRMATION", t>>].body)
           /\ inbox[<<"CONFIRMATION", t>>].body \in Bodies
<1>1. inbox[<<"CONFIRMATION", t>>] \in C2B!Events
  BY DEF C2BInv, C2B!C2BTypeOK, C2B!Kinds
<1>2. QED
  BY <1>1 DEF C2BInv, C2B!ProcessedIsCredited, Credited, C2B!Events

(* A step of s that changes no row: it moves on, or ends.                  *)
LEMMA C2BMoveKeepsInv ==
  ASSUME C2B!C2BAssumption, C2BInv, NEW s \in Sessions, NEW label \in C2B!Labels,
         NEW t \in C2B!Tasks \cup {None},
         c2bPc' = [c2bPc EXCEPT ![s] = label], c2bTask' = [c2bTask EXCEPT ![s] = t],
         inbox' = inbox, paid' = paid,
         active' \in BOOLEAN, member' \in [Payers -> BOOLEAN],
         label # "idle" => t \in C2B!Tasks,
         label = "insert" =>
           /\ t.status = "RECEIVED" => t.kind = "CONFIRMATION"
           /\ t.kind = "CONFIRMATION" => t.status # "PROCESSED",
         label \in Settling \cup {"mark"} =>
           c2bPc[s] \in Settling /\ t.body = c2bTask[s].body /\ t.kind = c2bTask[s].kind,
         label = "create" => PayerOf[t.body] # None,
         label = "confirm" =>
           /\ t.contribution \in Records /\ paid[t.contribution] # None
           /\ paid[t.contribution].member = PayerOf[t.body]
           /\ paid[t.contribution].amount = PaidBy[t.body],
         label = "mark" /\ t.status = "PROCESSED" => Credited(t.body)
  PROVE  C2BInv'
<1> USE DEF C2BInv
<1>1. /\ c2bPc'[s] = label /\ c2bTask'[s] = t
      /\ \A r \in Sessions \ {s} : c2bPc'[r] = c2bPc[r] /\ c2bTask'[r] = c2bTask[r]
  BY DEF C2B!C2BTypeOK
<1>2. C2B!C2BTypeOK' /\ C2BTasksInFlight'
  BY <1>1 DEF C2B!C2BTypeOK, C2BTasksInFlight
<1>3. InsertersHaveVerdict'
  BY <1>1 DEF InsertersHaveVerdict
<1>4. SettlersStoredIt'
  BY <1>1 DEF SettlersStoredIt
<1>5. NotYetCredited'
  BY <1>1 DEF NotYetCredited, Settling
<1>6. CreditsHaveEvents' /\ OneCredit' /\ PendingHasNoBy' /\ C2B!ProcessedIsCredited'
  BY DEF CreditsHaveEvents, OneCredit, PendingHasNoBy, C2B!ProcessedIsCredited
<1>7. CreatorsHaveMember' /\ FoundIsThere'
  BY <1>1 DEF CreatorsHaveMember, FoundIsThere
<1>8. MarkedIsCredited'
  BY <1>1 DEF MarkedIsCredited, Credited
<1>9. QED
  BY <1>2, <1>3, <1>4, <1>5, <1>6, <1>7, <1>8

(* A step that adds or marks an event, after which s is at label.          *)
LEMMA C2BEventKeepsInv ==
  ASSUME C2B!C2BAssumption, C2BInv, NEW s \in Sessions, NEW label \in {"idle", "settle"},
         NEW t \in C2B!Tasks \cup {None},
         c2bPc' = [c2bPc EXCEPT ![s] = label], c2bTask' = [c2bTask EXCEPT ![s] = t],
         UNCHANGED <<active, member, paid>>,
         inbox' \in [C2B!Kinds \X Trans -> C2B!Events \cup {None}],
         \A k \in C2B!Kinds \X Trans : inbox[k] # None =>
           inbox'[k] # None /\ inbox'[k].body = inbox[k].body,
         \A u \in Trans :
           LET k == <<"CONFIRMATION", u>> IN
           inbox'[k] # None /\ inbox'[k].status = "PROCESSED" => Credited(inbox'[k].body),
         label = "settle" =>
           /\ t \in C2B!Tasks /\ t.kind = "CONFIRMATION"
           /\ inbox'[C2BKey(t.body)] # None /\ inbox'[C2BKey(t.body)].body = t.body
           /\ \A r \in Sessions \ {s} : c2bPc[r] \in Settling \cup {"mark"} =>
                TransOf[c2bTask[r].body] # TransOf[t.body]
           /\ \A c \in Records : paid[c] # None =>
                paid[c].by \notin BodiesOf(TransOf[t.body])
  PROVE  C2BInv'
<1> USE DEF C2BInv
<1>1. /\ c2bPc'[s] = label /\ c2bTask'[s] = t
      /\ \A r \in Sessions \ {s} : c2bPc'[r] = c2bPc[r] /\ c2bTask'[r] = c2bTask[r]
  BY DEF C2B!C2BTypeOK
<1>2. C2B!C2BTypeOK' /\ C2BTasksInFlight'
  <2>1. label \in C2B!Labels
    BY DEF C2B!Labels
  <2>2. QED
    BY <1>1, <2>1 DEF C2B!C2BTypeOK, C2BTasksInFlight
<1>3. InsertersHaveVerdict'
  BY <1>1 DEF InsertersHaveVerdict
<1>4. SettlersStoredIt'
  <2>1. ASSUME NEW r \in Sessions, c2bPc'[r] \in Settling \cup {"mark"}, r # s
        PROVE  /\ c2bTask'[r].kind = "CONFIRMATION"
               /\ inbox'[C2BKey(c2bTask'[r].body)] # None
               /\ inbox'[C2BKey(c2bTask'[r].body)].body = c2bTask'[r].body
    <3>1. c2bPc[r] \in Settling \cup {"mark"} /\ c2bTask'[r] = c2bTask[r]
      BY <1>1, <2>1
    <3>2. c2bTask[r] \in C2B!Tasks /\ c2bTask[r].body \in Bodies
      BY <3>1 DEF C2BTasksInFlight, C2B!Tasks, Settling
    <3>3. C2BKey(c2bTask[r].body) \in C2B!Kinds \X Trans
      BY <3>2, C2BKeyType
    <3>4. QED
      BY <3>1, <3>3 DEF SettlersStoredIt
  <2>2. ASSUME NEW r \in Sessions, NEW q \in Sessions \ {r},
               c2bPc'[r] \in Settling \cup {"mark"}, c2bPc'[q] \in Settling \cup {"mark"}
        PROVE  TransOf[c2bTask'[q].body] # TransOf[c2bTask'[r].body]
    <3>1. CASE r # s /\ q # s
      BY <1>1, <2>2, <3>1 DEF SettlersStoredIt
    <3>2. CASE r = s
      BY <1>1, <2>2, <3>2 DEF Settling
    <3>3. CASE q = s
      BY <1>1, <2>2, <3>3 DEF Settling
    <3>4. QED
      BY <3>1, <3>2, <3>3
  <2>3. CASE label = "settle"
    BY <1>1, <2>1, <2>2, <2>3 DEF SettlersStoredIt
  <2>4. CASE label = "idle"
    BY <1>1, <2>1, <2>2, <2>4 DEF SettlersStoredIt, Settling
  <2>5. QED
    BY <2>3, <2>4
<1>5. NotYetCredited'
  BY <1>1 DEF NotYetCredited, Settling, BodiesOf
<1>6. CreditsHaveEvents'
  <2>1. ASSUME NEW c \in Records, paid[c] # None, paid[c].by \in Bodies
        PROVE  inbox'[C2BKey(paid[c].by)] # None
    BY <2>1, C2BKeyType DEF CreditsHaveEvents
  <2>2. QED
    BY <2>1 DEF CreditsHaveEvents, C2BKey
<1>7. OneCredit' /\ PendingHasNoBy'
  BY DEF OneCredit, PendingHasNoBy
<1>8. CreatorsHaveMember' /\ FoundIsThere'
  BY <1>1 DEF CreatorsHaveMember, FoundIsThere
<1>9. MarkedIsCredited'
  BY <1>1 DEF MarkedIsCredited, Credited
<1>10. C2B!ProcessedIsCredited'
  BY DEF C2B!ProcessedIsCredited, Credited
<1>11. QED
  BY <1>2, <1>3, <1>4, <1>5, <1>6, <1>7, <1>8, <1>9, <1>10

(* A processed event stays credited while contributions grow.              *)
LEMMA C2BGrowsKeepsProcessed ==
  ASSUME C2B!C2BAssumption, C2BInv, C2BGrows, UNCHANGED inbox
  PROVE  C2B!ProcessedIsCredited'
<1>1. ASSUME NEW t \in Trans, inbox[<<"CONFIRMATION", t>>] # None,
             inbox[<<"CONFIRMATION", t>>].status = "PROCESSED"
      PROVE  Credited(inbox[<<"CONFIRMATION", t>>].body)'
  <2>1. /\ Credited(inbox[<<"CONFIRMATION", t>>].body)
        /\ inbox[<<"CONFIRMATION", t>>].body \in Bodies
    BY <1>1, C2BProcessedBody
  <2>2. PICK c \in Records :
          /\ paid[c] # None /\ paid[c].by # None
          /\ paid[c].member = PayerOf[inbox[<<"CONFIRMATION", t>>].body]
          /\ paid[c].amount = PaidBy[inbox[<<"CONFIRMATION", t>>].body]
    BY <2>1 DEF Credited
  <2>3. QED
    BY <2>2 DEF C2BGrows, Credited
<1>2. QED
  BY <1>1 DEF C2B!ProcessedIsCredited, Credited

(* Contributions change by hand: no payment is credited by it.             *)
LEMMA C2BByHandKeepsInv ==
  ASSUME C2B!C2BAssumption, C2BInv, C2BGrows,
         UNCHANGED <<active, member, inbox, c2bPc, c2bTask>>,
         paid' \in [Records -> C2B!ContributionRows \cup {None}],
         \A c \in Records :
           paid'[c] # None /\ paid'[c].by \in Bodies =>
             paid[c] # None /\ paid[c].by = paid'[c].by,
         PendingHasNoBy'
  PROVE  C2BInv'
<1> USE DEF C2BInv
<1>1. C2B!C2BTypeOK' /\ C2BTasksInFlight' /\ InsertersHaveVerdict' /\ SettlersStoredIt'
      /\ CreatorsHaveMember'
  BY DEF C2B!C2BTypeOK, C2BTasksInFlight, InsertersHaveVerdict, SettlersStoredIt,
         CreatorsHaveMember, C2BKey
<1>2. NotYetCredited'
  BY DEF NotYetCredited, BodiesOf
<1>3. CreditsHaveEvents' /\ OneCredit'
  BY DEF CreditsHaveEvents, OneCredit, C2BKey
<1>4. FoundIsThere'
  BY DEF FoundIsThere, C2BGrows
<1>5. MarkedIsCredited'
  <2>1. ASSUME NEW s \in Sessions, c2bPc[s] = "mark", c2bTask[s].status = "PROCESSED"
        PROVE  Credited(c2bTask[s].body)'
    <3>1. PICK c \in Records :
            /\ paid[c] # None /\ paid[c].by # None
            /\ paid[c].member = PayerOf[c2bTask[s].body]
            /\ paid[c].amount = PaidBy[c2bTask[s].body]
      BY <2>1 DEF MarkedIsCredited, Credited
    <3>2. QED
      BY <3>1 DEF C2BGrows, Credited
  <2>2. QED
    BY <2>1 DEF MarkedIsCredited
<1>6. C2B!ProcessedIsCredited'
  BY C2BGrowsKeepsProcessed
<1>7. QED
  BY <1>1, <1>2, <1>3, <1>4, <1>5, <1>6

(* A payment is credited to c, which is new or was not confirmed yet.      *)
LEMMA C2BCreditKeepsInv ==
  ASSUME C2B!C2BAssumption, C2BInv, NEW s \in Sessions, c2bPc[s] \in Settling,
         NEW c \in Records, NEW r0 \in C2B!ContributionRows,
         paid' = [paid EXCEPT ![c] = r0],
         r0.status = "CONFIRMED", r0.by = c2bTask[s].body,
         r0.member = PayerOf[c2bTask[s].body], r0.amount = PaidBy[c2bTask[s].body],
         paid[c] # None =>
           /\ paid[c].by = None
           /\ paid[c].member = r0.member /\ paid[c].amount = r0.amount,
         UNCHANGED <<active, member, inbox>>,
         C2B!Conclude(s, "PROCESSED")
  PROVE  C2BInv'
<1> USE DEF C2BInv
<1> DEFINE b == c2bTask[s].body
<1>1. c2bTask[s] \in C2B!Tasks /\ b \in Bodies /\ r0 # None /\ "mark" \in C2B!Labels
  BY DEF C2BTasksInFlight, Settling, C2B!Tasks, C2B!C2BAssumption, C2B!Labels
<1>2. /\ c2bPc' = [c2bPc EXCEPT ![s] = "mark"]
      /\ c2bTask' = [c2bTask EXCEPT ![s] = [c2bTask[s] EXCEPT !.status = "PROCESSED"]]
  BY DEF C2B!Conclude, C2B!Goto
<1>3. [c2bTask[s] EXCEPT !.status = "PROCESSED"] \in C2B!Tasks
  BY <1>1 DEF C2B!Tasks, C2B!EventStatuses
<1>4. /\ c2bPc'[s] = "mark" /\ c2bTask'[s].body = b /\ c2bTask'[s].kind = c2bTask[s].kind
      /\ c2bTask'[s] \in C2B!Tasks
      /\ \A r \in Sessions \ {s} : c2bPc'[r] = c2bPc[r] /\ c2bTask'[r] = c2bTask[r]
  BY <1>1, <1>2, <1>3 DEF C2B!C2BTypeOK, C2B!Tasks
<1>5. /\ paid'[c] = r0
      /\ \A d \in Records \ {c} : paid'[d] = paid[d]
      /\ paid' \in [Records -> C2B!ContributionRows \cup {None}]
  BY DEF C2B!C2BTypeOK
<1>6. C2BGrows
  BY <1>1, <1>5 DEF C2BGrows
<1>8. C2B!C2BTypeOK' /\ C2BTasksInFlight'
  BY <1>1, <1>2, <1>3, <1>4, <1>5 DEF C2B!C2BTypeOK, C2BTasksInFlight
<1>9. InsertersHaveVerdict' /\ CreatorsHaveMember'
  BY <1>4 DEF InsertersHaveVerdict, CreatorsHaveMember
<1>10. SettlersStoredIt'
  BY <1>4 DEF SettlersStoredIt, C2BKey
<1>11. NotYetCredited'
  <2>1. ASSUME NEW r \in Sessions, c2bPc'[r] \in Settling,
               NEW d \in Records, paid'[d] # None
        PROVE  paid'[d].by \notin BodiesOf(TransOf[c2bTask'[r].body])
    <3>1. r # s /\ c2bPc[r] \in Settling /\ c2bTask'[r] = c2bTask[r]
      BY <1>4, <2>1 DEF Settling
    <3>2. CASE d = c
      BY <1>1, <1>5, <3>1, <3>2 DEF SettlersStoredIt, BodiesOf
    <3>3. CASE d # c
      BY <1>5, <2>1, <3>1, <3>3 DEF NotYetCredited
    <3>4. QED
      BY <3>2, <3>3
  <2>2. QED
    BY <2>1 DEF NotYetCredited, BodiesOf
<1>12. CreditsHaveEvents'
  <2>1. inbox[C2BKey(b)] # None
    BY DEF SettlersStoredIt
  <2>2. ASSUME NEW d \in Records, paid'[d] # None, paid'[d].by \in Bodies
        PROVE  inbox[C2BKey(paid'[d].by)] # None
    BY <1>5, <2>1, <2>2 DEF CreditsHaveEvents
  <2>3. QED
    BY <2>2 DEF CreditsHaveEvents, C2BKey
<1>13. OneCredit'
  <2>1. \A d \in Records \ {c} :
          paid'[d] # None /\ paid'[d].by \in Bodies =>
            TransOf[paid'[d].by] # TransOf[b]
    BY <1>5 DEF NotYetCredited, BodiesOf
  <2>2. QED
    BY <1>1, <1>5, <2>1 DEF OneCredit
<1>14. PendingHasNoBy'
  BY <1>1, <1>5 DEF PendingHasNoBy, C2B!C2BAssumption
<1>15. FoundIsThere'
  BY <1>4, <1>6 DEF FoundIsThere, C2BGrows
<1>16. MarkedIsCredited'
  <2>1. ASSUME NEW r \in Sessions, r # s, c2bPc[r] = "mark", c2bTask[r].status = "PROCESSED"
        PROVE  \E d \in Records :
                 /\ paid'[d] # None /\ paid'[d].by # None
                 /\ paid'[d].member = PayerOf[c2bTask[r].body]
                 /\ paid'[d].amount = PaidBy[c2bTask[r].body]
    <3>1. PICK d \in Records :
            /\ paid[d] # None /\ paid[d].by # None
            /\ paid[d].member = PayerOf[c2bTask[r].body]
            /\ paid[d].amount = PaidBy[c2bTask[r].body]
      BY <2>1 DEF MarkedIsCredited, Credited
    <3>2. QED
      BY <1>6, <3>1 DEF C2BGrows
  <2>2. \E d \in Records :
          /\ paid'[d] # None /\ paid'[d].by # None
          /\ paid'[d].member = PayerOf[b] /\ paid'[d].amount = PaidBy[b]
    BY <1>1, <1>5 DEF C2B!C2BAssumption
  <2>3. QED
    BY <1>4, <2>1, <2>2 DEF MarkedIsCredited, Credited
<1>17. C2B!ProcessedIsCredited'
  BY <1>6, C2BGrowsKeepsProcessed
<1>18. QED
  BY <1>8, <1>9, <1>10, <1>11, <1>12, <1>13, <1>14, <1>15, <1>16, <1>17

LEMMA C2BInitInv ==
  ASSUME C2B!C2BAssumption, C2B!Init
  PROVE  C2BInv
<1> USE DEF C2B!Init
<1>1. C2B!C2BTypeOK
  BY DEF C2B!C2BTypeOK, C2B!Labels
<1>2. C2BTasksInFlight /\ InsertersHaveVerdict /\ SettlersStoredIt /\ NotYetCredited
      /\ CreatorsHaveMember /\ FoundIsThere /\ MarkedIsCredited
  BY DEF C2BTasksInFlight, InsertersHaveVerdict, SettlersStoredIt, NotYetCredited,
         CreatorsHaveMember, FoundIsThere, MarkedIsCredited, Settling
<1>3. CreditsHaveEvents /\ OneCredit /\ PendingHasNoBy
  BY DEF CreditsHaveEvents, OneCredit, PendingHasNoBy
<1>4. C2B!ProcessedIsCredited
  BY DEF C2B!ProcessedIsCredited, C2B!Kinds
<1>5. QED
  BY <1>1, <1>2, <1>3, <1>4 DEF C2BInv

(* A duplicate overwrites the status, with one that is not PROCESSED.      *)
LEMMA C2BDuplicateKeeps ==
  ASSUME C2B!C2BAssumption, C2BInv, NEW k0 \in C2B!Kinds \X Trans, NEW b \in Bodies,
         inbox[k0] # None, C2B!MarkDuplicate(k0, b)
  PROVE  /\ inbox' \in [C2B!Kinds \X Trans -> C2B!Events \cup {None}]
         /\ \A k \in C2B!Kinds \X Trans : inbox[k] # None =>
              inbox'[k] # None /\ inbox'[k].body = inbox[k].body
         /\ \A u \in Trans :
              LET k == <<"CONFIRMATION", u>> IN
              inbox'[k] # None /\ inbox'[k].status = "PROCESSED" => Credited(inbox'[k].body)
<1> DEFINE x == IF inbox[k0].body # b THEN "DISAGREEMENT" ELSE "DEDUPLICATED"
<1>1. /\ inbox' = [inbox EXCEPT ![k0] = [inbox[k0] EXCEPT !.status = x]]
      /\ x \in C2B!EventStatuses /\ x # "PROCESSED"
  BY DEF C2B!MarkDuplicate, C2B!EventStatuses
<1> HIDE DEF x
<1>2. /\ inbox \in [C2B!Kinds \X Trans -> C2B!Events \cup {None}]
      /\ inbox[k0] \in C2B!Events
  BY DEF C2BInv, C2B!C2BTypeOK
<1>3. /\ [inbox[k0] EXCEPT !.status = x] \in C2B!Events
      /\ [inbox[k0] EXCEPT !.status = x].body = inbox[k0].body
      /\ [inbox[k0] EXCEPT !.status = x].status = x
  BY <1>1, <1>2 DEF C2B!Events
<1>4. [inbox[k0] EXCEPT !.status = x] # None
  BY <1>3 DEF C2B!C2BAssumption
<1>5. /\ inbox'[k0] = [inbox[k0] EXCEPT !.status = x]
      /\ \A k \in (C2B!Kinds \X Trans) \ {k0} : inbox'[k] = inbox[k]
      /\ inbox' \in [C2B!Kinds \X Trans -> C2B!Events \cup {None}]
  BY <1>1, <1>2, <1>3
<1>6. ASSUME NEW u \in Trans, inbox'[<<"CONFIRMATION", u>>] # None,
             inbox'[<<"CONFIRMATION", u>>].status = "PROCESSED"
      PROVE  Credited(inbox'[<<"CONFIRMATION", u>>].body)
  <2>1. <<"CONFIRMATION", u>> \in C2B!Kinds \X Trans
    BY DEF C2B!Kinds
  <2>2. <<"CONFIRMATION", u>> # k0
    BY <1>1, <1>3, <1>5, <1>6
  <2>3. inbox'[<<"CONFIRMATION", u>>] = inbox[<<"CONFIRMATION", u>>]
    BY <1>5, <2>1, <2>2
  <2>4. QED
    BY <1>6, <2>3, C2BProcessedBody
<1>7. QED
  BY <1>3, <1>4, <1>5, <1>6

LEMMA C2BDeliverKeepsInv ==
  ASSUME C2B!C2BAssumption, C2BInv, NEW s \in Sessions, NEW k \in Callbacks,
         C2B!Deliver(s, k[1], k[2])
  PROVE  C2BInv'
<1> DEFINE b == k[2]
           k0 == <<k[1], TransOf[b]>>
<1>1. k[1] \in C2B!Kinds /\ b \in Bodies /\ k0 \in C2B!Kinds \X Trans
  BY DEF C2B!C2BAssumption, C2B!Kinds
<1>2. CASE inbox[k0] # None /\ C2B!MarkDuplicate(k0, b) /\ UNCHANGED <<c2bPc, c2bTask>>
  <2>1. c2bTask[s] \in C2B!Tasks \cup {None}
    BY DEF C2BInv, C2B!C2BTypeOK
  <2>2. c2bPc' = [c2bPc EXCEPT ![s] = "idle"] /\ c2bTask' = [c2bTask EXCEPT ![s] = c2bTask[s]]
    BY <1>2 DEF C2BInv, C2B!C2BTypeOK, C2B!Deliver
  <2>3. UNCHANGED <<active, member, paid>>
    BY DEF C2B!Deliver
  <2> HIDE DEF k0
  <2>4. /\ inbox' \in [C2B!Kinds \X Trans -> C2B!Events \cup {None}]
        /\ \A l \in C2B!Kinds \X Trans : inbox[l] # None =>
             inbox'[l] # None /\ inbox'[l].body = inbox[l].body
        /\ \A u \in Trans :
             LET l == <<"CONFIRMATION", u>> IN
             inbox'[l] # None /\ inbox'[l].status = "PROCESSED" => Credited(inbox'[l].body)
    BY <1>1, <1>2, C2BDuplicateKeeps
  <2>5. QED
    BY <2>1, <2>2, <2>3, <2>4, C2BEventKeepsInv
<1>3. CASE /\ c2bTask' = [c2bTask EXCEPT ![s] = [kind |-> k[1], body |-> b, contribution |-> None,
                                          status |-> C2B!Verdict(k[1], b)]]
           /\ C2B!Goto(s, "insert") /\ UNCHANGED inbox
  <2> DEFINE t == [kind |-> k[1], body |-> b, contribution |-> None,
               status |-> C2B!Verdict(k[1], b)]
  <2>1. /\ C2B!Verdict(k[1], b) \in C2B!EventStatuses
        /\ C2B!Verdict(k[1], b) = "RECEIVED" => k[1] = "CONFIRMATION"
        /\ k[1] = "CONFIRMATION" => C2B!Verdict(k[1], b) # "PROCESSED"
    BY <1>1 DEF C2B!Verdict, C2B!EventStatuses, C2B!Kinds
  <2>2. t \in C2B!Tasks /\ t.kind = k[1] /\ t.status = C2B!Verdict(k[1], b)
    BY <1>1, <2>1 DEF C2B!Tasks
  <2>3. /\ c2bPc' = [c2bPc EXCEPT ![s] = "insert"] /\ c2bTask' = [c2bTask EXCEPT ![s] = t]
        /\ UNCHANGED <<active, member, inbox, paid>>
    BY <1>3 DEF C2B!Goto, C2B!Deliver
  <2>4. active' \in BOOLEAN /\ member' \in [Payers -> BOOLEAN] /\ "insert" \in C2B!Labels
    BY <2>3 DEF C2BInv, C2B!C2BTypeOK, C2B!Labels
  <2> HIDE DEF t
  <2>5. QED
    BY <2>1, <2>2, <2>3, <2>4, C2BMoveKeepsInv DEF Settling
<1>4. QED
  BY <1>2, <1>3 DEF C2B!Deliver

LEMMA C2BInsertEventKeepsInv ==
  ASSUME C2B!C2BAssumption, C2BInv, NEW s \in Sessions, C2B!InsertEvent(s)
  PROVE  C2BInv'
<1> DEFINE b == c2bTask[s].body
           k0 == C2B!KeyOf(s)
           new == [body |-> b, status |-> c2bTask[s].status]
<1>1. /\ c2bPc[s] = "insert" /\ c2bTask[s] \in C2B!Tasks /\ b \in Bodies
      /\ c2bTask[s].kind \in C2B!Kinds /\ c2bTask[s].status \in C2B!EventStatuses
  BY DEF C2B!InsertEvent, C2BInv, C2BTasksInFlight, C2B!Tasks
<1>2. k0 \in C2B!Kinds \X Trans /\ k0 = <<c2bTask[s].kind, TransOf[b]>>
  BY <1>1, C2BKeyType DEF C2B!KeyOf
<1>3. UNCHANGED <<active, member, paid>>
  BY DEF C2B!InsertEvent
<1>4. CASE inbox[k0] # None /\ C2B!MarkDuplicate(k0, b) /\ C2B!Finish(s)
  <2>1. c2bPc' = [c2bPc EXCEPT ![s] = "idle"] /\ c2bTask' = [c2bTask EXCEPT ![s] = None]
    BY <1>4 DEF C2B!Finish, C2B!Goto
  <2> HIDE DEF k0
  <2>2. /\ inbox' \in [C2B!Kinds \X Trans -> C2B!Events \cup {None}]
        /\ \A l \in C2B!Kinds \X Trans : inbox[l] # None =>
             inbox'[l] # None /\ inbox'[l].body = inbox[l].body
        /\ \A u \in Trans :
             LET l == <<"CONFIRMATION", u>> IN
             inbox'[l] # None /\ inbox'[l].status = "PROCESSED" => Credited(inbox'[l].body)
    BY <1>1, <1>2, <1>4, C2BDuplicateKeeps
  <2>3. QED
    BY <1>3, <2>1, <2>2, C2BEventKeepsInv
<1>5. CASE inbox[k0] = None /\ C2B!AddEvent(s) /\ C2B!Continue(s)
  <2>1. new \in C2B!Events /\ new # None /\ new.body = b /\ new.status = c2bTask[s].status
    BY <1>1 DEF C2B!Events, C2B!C2BAssumption
  <2>2. inbox' = [inbox EXCEPT ![k0] = new]
    BY <1>5 DEF C2B!AddEvent
  <2> HIDE DEF new, k0
  <2>3. /\ inbox'[k0] = new
        /\ \A l \in (C2B!Kinds \X Trans) \ {k0} : inbox'[l] = inbox[l]
        /\ inbox' \in [C2B!Kinds \X Trans -> C2B!Events \cup {None}]
    BY <1>2, <2>1, <2>2 DEF C2BInv, C2B!C2BTypeOK
  <2>4. \A l \in C2B!Kinds \X Trans : inbox[l] # None =>
          inbox'[l] # None /\ inbox'[l].body = inbox[l].body
    BY <1>5, <2>3
  <2>5. ASSUME NEW u \in Trans, inbox'[<<"CONFIRMATION", u>>] # None,
               inbox'[<<"CONFIRMATION", u>>].status = "PROCESSED"
        PROVE  Credited(inbox'[<<"CONFIRMATION", u>>].body)
    <3>1. <<"CONFIRMATION", u>> \in C2B!Kinds \X Trans
      BY DEF C2B!Kinds
    <3>2. <<"CONFIRMATION", u>> # k0
      BY <1>1, <1>2, <2>1, <2>3, <2>5 DEF C2BInv, InsertersHaveVerdict
    <3>3. inbox'[<<"CONFIRMATION", u>>] = inbox[<<"CONFIRMATION", u>>]
      BY <2>3, <3>1, <3>2
    <3>4. QED
      BY <2>5, <3>3, C2BProcessedBody
  <2>6. CASE c2bTask[s].status = "RECEIVED"
    <3>1. c2bTask[s].kind = "CONFIRMATION" /\ k0 = C2BKey(b)
      BY <1>1, <1>2, <2>6 DEF C2BInv, InsertersHaveVerdict, C2BKey
    <3>2. c2bPc' = [c2bPc EXCEPT ![s] = "settle"] /\ c2bTask' = [c2bTask EXCEPT ![s] = c2bTask[s]]
      BY <1>5, <2>6 DEF C2B!Continue, C2B!Goto, C2BInv, C2B!C2BTypeOK
    <3>3. \A r \in Sessions \ {s} : c2bPc[r] \in Settling \cup {"mark"} =>
            TransOf[c2bTask[r].body] # TransOf[b]
      BY <1>5, <3>1 DEF C2BInv, SettlersStoredIt, C2BKey
    <3>4. \A c \in Records : paid[c] # None =>
            paid[c].by \notin BodiesOf(TransOf[b])
      BY <1>5, <3>1 DEF C2BInv, CreditsHaveEvents, BodiesOf, C2BKey
    <3>5. QED
      BY <1>1, <1>3, <2>1, <2>3, <2>4, <2>5, <3>1, <3>2, <3>3, <3>4, C2BEventKeepsInv
  <2>7. CASE c2bTask[s].status # "RECEIVED"
    <3>1. c2bPc' = [c2bPc EXCEPT ![s] = "idle"] /\ c2bTask' = [c2bTask EXCEPT ![s] = None]
      BY <1>5, <2>7 DEF C2B!Continue, C2B!Finish, C2B!Goto
    <3>2. QED
      BY <1>3, <2>3, <2>4, <2>5, <3>1, C2BEventKeepsInv
  <2>8. QED
    BY <2>6, <2>7
<1>6. QED
  BY <1>4, <1>5 DEF C2B!InsertEvent

LEMMA C2BMarkKeepsInv ==
  ASSUME C2B!C2BAssumption, C2BInv, NEW s \in Sessions, C2B!Mark(s)
  PROVE  C2BInv'
<1> DEFINE b == c2bTask[s].body
           new == [inbox[C2BKey(b)] EXCEPT !.status = c2bTask[s].status]
<1>1. /\ c2bPc[s] = "mark" /\ c2bTask[s] \in C2B!Tasks /\ b \in Bodies
      /\ c2bTask[s].status \in C2B!EventStatuses
  BY DEF C2B!Mark, C2BInv, C2BTasksInFlight, C2B!Tasks
<1>2. /\ C2B!KeyOf(s) = C2BKey(b) /\ C2BKey(b) \in C2B!Kinds \X Trans
      /\ inbox[C2BKey(b)] # None /\ inbox[C2BKey(b)].body = b
  BY <1>1, C2BKeyType DEF C2BInv, SettlersStoredIt, C2B!KeyOf, C2BKey
<1>3. /\ inbox' = [inbox EXCEPT ![C2BKey(b)] = new]
      /\ c2bPc' = [c2bPc EXCEPT ![s] = "idle"] /\ c2bTask' = [c2bTask EXCEPT ![s] = None]
      /\ UNCHANGED <<active, member, paid>>
  BY <1>2 DEF C2B!Mark, C2B!Finish, C2B!Goto
<1>4. /\ inbox[C2BKey(b)] \in C2B!Events
      /\ new \in C2B!Events /\ new.body = b /\ new.status = c2bTask[s].status
  BY <1>1, <1>2 DEF C2BInv, C2B!C2BTypeOK, C2B!Events
<1>5. new # None
  BY <1>4 DEF C2B!C2BAssumption
<1> HIDE DEF new
<1>6. /\ inbox'[C2BKey(b)] = new
      /\ \A l \in (C2B!Kinds \X Trans) \ {C2BKey(b)} : inbox'[l] = inbox[l]
      /\ inbox' \in [C2B!Kinds \X Trans -> C2B!Events \cup {None}]
  BY <1>2, <1>3, <1>4 DEF C2BInv, C2B!C2BTypeOK
<1>7. \A l \in C2B!Kinds \X Trans : inbox[l] # None =>
        inbox'[l] # None /\ inbox'[l].body = inbox[l].body
  BY <1>2, <1>4, <1>5, <1>6
<1>8. ASSUME NEW u \in Trans, inbox'[<<"CONFIRMATION", u>>] # None,
             inbox'[<<"CONFIRMATION", u>>].status = "PROCESSED"
      PROVE  Credited(inbox'[<<"CONFIRMATION", u>>].body)
  <2>1. CASE <<"CONFIRMATION", u>> = C2BKey(b)
    BY <1>1, <1>4, <1>6, <1>8, <2>1 DEF C2BInv, MarkedIsCredited
  <2>2. CASE <<"CONFIRMATION", u>> # C2BKey(b)
    <3>1. inbox'[<<"CONFIRMATION", u>>] = inbox[<<"CONFIRMATION", u>>]
      BY <1>6, <2>2 DEF C2B!Kinds
    <3>2. QED
      BY <1>8, <3>1, C2BProcessedBody
  <2>3. QED
    BY <2>1, <2>2
<1>9. QED
  BY <1>3, <1>6, <1>7, <1>8, C2BEventKeepsInv

LEMMA C2BFindKeepsInv ==
  ASSUME C2B!C2BAssumption, C2BInv, NEW s \in Sessions, C2B!Find(s)
  PROVE  C2BInv'
<1> DEFINE b == c2bTask[s].body
           Concluded(x) == [c2bTask[s] EXCEPT !.status = x]
<1>1. c2bPc[s] = "settle" /\ c2bTask[s] \in C2B!Tasks /\ b \in Bodies
  BY DEF C2B!Find, C2BInv, C2BTasksInFlight, C2B!Tasks
<1>2. UNCHANGED <<active, member, inbox, paid>>
  BY DEF C2B!Find, C2B!Rows
<1>3. active' \in BOOLEAN /\ member' \in [Payers -> BOOLEAN]
  BY <1>2 DEF C2BInv, C2B!C2BTypeOK
<1>4. ASSUME NEW x \in C2B!EventStatuses, C2B!Conclude(s, x), x = "PROCESSED" => Credited(b)
      PROVE  C2BInv'
  <2>1. /\ Concluded(x) \in C2B!Tasks /\ Concluded(x).body = b
        /\ Concluded(x).kind = c2bTask[s].kind /\ Concluded(x).status = x
    BY <1>1 DEF C2B!Tasks
  <2>2. c2bPc' = [c2bPc EXCEPT ![s] = "mark"] /\ c2bTask' = [c2bTask EXCEPT ![s] = Concluded(x)]
    BY <1>4 DEF C2B!Conclude, C2B!Goto
  <2>3. "mark" \in C2B!Labels
    BY DEF C2B!Labels
  <2> HIDE DEF Concluded
  <2>4. QED
    BY <1>1, <1>2, <1>3, <1>4, <2>1, <2>2, <2>3, C2BMoveKeepsInv DEF Settling
<1>5. CASE C2B!Conclude(s, "DISAGREEMENT")
  BY <1>4, <1>5 DEF C2B!EventStatuses
<1>6. CASE C2B!Payable(b) /\ C2B!Goto(s, "create") /\ UNCHANGED c2bTask
  <2>1. c2bPc' = [c2bPc EXCEPT ![s] = "create"] /\ c2bTask' = [c2bTask EXCEPT ![s] = c2bTask[s]]
    BY <1>6 DEF C2B!Goto, C2BInv, C2B!C2BTypeOK
  <2>2. "create" \in C2B!Labels /\ PayerOf[b] # None
    BY <1>6 DEF C2B!Labels, C2B!Payable
  <2>3. QED
    BY <1>1, <1>2, <1>3, <2>1, <2>2, C2BMoveKeepsInv DEF Settling
<1>7. ASSUME NEW c \in C2B!Open(PayerOf[b]), C2B!Passes(c, b), C2B!Conclude(s, "PROCESSED")
      PROVE  C2BInv'
  <2>1. Credited(b)
    BY <1>7 DEF C2B!Open, C2B!Passes, Credited, C2BInv, PendingHasNoBy
  <2>2. QED
    BY <1>4, <1>7, <2>1 DEF C2B!EventStatuses
<1>8. ASSUME NEW c \in C2B!Open(PayerOf[b]), paid[c].amount = PaidBy[b],
             c2bTask' = [c2bTask EXCEPT ![s].contribution = c], C2B!Goto(s, "confirm")
      PROVE  C2BInv'
  <2> DEFINE t == [c2bTask[s] EXCEPT !.contribution = c]
  <2>1. /\ c \in Records /\ paid[c] # None
        /\ paid[c].member = PayerOf[b] /\ paid[c].amount = PaidBy[b]
    BY <1>8 DEF C2B!Open
  <2>2. t \in C2B!Tasks /\ t.body = b /\ t.kind = c2bTask[s].kind /\ t.contribution = c
    BY <1>1, <2>1 DEF C2B!Tasks
  <2>3. c2bPc' = [c2bPc EXCEPT ![s] = "confirm"] /\ c2bTask' = [c2bTask EXCEPT ![s] = t]
    BY <1>8 DEF C2B!Goto
  <2>4. "confirm" \in C2B!Labels
    BY DEF C2B!Labels
  <2> HIDE DEF t
  <2>5. QED
    BY <1>1, <1>2, <1>3, <2>1, <2>2, <2>3, <2>4, C2BMoveKeepsInv DEF Settling
<1>9. QED
  BY <1>5, <1>6, <1>7, <1>8 DEF C2B!Find

(* A session that gives up with a disagreement.                            *)
LEMMA C2BDisagreeKeepsInv ==
  ASSUME C2B!C2BAssumption, C2BInv, NEW s \in Sessions, c2bPc[s] \in Settling,
         C2B!Conclude(s, "DISAGREEMENT"), UNCHANGED <<active, member, inbox, paid>>
  PROVE  C2BInv'
<1> DEFINE t == [c2bTask[s] EXCEPT !.status = "DISAGREEMENT"]
<1>1. c2bTask[s] \in C2B!Tasks
  BY DEF C2BInv, C2BTasksInFlight, Settling
<1>2. /\ t \in C2B!Tasks /\ t.body = c2bTask[s].body /\ t.kind = c2bTask[s].kind
      /\ t.status = "DISAGREEMENT"
  BY <1>1 DEF C2B!Tasks, C2B!EventStatuses
<1>3. c2bPc' = [c2bPc EXCEPT ![s] = "mark"] /\ c2bTask' = [c2bTask EXCEPT ![s] = t]
  BY DEF C2B!Conclude, C2B!Goto
<1>4. "mark" \in C2B!Labels /\ active' \in BOOLEAN /\ member' \in [Payers -> BOOLEAN]
  BY DEF C2B!Labels, C2BInv, C2B!C2BTypeOK
<1> HIDE DEF t
<1>5. QED
  BY <1>2, <1>3, <1>4, C2BMoveKeepsInv DEF Settling

LEMMA C2BCreateKeepsInv ==
  ASSUME C2B!C2BAssumption, C2BInv, NEW s \in Sessions, C2B!Create(s)
  PROVE  C2BInv'
<1> DEFINE b == c2bTask[s].body
           r0 == [member |-> PayerOf[b], amount |-> PaidBy[b],
                   status |-> "CONFIRMED", by |-> b]
<1>1. c2bPc[s] = "create" /\ c2bPc[s] \in Settling /\ c2bTask[s] \in C2B!Tasks /\ b \in Bodies
  BY DEF C2B!Create, C2BInv, C2BTasksInFlight, C2B!Tasks, Settling
<1>2. UNCHANGED <<active, member, inbox>>
  BY DEF C2B!Create
<1>3. CASE C2B!Conclude(s, "DISAGREEMENT") /\ UNCHANGED paid
  BY <1>1, <1>2, <1>3, C2BDisagreeKeepsInv
<1>4. ASSUME NEW c \in Records, paid[c] = None,
             paid' = [paid EXCEPT ![c] = r0], C2B!Conclude(s, "PROCESSED")
      PROVE  C2BInv'
  <2>1. PayerOf[b] \in Payers
    BY <1>1 DEF C2B!C2BAssumption, C2BInv, CreatorsHaveMember
  <2>2. /\ r0 \in C2B!ContributionRows /\ r0.status = "CONFIRMED" /\ r0.by = b
        /\ r0.member = PayerOf[b] /\ r0.amount = PaidBy[b]
    BY <1>1, <2>1 DEF C2B!C2BAssumption, C2B!ContributionRows
  <2> HIDE DEF r0
  <2>3. QED
    BY <1>1, <1>2, <1>4, <2>2, C2BCreditKeepsInv
<1>5. QED
  BY <1>3, <1>4 DEF C2B!Create

LEMMA C2BConfirmFoundKeepsInv ==
  ASSUME C2B!C2BAssumption, C2BInv, NEW s \in Sessions, C2B!ConfirmFound(s)
  PROVE  C2BInv'
<1> DEFINE b == c2bTask[s].body
           c == c2bTask[s].contribution
           r0 == [paid[c] EXCEPT !.status = "CONFIRMED", !.by = b]
<1>1. c2bPc[s] = "confirm" /\ c2bPc[s] \in Settling /\ c2bTask[s] \in C2B!Tasks /\ b \in Bodies
  BY DEF C2B!ConfirmFound, C2BInv, C2BTasksInFlight, C2B!Tasks, Settling
<1>2. UNCHANGED <<active, member, inbox>>
  BY DEF C2B!ConfirmFound
<1>3. CASE C2B!Conclude(s, "DISAGREEMENT") /\ UNCHANGED paid
  BY <1>1, <1>2, <1>3, C2BDisagreeKeepsInv
<1>4. CASE /\ paid[c].by = None
           /\ paid' = [paid EXCEPT ![c].status = "CONFIRMED", ![c].by = b]
           /\ C2B!Conclude(s, "PROCESSED")
  <2>1. /\ c \in Records /\ paid[c] # None
        /\ paid[c].member = PayerOf[b] /\ paid[c].amount = PaidBy[b]
    BY <1>1 DEF C2BInv, FoundIsThere
  <2>2. paid[c] \in C2B!ContributionRows
    BY <2>1 DEF C2BInv, C2B!C2BTypeOK
  <2>3. /\ r0 \in C2B!ContributionRows /\ r0.status = "CONFIRMED" /\ r0.by = b
        /\ r0.member = paid[c].member /\ r0.amount = paid[c].amount
    BY <1>1, <2>2 DEF C2B!ContributionRows
  <2>4. paid' = [paid EXCEPT ![c] = r0]
    BY <1>4, <2>1 DEF C2BInv, C2B!C2BTypeOK
  <2>5. paid[c].by = None /\ C2B!Conclude(s, "PROCESSED")
    BY <1>4
  <2> HIDE DEF r0, c
  <2>6. QED
    BY <1>1, <1>2, <2>1, <2>3, <2>4, <2>5, C2BCreditKeepsInv
<1>5. QED
  BY <1>3, <1>4 DEF C2B!ConfirmFound

(* One contribution is written by hand, confirmed by no payment.           *)
LEMMA C2BOneByHandKeepsInv ==
  ASSUME C2B!C2BAssumption, C2BInv, UNCHANGED <<active, member, inbox, c2bPc, c2bTask>>,
         NEW c \in Records, NEW r0 \in C2B!ContributionRows,
         paid' = [paid EXCEPT ![c] = r0],
         paid[c] = None => r0.by \notin Bodies,
         paid[c] # None =>
           /\ r0.member = paid[c].member /\ r0.amount = paid[c].amount
           /\ paid[c].by # None => r0.by = paid[c].by
           /\ paid[c].by = None => r0.by \notin Bodies,
         r0.status = "PENDING" <=> r0.by = None
  PROVE  C2BInv'
<1>1. r0 # None
  BY DEF C2B!C2BAssumption
<1>2. /\ paid'[c] = r0
      /\ \A d \in Records \ {c} : paid'[d] = paid[d]
      /\ paid' \in [Records -> C2B!ContributionRows \cup {None}]
  BY DEF C2BInv, C2B!C2BTypeOK
<1>3. C2BGrows
  BY <1>1, <1>2 DEF C2BGrows
<1>4. \A d \in Records :
        paid'[d] # None /\ paid'[d].by \in Bodies =>
          paid[d] # None /\ paid[d].by = paid'[d].by
  BY <1>2
<1>5. PendingHasNoBy'
  BY <1>1, <1>2 DEF PendingHasNoBy, C2BInv
<1>6. QED
  BY <1>2, <1>3, <1>4, <1>5, C2BByHandKeepsInv

LEMMA C2BHandsKeepInv ==
  ASSUME C2B!C2BAssumption, C2BInv, NEW c \in Records,
         \/ \E m \in Payers, a \in C2B!Amounts : C2B!Record(c, m, a)
         \/ C2B!ConfirmByHand(c)
         \/ C2B!Reverse(c)
  PROVE  C2BInv'
<1>1. paid[c] # None => paid[c] \in C2B!ContributionRows
  BY DEF C2BInv, C2B!C2BTypeOK
<1>2. ASSUME NEW m \in Payers, NEW a \in C2B!Amounts, C2B!Record(c, m, a)
      PROVE  C2BInv'
  <2> DEFINE r0 == [member |-> m, amount |-> a, status |-> "PENDING", by |-> None]
  <2>1. a \in Int /\ None \notin Bodies
    BY DEF C2B!Amounts, C2B!C2BAssumption
  <2>2. r0 \in C2B!ContributionRows /\ r0.status = "PENDING" /\ r0.by = None
    BY <2>1 DEF C2B!ContributionRows
  <2>3. /\ paid' = [paid EXCEPT ![c] = r0] /\ paid[c] = None
        /\ UNCHANGED <<active, member, inbox, c2bPc, c2bTask>>
    BY <1>2 DEF C2B!Record
  <2> HIDE DEF r0
  <2>4. QED
    BY <2>1, <2>2, <2>3, C2BOneByHandKeepsInv
<1>3. CASE C2B!ConfirmByHand(c)
  <2> DEFINE r0 == [paid[c] EXCEPT !.status = "CONFIRMED", !.by = "manual"]
  <2>1. /\ paid[c] # None /\ paid[c].by = None
        /\ UNCHANGED <<active, member, inbox, c2bPc, c2bTask>>
    BY <1>3 DEF C2B!ConfirmByHand, C2BInv, PendingHasNoBy
  <2>2. /\ r0 \in C2B!ContributionRows /\ r0.status = "CONFIRMED" /\ r0.by = "manual"
        /\ r0.member = paid[c].member /\ r0.amount = paid[c].amount
    BY <1>1, <2>1 DEF C2B!ContributionRows
  <2>3. paid' = [paid EXCEPT ![c] = r0]
    BY <1>3 DEF C2B!ConfirmByHand, C2BInv, C2B!C2BTypeOK
  <2>4. "manual" \notin Bodies /\ "manual" # None
    BY DEF C2B!C2BAssumption
  <2> HIDE DEF r0
  <2>5. QED
    BY <2>1, <2>2, <2>3, <2>4, C2BOneByHandKeepsInv
<1>4. CASE C2B!Reverse(c)
  <2> DEFINE r0 == [paid[c] EXCEPT !.status = "REVERSED"]
  <2>1. /\ paid[c] # None /\ paid[c].by # None
        /\ UNCHANGED <<active, member, inbox, c2bPc, c2bTask>>
    BY <1>4 DEF C2B!Reverse, C2BInv, PendingHasNoBy
  <2>2. /\ r0 \in C2B!ContributionRows /\ r0.status = "REVERSED" /\ r0.by = paid[c].by
        /\ r0.member = paid[c].member /\ r0.amount = paid[c].amount
    BY <1>1, <2>1 DEF C2B!ContributionRows
  <2>3. paid' = [paid EXCEPT ![c] = r0]
    BY <1>4 DEF C2B!Reverse, C2BInv, C2B!C2BTypeOK
  <2> HIDE DEF r0
  <2>4. QED
    BY <2>1, <2>2, <2>3, C2BOneByHandKeepsInv
<1>5. QED
  BY <1>2, <1>3, <1>4

(* The connection, a membership, or nothing changes.                       *)
LEMMA C2BBindingKeepsInv ==
  ASSUME C2BInv, UNCHANGED <<inbox, paid, c2bPc, c2bTask>>,
         active' \in BOOLEAN, member' \in [Payers -> BOOLEAN]
  PROVE  C2BInv'
<1> USE DEF C2BInv
<1>1. C2B!C2BTypeOK'
  BY DEF C2B!C2BTypeOK
<1>2. C2BTasksInFlight' /\ InsertersHaveVerdict' /\ SettlersStoredIt' /\ NotYetCredited'
      /\ CreatorsHaveMember' /\ FoundIsThere'
  BY DEF C2BTasksInFlight, InsertersHaveVerdict, SettlersStoredIt, NotYetCredited,
         CreatorsHaveMember, FoundIsThere
<1>3. CreditsHaveEvents' /\ OneCredit' /\ PendingHasNoBy'
  BY DEF CreditsHaveEvents, OneCredit, PendingHasNoBy
<1>4. MarkedIsCredited' /\ C2B!ProcessedIsCredited'
  BY DEF MarkedIsCredited, C2B!ProcessedIsCredited, Credited
<1>5. QED
  BY <1>1, <1>2, <1>3, <1>4

LEMMA C2BCrashKeepsInv ==
  ASSUME C2B!C2BAssumption, C2BInv, NEW s \in Sessions, C2B!Crash(s)
  PROVE  C2BInv'
<1>1. /\ c2bPc' = [c2bPc EXCEPT ![s] = "idle"] /\ c2bTask' = [c2bTask EXCEPT ![s] = None]
      /\ UNCHANGED <<active, member, inbox, paid>>
  BY DEF C2B!Crash, C2B!Finish, C2B!Goto, C2B!Rows
<1>2. "idle" \in C2B!Labels /\ active' \in BOOLEAN /\ member' \in [Payers -> BOOLEAN]
  BY <1>1 DEF C2B!Labels, C2BInv, C2B!C2BTypeOK
<1>3. QED
  BY <1>1, <1>2, C2BMoveKeepsInv DEF Settling

LEMMA C2BStepKeepsInv ==
  ASSUME C2B!C2BAssumption, C2BInv, [C2B!Next]_(C2B!vars)
  PROVE  C2BInv'
<1>1. ASSUME NEW s \in Sessions,
             \/ \E k \in Callbacks : C2B!Deliver(s, k[1], k[2])
             \/ C2B!InsertEvent(s) \/ C2B!Find(s) \/ C2B!Create(s) \/ C2B!ConfirmFound(s)
             \/ C2B!Mark(s) \/ C2B!Crash(s)
      PROVE  C2BInv'
  BY <1>1, C2BDeliverKeepsInv, C2BInsertEventKeepsInv, C2BFindKeepsInv, C2BCreateKeepsInv,
     C2BConfirmFoundKeepsInv, C2BMarkKeepsInv, C2BCrashKeepsInv
<1>2. CASE C2B!SetConnection
  BY <1>2, C2BBindingKeepsInv DEF C2B!SetConnection, C2BInv, C2B!C2BTypeOK
<1>3. ASSUME NEW m \in Payers, C2B!SetMember(m)
      PROVE  C2BInv'
  BY <1>3, C2BBindingKeepsInv DEF C2B!SetMember, C2BInv, C2B!C2BTypeOK
<1>4. CASE UNCHANGED C2B!vars
  BY <1>4, C2BBindingKeepsInv DEF C2B!vars, C2BInv, C2B!C2BTypeOK
<1>5. QED
  BY <1>1, <1>2, <1>3, <1>4, C2BHandsKeepInv DEF C2B!Next

(* One contribution at most is a set of at most one element.               *)
LEMMA C2BInvMeansCredited ==
  ASSUME C2BInv
  PROVE  C2B!PaybillIsCredited
<1>1. ASSUME NEW t \in Trans
      PROVE  Cardinality({c \in Records :
               paid[c] # None
               /\ paid[c].by \in {b \in Bodies : TransOf[b] = t}}) <= 1
  <2> DEFINE credits == {c \in Records :
               paid[c] # None
               /\ paid[c].by \in {b \in Bodies : TransOf[b] = t}}
  <2>1. \A c, d \in credits : c = d
    BY DEF C2BInv, OneCredit
  <2> HIDE DEF credits
  <2>2. Cardinality(credits) <= 1
    <3>1. CASE credits = {}
      BY <3>1, FS_EmptySet
    <3>2. CASE credits # {}
      <4>1. PICK c \in credits : TRUE
        BY <3>2
      <4>2. credits = {c}
        BY <2>1, <4>1
      <4>3. QED
        BY <4>2, FS_Singleton
    <3>3. QED
      BY <3>1, <3>2
  <2>3. QED
    BY <2>2 DEF credits
<1>2. QED
  BY <1>1, C2BCardinality DEF C2B!PaybillIsCredited, C2B!CreditedOnce, C2BInv

(* The inductive invariant holds in every state.                           *)
THEOREM C2BInvariance ==
  ASSUME C2B!C2BAssumption
  PROVE  C2B!Spec => []C2BInv
<1>1. C2B!Init => C2BInv
  BY C2BInitInv
<1>2. C2BInv /\ [C2B!Next]_(C2B!vars) => C2BInv'
  BY C2BStepKeepsInv
<1>3. QED
  BY <1>1, <1>2, PTL DEF C2B!Spec

(* Type correctness.                                                       *)
THEOREM C2BTypeCorrect ==
  ASSUME C2B!C2BAssumption
  PROVE  C2B!Spec => []C2B!C2BTypeOK
<1>1. C2BInv => C2B!C2BTypeOK
  BY DEF C2BInv
<1>2. QED
  BY <1>1, C2BInvariance, PTL

(* "Duplicate TransID: idempotent; no double contribution" (Developer      *)
(* Implementation Brief, 4.3), and nothing is PROCESSED that no confirmed  *)
(* contribution stands for: over any number of deliveries, in any order,   *)
(* with crashes between the transactions.                                  *)
THEOREM C2BSound ==
  ASSUME C2B!C2BAssumption
  PROVE  C2B!Spec => []C2B!PaybillIsCredited
<1>1. C2BInv => C2B!PaybillIsCredited
  BY C2BInvMeansCredited
<1>2. QED
  BY <1>1, C2BInvariance, PTL

-----------------------------------------------------------------------------
(* A behavior of the composition is one of each part: the parts that are   *)
(* not chosen stutter.                                                     *)
THEOREM PartsAreKept ==
  PartsSpec => Spec /\ Connecting!Spec /\ Limiter!Spec /\ C2B!Spec
<1>1. PartsInit => Init /\ Connecting!Init /\ Limiter!Init /\ C2B!Init
  BY DEF PartsInit
<1>2. [PartsNext]_partsVars =>
        [Next]_vars /\ [Connecting!Next]_(Connecting!vars)
        /\ [Limiter!Next]_(Limiter!vars) /\ [C2B!Next]_(C2B!vars)
  BY DEF PartsNext, PaymentsNext, ConnectionsNext, LimiterNext, C2BNext, partsVars, vars,
         connectionVars, limiterVars, c2bVars, Connecting!vars, Limiter!vars, C2B!vars
<1>3. QED
  BY <1>1, <1>2, PTL DEF PartsSpec, Spec, Connecting!Spec, Limiter!Spec, C2B!Spec

(* Types of every row, task and counter of the part that moves.            *)
THEOREM TypesCorrect == PartsSpec => []PaymentTypesOK
<1> DEFINE PartOK == part \in {"payments", "connections", "limiter", "c2b"}
<1>1. /\ PartOK /\ TypeOK /\ Connecting!ConnectionsTypeOK
      /\ Limiter!LimiterTypeOK /\ C2B!C2BTypeOK
      => PaymentTypesOK
  BY DEF PaymentTypesOK
<1>2. PartsInit => PartOK
  BY DEF PartsInit
<1>3. PartOK /\ [PartsNext]_partsVars => PartOK'
  BY DEF PartsNext, PaymentsNext, ConnectionsNext, LimiterNext, C2BNext, partsVars
<1> HIDE DEF PartOK
<1>4. PartsSpec => []PartOK
  BY <1>2, <1>3, PTL DEF PartsSpec
<1>5. QED
  BY <1>1, <1>4, PartsAreKept, TypeCorrect, ConnectionSound, LimiterSound, C2BTypeCorrect,
     PartsAssumption, PTL

(* Stored credentials can be opened, whichever replacement came last; no   *)
(* connection change is without its audit record, and no connection with   *)
(* history is deleted (app/services/payment_connection.py).                *)
THEOREM ConnectionsAlwaysSound == PartsSpec => []ConnectionsAreSound
<1>1. Connecting!ConnectionsAreSound => ConnectionsAreSound
  BY DEF ConnectionsAreSound
<1>2. QED
  BY <1>1, PartsAreKept, ConnectionSound, PartsAssumption, PTL

(* An ACTIVE connection holds credentials that have passed a validation,   *)
(* unless one overlapped with another operation on the connection.         *)
THEOREM ActiveAlwaysTested == PartsSpec => []ActiveIsTested
<1>1. Connecting!ActiveIsTested => ActiveIsTested
  BY DEF ActiveIsTested
<1>2. QED
  BY <1>1, PartsAreKept, ConnectionSound, PartsAssumption, PTL

(* A key is granted no more than its budget in a window, unless a thread   *)
(* was overtaken between the clock and the lock (app/core/ratelimit.py).   *)
THEOREM BudgetAlwaysKept == PartsSpec => []BudgetIsKept
<1>1. Limiter!BudgetIsKept => BudgetIsKept
  BY DEF BudgetIsKept
<1>2. QED
  BY <1>1, PartsAreKept, LimiterSound, PartsAssumption, PTL

(* One TransID confirms one contribution at most, and an event that says   *)
(* PROCESSED has its contribution (app/services/c2b_payment.py).           *)
THEOREM PaybillAlwaysCredited == PartsSpec => []PaybillIsCredited
<1>1. C2B!PaybillIsCredited => PaybillIsCredited
  BY DEF PaybillIsCredited
<1>2. QED
  BY <1>1, PartsAreKept, C2BSound, PartsAssumption, PTL
=============================================================================
