------------------------------ MODULE Payments ------------------------------
(***************************************************************************)
(* Collecting a payment from a member: intents and their attempts          *)
(* (app/services/payment_intent.py), the callback inbox                    *)
(* (app/services/payment_webhook.py) and the settlement of the linked      *)
(* contribution (app/services/settlement.py), against a provider that      *)
(* charges the member, answers status queries and delivers callbacks.      *)
(*                                                                         *)
(* Sessions do not expire what they have loaded (app/db/session.py): a     *)
(* request tests the status it loaded, talks to the provider, and later    *)
(* overwrites the row by id.  What stands in its way is the unique number  *)
(* of an attempt within its intent and the unique event of a charge.       *)
(*                                                                         *)
(* The provider is consistent: a charge has one outcome, and callbacks and *)
(* queries of it tell no other.  Settlement is one step, because a request *)
(* that settles what another has settled since it looked fails and is      *)
(* rolled back (Contributions).  Left out: authorization, connections and  *)
(* credentials, rate limits, and callbacks that cannot be read, which name *)
(* no event.                                                               *)
(***************************************************************************)
EXTENDS Naturals, Sequences, FiniteSets

CONSTANTS
  Sessions,
  Intents,      \* idempotency keys: create makes one intent of each
  Charges,      \* the provider's request ids
  MaxAttempts,  \* payment_attempt_max_retries + 1
  Provider,     \* the provider of the connection: DARAJA or JENGA
  Contents,     \* the outcomes callbacks may tell, see Payloads
  None

EventStatuses == {"RECEIVED", "PROCESSED", "DEDUPLICATED", "UNPROCESSABLE", "DISAGREEMENT"}
CallbackContents == {"SUCCEEDED", "FAILED", "MISMATCHED", "PENDING"}
EventRows == [payload : CallbackContents, status : EventStatuses]
ChargeStates == [intent : Intents, state : {"OPEN", "PAID", "REFUSED"}]

ASSUME PaymentAssumption ==
  /\ None \notin Sessions \cup Intents \cup Charges \cup EventRows \cup ChargeStates
  /\ MaxAttempts \in Nat \ {0}
  /\ Provider \in {"DARAJA", "JENGA"}
  /\ Contents \subseteq CallbackContents

VARIABLES
  intent,       \* payment_intents.status, "ABSENT" when there is no row
  attempts,     \* attempts[i]: the attempts of i by their number
  contribution, \* contributions.status of the contribution all intents link to
  event,        \* event[q]: the payment_events row of charge q, or None
  charge,       \* the provider: charge[q] is the charge it made, or None
  pc,           \* where each session is
  task          \* what it has loaded and learnt

vars == <<intent, attempts, contribution, event, charge, pc, task>>

Rows == <<intent, attempts, contribution, event>>

IntentStatuses == {"ABSENT", "PENDING", "PROCESSING", "SUCCEEDED", "FAILED"}

Attempt(status, retryable, request) ==
  [status |-> status, retryable |-> retryable, request |-> request]

Init ==
  /\ intent = [i \in Intents |-> "ABSENT"]
  /\ attempts = [i \in Intents |-> << >>]
  /\ contribution = "PENDING"
  /\ event = [q \in Charges |-> None]
  /\ charge = [q \in Charges |-> None]
  /\ pc = [s \in Sessions |-> "idle"]
  /\ task = [s \in Sessions |-> None]

Goto(s, label) == pc' = [pc EXCEPT ![s] = label]

Learn(s, knowledge, label) ==
  /\ task' = [task EXCEPT ![s] = knowledge]
  /\ Goto(s, label)

(* The request ends, answered, refused or failed: what it has not          *)
(* committed is rolled back.                                               *)
Finish(s) == Learn(s, None, "idle")

Refuse(s) == Finish(s) /\ UNCHANGED <<Rows, charge>>

(* create: one intent per key (uq_payment_intents_chama_key), linked to a  *)
(* contribution that is PENDING.                                           *)
Create(i) ==
  /\ intent[i] = "ABSENT"
  /\ contribution = "PENDING"
  /\ intent' = [intent EXCEPT ![i] = "PENDING"]
  /\ UNCHANGED <<attempts, contribution, event, charge, pc, task>>

(***************************************************************************)
(* initiate                                                                *)
(***************************************************************************)

(* A finished intent is refused or answered with its last attempt.         *)
LoadIntent(s, i) ==
  /\ pc[s] = "idle"
  /\ intent[i] \in {"PENDING", "PROCESSING"}
  /\ Learn(s, [intent |-> i, seen |-> intent[i], number |-> 0,
               attempt |-> None, charge |-> None, payload |-> None], "attempts")
  /\ UNCHANGED <<Rows, charge>>

(* Bug: only attempts the provider has accepted are taken as ambiguous.    *)
AmbiguousIfAccepted(attempt) == attempt.status = "INITIATED"

Ambiguous(attempt) == attempt.status \in {"INITIATED", "TIMEOUT"}

(* Where the last attempt leads: without a request id there is nothing to  *)
(* query, and the attempt is returned as it is.                            *)
LoadAttempts(s) ==
  LET i == task[s].intent
      n == Len(attempts[i]) IN
  /\ pc[s] = "attempts"
  /\ \/ /\ n = 0
        /\ task[s].seen = "PENDING"
        /\ Goto(s, "begin") /\ UNCHANGED task
     \/ /\ n = 0 /\ task[s].seen # "PENDING"
        /\ Finish(s)
     \/ /\ n > 0
        /\ LET last == attempts[i][n]
               loaded == [task[s] EXCEPT !.number = n, !.attempt = last] IN
           \/ Ambiguous(last) /\ last.request # None /\ Learn(s, loaded, "query")
           \/ Ambiguous(last) /\ last.request = None /\ Finish(s)
           \/ last.status = "SUCCEEDED" /\ Finish(s)
           \/ ~ Ambiguous(last) /\ last.status # "SUCCEEDED" /\ Learn(s, loaded, "decide")
  /\ UNCHANGED <<Rows, charge>>

(* The first attempt: PROCESSING is committed before the provider is asked.*)
BeginProcessing(s) ==
  /\ pc[s] = "begin"
  /\ intent' = [intent EXCEPT ![task[s].intent] = "PROCESSING"]
  /\ Learn(s, [task[s] EXCEPT !.seen = "PROCESSING"], "call")
  /\ UNCHANGED <<attempts, contribution, event, charge>>

(* What comes of asking the provider: it accepts, with an id of the request *)
(* or without; it does not answer in time, the connection breaks, or the    *)
(* answer is not JSON; it rejects the request, or the credentials; or the   *)
(* adapter refuses the amount, the phone or the signing key.                *)
IfCharged == {"accepted", "unnamed", "timeout", "unreachable", "malformed"}
IfNotCharged == {"timeout", "unreachable", "malformed", "rejected", "no token", "invalid"}

(* DarajaAdapter.create_payment_attempt, and what _create_attempt makes of  *)
(* it; without a CheckoutRequestID nothing was accepted.                    *)
DarajaAttempt(response, q) ==
  CASE response = "accepted" -> Attempt("INITIATED", FALSE, q)
    [] response = "timeout"  -> Attempt("TIMEOUT", TRUE, None)
    [] response \in {"unreachable", "malformed"} -> Attempt("FAILED", TRUE, None)
    [] OTHER -> Attempt("FAILED", FALSE, None)

(* JengaAdapter.create_payment_attempt: the order is known by the client    *)
(* reference when the response does not name it.                            *)
JengaAttempt(response, q) ==
  CASE response \in {"accepted", "unnamed"} -> Attempt("INITIATED", FALSE, q)
    [] response = "timeout" -> Attempt("TIMEOUT", TRUE, None)
    [] response \in {"unreachable", "malformed"} -> Attempt("FAILED", TRUE, None)
    [] OTHER -> Attempt("FAILED", FALSE, None)

Answered(response, q) ==
  IF Provider = "DARAJA" THEN DarajaAttempt(response, q) ELSE JengaAttempt(response, q)

(* _create_attempt, the provider call.                                     *)
Call(s) ==
  LET learn(attempt) ==
        Learn(s, [task[s] EXCEPT !.number = @ + 1, !.attempt = attempt], "insert") IN
  /\ pc[s] = "call"
  /\ \/ \E q \in Charges, response \in IfCharged :
          /\ charge[q] = None
          /\ charge' = [charge EXCEPT ![q] = [intent |-> task[s].intent, state |-> "OPEN"]]
          /\ learn(Answered(response, q))
     \/ \E response \in IfNotCharged :
          /\ learn(Answered(response, None))
          /\ UNCHANGED charge
  /\ UNCHANGED Rows

(* _create_attempt, the insert: another request may have taken the number. *)
InsertAttempt(s) ==
  LET i == task[s].intent
      new == task[s].attempt IN
  /\ pc[s] = "insert"
  /\ IF Len(attempts[i]) >= task[s].number
     THEN UNCHANGED <<intent, attempts>>
     ELSE /\ attempts' = [attempts EXCEPT ![i] = Append(@, new)]
          /\ intent' = IF new.status = "INITIATED" /\ task[s].seen = "PENDING"
                       THEN [intent EXCEPT ![i] = "PROCESSING"]
                       ELSE IF new.status = "FAILED" /\ ~ new.retryable
                               /\ task[s].seen = "PROCESSING"
                       THEN [intent EXCEPT ![i] = "FAILED"]
                       ELSE intent
  /\ Finish(s)
  /\ UNCHANGED <<contribution, event, charge>>

(* What the provider may answer to a query: the result code of a charge    *)
(* that is over, the code of a timeout, or an error without a code (busy,  *)
(* still processing, token expired).                                       *)
Answers(q) ==
  {"timeout", "error"} \cup (CASE charge[q].state = "PAID"    -> {"success"}
                               [] charge[q].state = "REFUSED" -> {"failure"}
                               [] OTHER -> {})

(* DarajaAdapter.query_payment_status: an answer without a result code is  *)
(* a failure.                                                              *)
DarajaStatus(answer) ==
  CASE answer = "success" -> "SUCCEEDED"
    [] answer = "timeout" -> "UNKNOWN"
    [] OTHER -> "FAILED"

(* JengaAdapter.query_payment_status and normalize_provider_status         *)
JengaStatus(answer) ==
  CASE answer = "success" -> "SUCCEEDED"
    [] answer = "failure" -> "FAILED"
    [] OTHER -> "UNKNOWN"

Normalized(answer) ==
  IF Provider = "DARAJA" THEN DarajaStatus(answer) ELSE JengaStatus(answer)

(* _query_and_resolve: no answer (ProviderIntegrationError) and UNKNOWN    *)
(* leave everything as it is.                                              *)
Query(s) ==
  /\ pc[s] = "query"
  /\ \/ \E answer \in Answers(task[s].attempt.request) :
          \/ Normalized(answer) = "SUCCEEDED" /\ Goto(s, "succeed") /\ UNCHANGED task
          \/ Normalized(answer) = "FAILED" /\ Goto(s, "fail") /\ UNCHANGED task
          \/ Normalized(answer) = "UNKNOWN" /\ Finish(s)
     \/ Finish(s)
  /\ UNCHANGED <<Rows, charge>>

SetAttempt(i, n, status) == attempts' = [attempts EXCEPT ![i][n].status = status]

(* The intent follows the attempt if it was PROCESSING when it was loaded. *)
FollowIntent(s, status) ==
  intent' = IF task[s].seen = "PROCESSING"
            THEN [intent EXCEPT ![task[s].intent] = status]
            ELSE intent

(* settle_linked_contribution                                              *)
Settle ==
  /\ contribution # "REVERSED"
  /\ contribution' = "CONFIRMED"

(* Bug: the status query leaves the contribution for the callback.         *)
ResolveSuccessUnsettled(s) ==
  /\ pc[s] = "succeed"
  /\ SetAttempt(task[s].intent, task[s].number, "SUCCEEDED")
  /\ FollowIntent(s, "SUCCEEDED")
  /\ Finish(s)
  /\ UNCHANGED <<contribution, event, charge>>

(* _resolve_attempt_success: attempt, intent and settlement in one commit. *)
ResolveSuccess(s) ==
  /\ pc[s] = "succeed"
  /\ Settle
  /\ SetAttempt(task[s].intent, task[s].number, "SUCCEEDED")
  /\ FollowIntent(s, "SUCCEEDED")
  /\ Finish(s)
  /\ UNCHANGED <<event, charge>>

(* The contribution has been reversed: StateError, nothing is committed.   *)
ResolveReversed(s) ==
  /\ pc[s] = "succeed"
  /\ contribution = "REVERSED"
  /\ Refuse(s)

(* _resolve_attempt_failure: no failure code of a query is permanent.      *)
ResolveFailure(s) ==
  LET failed == [task[s].attempt EXCEPT !.status = "FAILED", !.retryable = TRUE] IN
  /\ pc[s] = "fail"
  /\ attempts' = [attempts EXCEPT ![task[s].intent][task[s].number] = failed]
  /\ Learn(s, [task[s] EXCEPT !.attempt = failed], "decide")
  /\ UNCHANGED <<intent, contribution, event, charge>>

(* Bug: the attempts are not counted.                                      *)
MayRetryForever(s) == task[s].attempt.retryable

MayRetry(s) == task[s].number < MaxAttempts /\ task[s].attempt.retryable

(* After a failed attempt: the next one, or the intent has failed.         *)
Decide(s) ==
  /\ pc[s] = "decide"
  /\ \/ MayRetry(s) /\ Goto(s, "call") /\ UNCHANGED <<intent, task>>
     \/ ~ MayRetry(s) /\ FollowIntent(s, "FAILED") /\ Finish(s)
  /\ UNCHANGED <<attempts, contribution, event, charge>>

(* list_intents: an intent left PROCESSING by a definitive rejection ...   *)
LoadList(s, i) ==
  LET n == Len(attempts[i]) IN
  /\ pc[s] = "idle"
  /\ intent[i] = "PROCESSING"
  /\ n > 0 /\ attempts[i][n].status = "FAILED" /\ ~ attempts[i][n].retryable
  /\ Learn(s, [intent |-> i, seen |-> "PROCESSING", number |-> n,
               attempt |-> attempts[i][n], charge |-> None, payload |-> None], "repair")
  /\ UNCHANGED <<Rows, charge>>

(* ... is repaired on read.                                                *)
Repair(s) ==
  /\ pc[s] = "repair"
  /\ FollowIntent(s, "FAILED")
  /\ Finish(s)
  /\ UNCHANGED <<attempts, contribution, event, charge>>

(***************************************************************************)
(* handle                                                                  *)
(***************************************************************************)

(* What a callback of a charge that is over may say; the amount in it may  *)
(* be wrong.                                                               *)
Outcomes(q) ==
  CASE charge[q].state = "PAID"    -> {"SUCCEEDED", "MISMATCHED"}
    [] charge[q].state = "REFUSED" -> {"FAILED"}
    [] OTHER -> {}

(* parse_callback: only Jenga's callbacks may tell that a charge is open.  *)
DarajaPayloads(q) == Outcomes(q)
JengaPayloads(q) == Outcomes(q) \cup (IF charge[q].state = "OPEN" THEN {"PENDING"} ELSE {})

Payloads(q) == IF Provider = "DARAJA" THEN DarajaPayloads(q) ELSE JengaPayloads(q)

SetEvent(q, status) == event' = [event EXCEPT ![q].status = status]

(* Bug: whatever is stored is a duplicate.                                 *)
DropDuplicate(s, q, payload, knowledge) ==
  /\ SetEvent(q, IF event[q].payload # payload THEN "DISAGREEMENT" ELSE "DEDUPLICATED")
  /\ Finish(s)

(* _resolve_duplicate: another payload is a disagreement; an event that is *)
(* still RECEIVED is taken up again.                                       *)
ResolveDuplicate(s, q, payload, knowledge) ==
  \/ /\ event[q].payload # payload
     /\ SetEvent(q, "DISAGREEMENT") /\ Finish(s)
  \/ /\ event[q].payload = payload /\ event[q].status = "RECEIVED"
     /\ Learn(s, knowledge, "find") /\ UNCHANGED event
  \/ /\ event[q].payload = payload /\ event[q].status # "RECEIVED"
     /\ SetEvent(q, "DEDUPLICATED") /\ Finish(s)

(* The provider delivers, and delivers again; _store_event looks it up.    *)
Deliver(s, q, payload) ==
  LET knowledge == [intent |-> charge[q].intent, seen |-> "ABSENT", number |-> 0,
                    attempt |-> None, charge |-> q, payload |-> payload] IN
  /\ pc[s] = "idle"
  /\ charge[q] # None
  /\ payload \in Payloads(q)
  /\ IF event[q] = None
     THEN Learn(s, knowledge, "store") /\ UNCHANGED event
     ELSE ResolveDuplicate(s, q, payload, knowledge)
  /\ UNCHANGED <<intent, attempts, contribution, charge>>

(* _store_event, the insert: committed as RECEIVED before it is applied;   *)
(* or another delivery has stored it since.                                *)
StoreEvent(s) ==
  LET q == task[s].charge IN
  /\ pc[s] = "store"
  /\ \/ /\ event[q] = None
        /\ event' = [event EXCEPT ![q] = [payload |-> task[s].payload, status |-> "RECEIVED"]]
        /\ Goto(s, "find") /\ UNCHANGED task
     \/ /\ event[q] # None
        /\ ResolveDuplicate(s, q, task[s].payload, task[s])
  /\ UNCHANGED <<intent, attempts, contribution, charge>>

(* Bug: the callback is bound to the last attempt of its intent.           *)
BoundToLast(i, n, q) == n = Len(attempts[i])

(* get_by_provider_request_id                                              *)
Bound(i, n, q) == attempts[i][n].request = q

(* _find_attempt, with its intent.                                         *)
FindAttempt(s) ==
  LET q == task[s].charge
      i == task[s].intent IN
  /\ pc[s] = "find"
  /\ \/ \E n \in 1..Len(attempts[i]) :
          /\ Bound(i, n, q)
          /\ Learn(s, [task[s] EXCEPT !.number = n, !.attempt = attempts[i][n],
                                      !.seen = intent[i]], "apply")
          /\ UNCHANGED event
     \/ /\ \A n \in 1..Len(attempts[i]) : ~ Bound(i, n, q)
        /\ SetEvent(q, "UNPROCESSABLE")
        /\ Finish(s)
  /\ UNCHANGED <<intent, attempts, contribution, charge>>

(* _apply_callback, when there is nothing to apply: the amount is wrong,   *)
(* the outcome is not known yet, or the loaded attempt is over.            *)
AcknowledgeCallback(s) ==
  LET payload == task[s].payload
      current == task[s].attempt.status
      answer == CASE payload = "MISMATCHED" -> "DISAGREEMENT"
                  [] payload = "PENDING"    -> "UNPROCESSABLE"
                  [] payload = current      -> "PROCESSED"
                  [] OTHER                  -> "DISAGREEMENT" IN
  /\ pc[s] = "apply"
  /\ payload \in {"MISMATCHED", "PENDING"} \/ ~ Ambiguous(task[s].attempt)
  /\ SetEvent(task[s].charge, answer)
  /\ Finish(s)
  /\ UNCHANGED <<intent, attempts, contribution, charge>>

(* _apply_callback, success.  A settlement commits the attempt and the     *)
(* intent with its posting, and the event is still to be marked; without   *)
(* one the event is committed with them.                                   *)
ApplySuccess(s) ==
  /\ pc[s] = "apply"
  /\ task[s].payload = "SUCCEEDED" /\ Ambiguous(task[s].attempt)
  /\ Settle
  /\ SetAttempt(task[s].intent, task[s].number, "SUCCEEDED")
  /\ FollowIntent(s, "SUCCEEDED")
  /\ IF contribution = "PENDING"
     THEN Goto(s, "mark") /\ UNCHANGED <<event, task>>
     ELSE SetEvent(task[s].charge, "PROCESSED") /\ Finish(s)
  /\ UNCHANGED charge

(* The contribution has been reversed: StateError, the event stays         *)
(* RECEIVED.                                                               *)
ApplyReversed(s) ==
  /\ pc[s] = "apply"
  /\ task[s].payload = "SUCCEEDED" /\ Ambiguous(task[s].attempt)
  /\ contribution = "REVERSED"
  /\ Refuse(s)

MarkProcessed(s) ==
  /\ pc[s] = "mark"
  /\ SetEvent(task[s].charge, "PROCESSED")
  /\ Finish(s)
  /\ UNCHANGED <<intent, attempts, contribution, charge>>

(* _apply_callback, failure: the attempt stays as retryable as it was, and *)
(* the intent follows only when no attempt is left.                        *)
ApplyFailure(s) ==
  /\ pc[s] = "apply"
  /\ task[s].payload = "FAILED" /\ Ambiguous(task[s].attempt)
  /\ SetAttempt(task[s].intent, task[s].number, "FAILED")
  /\ IF task[s].number >= MaxAttempts THEN FollowIntent(s, "FAILED") ELSE UNCHANGED intent
  /\ SetEvent(task[s].charge, "PROCESSED")
  /\ Finish(s)
  /\ UNCHANGED <<contribution, charge>>

(* The process or its connection dies.                                     *)
Crash(s) == pc[s] # "idle" /\ Refuse(s)

(* The member pays or does not.                                            *)
Conclude(q) ==
  /\ charge[q] # None
  /\ charge[q].state = "OPEN"
  /\ \E state \in {"PAID", "REFUSED"} : charge' = [charge EXCEPT ![q].state = state]
  /\ UNCHANGED <<Rows, pc, task>>

(* The contribution is confirmed by hand, or reversed (Contributions).     *)
ConfirmOrReverse ==
  /\ \/ contribution = "PENDING" /\ contribution' = "CONFIRMED"
     \/ contribution = "CONFIRMED" /\ contribution' = "REVERSED"
  /\ UNCHANGED <<intent, attempts, event, charge, pc, task>>

Start(s) ==
  \/ \E i \in Intents : LoadIntent(s, i) \/ LoadList(s, i)
  \/ \E q \in Charges, payload \in Contents : Deliver(s, q, payload)

Run(s) ==
  \/ LoadAttempts(s)
  \/ BeginProcessing(s)
  \/ Call(s)
  \/ InsertAttempt(s)
  \/ Query(s)
  \/ ResolveSuccess(s)
  \/ ResolveReversed(s)
  \/ ResolveFailure(s)
  \/ Decide(s)
  \/ Repair(s)
  \/ StoreEvent(s)
  \/ FindAttempt(s)
  \/ AcknowledgeCallback(s)
  \/ ApplySuccess(s)
  \/ ApplyReversed(s)
  \/ MarkProcessed(s)
  \/ ApplyFailure(s)

Next ==
  \/ \E i \in Intents : Create(i)
  \/ \E s \in Sessions : Start(s) \/ Run(s) \/ Crash(s)
  \/ \E q \in Charges : Conclude(q)
  \/ ConfirmOrReverse

Spec == Init /\ [][Next]_vars

(* The provider delivers a callback again as long as it is not             *)
(* acknowledged, and deliveries do not die for ever at the same place.     *)
Fairness ==
  /\ \A s \in Sessions : WF_vars(Run(s)) /\ SF_vars(FindAttempt(s)) /\ SF_vars(ApplySuccess(s))
  /\ \A q \in Charges : SF_vars(\E s \in Sessions : Deliver(s, q, "SUCCEEDED"))

FairSpec == Spec /\ Fairness
-----------------------------------------------------------------------------
Attempts ==
  [status : {"INITIATED", "TIMEOUT", "SUCCEEDED", "FAILED"}, retryable : BOOLEAN,
   request : Charges \cup {None}]

Labels == {"idle", "attempts", "begin", "call", "insert", "query", "succeed", "fail",
           "decide", "repair", "store", "find", "apply", "mark"}

Tasks ==
  [intent : Intents, seen : IntentStatuses, number : 0..MaxAttempts,
   attempt : Attempts \cup {None}, charge : Charges \cup {None},
   payload : Contents \cup {None}]

(* Type invariant; an intent has at most the configured attempts.          *)
TypeOK ==
  /\ intent \in [Intents -> IntentStatuses]
  /\ attempts \in [Intents -> Seq(Attempts)]
  /\ \A i \in Intents : Len(attempts[i]) <= MaxAttempts
  /\ contribution \in {"PENDING", "CONFIRMED", "REVERSED"}
  /\ event \in [Charges -> EventRows \cup {None}]
  /\ charge \in [Charges -> ChargeStates \cup {None}]
  /\ pc \in [Sessions -> Labels]
  /\ task \in [Sessions -> Tasks \cup {None}]

Posted == contribution # "PENDING"

(* An attempt that succeeded was paid, by the charge it made and no other; *)
(* an intent that succeeded has such a charge, whatever late requests have *)
(* written over its attempts (_find_attempt, _query_and_resolve).          *)
SuccessIsPaid ==
  \A i \in Intents :
    /\ \A n \in 1..Len(attempts[i]) :
         attempts[i][n].status = "SUCCEEDED" =>
           LET q == attempts[i][n].request IN
           q # None /\ charge[q] = [intent |-> i, state |-> "PAID"]
    /\ intent[i] = "SUCCEEDED" =>
         \E n \in 1..Len(attempts[i]) :
           LET q == attempts[i][n].request IN q # None /\ charge[q].state = "PAID"

(* ADR-019: an intent that reaches SUCCEEDED, by a query or a callback,    *)
(* has settled its contribution; so has an attempt, and a callback that    *)
(* is acknowledged as PROCESSED, also when a crash came in between.        *)
SuccessIsSettled ==
  /\ \A i \in Intents :
       /\ intent[i] = "SUCCEEDED" => Posted
       /\ \A n \in 1..Len(attempts[i]) : attempts[i][n].status = "SUCCEEDED" => Posted
  /\ \A q \in Charges :
       event[q] = [payload |-> "SUCCEEDED", status |-> "PROCESSED"] => Posted

(* "Never create a duplicate request while the outcome is unknown", as far *)
(* as the rows know: only the last attempt of an intent is open.           *)
OnlyLastAttemptIsOpen ==
  \A i \in Intents : \A n \in 1..(Len(attempts[i]) - 1) :
    attempts[i][n].status \in {"SUCCEEDED", "FAILED"}

(* "An event that was stored but crashed before callback application stays *)
(* RECEIVED; a provider redelivery resumes it": a stored success is        *)
(* settled, unless a query has failed its attempt or the provider has      *)
(* contradicted itself.                                                    *)
StoredSuccessIsSettled ==
  \A q \in Charges :
    /\ event[q] = [payload |-> "SUCCEEDED", status |-> "RECEIVED"]
    /\ \E i \in Intents : \E n \in 1..Len(attempts[i]) :
         attempts[i][n] = Attempt("INITIATED", FALSE, q)
    ~> \/ Posted
       \/ event[q] # None /\ event[q].status = "DISAGREEMENT"
       \/ \E i \in Intents : \E n \in 1..Len(attempts[i]) :
            attempts[i][n].request = q /\ attempts[i][n].status = "FAILED"

(* "Never create a duplicate request while the outcome is unknown", as the *)
(* member sees it: at most one charge of an intent is open or paid.        *)
NoDuplicateCharge ==
  \A i \in Intents :
    Cardinality({q \in Charges : /\ charge[q] # None
                                 /\ charge[q].intent = i
                                 /\ charge[q].state # "REFUSED"}) <= 1
=============================================================================
