----------------------- MODULE PaymentsAndConnections -----------------------
(***************************************************************************)
(* Payments and what a request for a payment meets on its way: the         *)
(* connection to the provider (Connections) and the rate limit             *)
(* (RateLimiter); and payments that members make by themselves             *)
(* (C2BPayments).  They do not call each other at this level: each         *)
(* behavior is one of a single part, chosen at the start, so that the      *)
(* states of the parts add up and do not multiply.                         *)
(***************************************************************************)
EXTENDS Payments

CONSTANTS
  ConnectionIds, Slots, Caching, ConsumerKeys, Secrets, Genuine,
  MaxVersion, MaxKey, Gone,                          \* of Connections
  Keys, MaxRequests, Window, MaxTime,                \* of RateLimiter
  Trans, Bodies, TransOf, PayerOf, PaidBy, Callbacks,
  Payers, Records                                    \* of C2BPayments

VARIABLES
  part,
  row, history, audited, key, tokens, passed, connectionOverlap, connectionPc, connectionTask,
  clock, counts, read, granted, forgot, late,
  active, member, inbox, paid, c2bPc, c2bTask

connectionVars == <<row, history, audited, key, tokens, passed, connectionOverlap,
                    connectionPc, connectionTask>>
limiterVars == <<clock, counts, read, granted, forgot, late>>
c2bVars == <<active, member, inbox, paid, c2bPc, c2bTask>>

Connecting == INSTANCE Connections WITH
  Connections <- ConnectionIds,
  overlap <- connectionOverlap, pc <- connectionPc, task <- connectionTask

Limiter == INSTANCE RateLimiter WITH Threads <- Sessions

C2B == INSTANCE C2BPayments WITH
  MemberOf <- PayerOf, AmountOf <- PaidBy, Matching <- Bodies, Members <- Payers,
  Contributions <- Records, connection <- active, event <- inbox,
  contribution <- paid, pc <- c2bPc, task <- c2bTask

ASSUME PartsAssumption ==
  Connecting!ConnectionAssumption /\ Limiter!LimiterAssumption /\ C2B!C2BAssumption

PartsInit ==
  /\ part \in {"payments", "connections", "limiter", "c2b"}
  /\ Init
  /\ Connecting!Init
  /\ Limiter!Init
  /\ C2B!Init

PaymentsNext ==
  /\ part = "payments" /\ Next
  /\ UNCHANGED <<part, connectionVars, limiterVars, c2bVars>>

ConnectionsNext ==
  /\ part = "connections" /\ Connecting!Next
  /\ UNCHANGED <<part, vars, limiterVars, c2bVars>>

LimiterNext ==
  /\ part = "limiter" /\ Limiter!Next
  /\ UNCHANGED <<part, vars, connectionVars, c2bVars>>

C2BNext ==
  /\ part = "c2b" /\ C2B!Next
  /\ UNCHANGED <<part, vars, connectionVars, limiterVars>>

PartsNext == PaymentsNext \/ ConnectionsNext \/ LimiterNext \/ C2BNext

partsVars == <<part, vars, connectionVars, limiterVars, c2bVars>>

PartsSpec == PartsInit /\ [][PartsNext]_partsVars
-----------------------------------------------------------------------------
(* The type invariant of the part that moves.                              *)
PaymentTypesOK ==
  CASE part = "payments" -> TypeOK
    [] part = "connections" -> Connecting!ConnectionsTypeOK
    [] part = "limiter" -> Limiter!LimiterTypeOK
    [] part = "c2b" -> C2B!C2BTypeOK

(* Stored credentials can be opened, whichever replacement came last; no   *)
(* connection change is without its audit record, and no connection with   *)
(* history is deleted.                                                     *)
ConnectionsAreSound == part = "connections" => Connecting!ConnectionsAreSound

(* An ACTIVE connection holds credentials that have passed a validation.   *)
ActiveIsTested == part = "connections" => Connecting!ActiveIsTested

(* A key is granted no more than its budget in a window.                   *)
BudgetIsKept == part = "limiter" => Limiter!BudgetIsKept

(* One TransID confirms one contribution at most, and the event of a       *)
(* payment says PROCESSED only after its contribution has been confirmed.  *)
PaybillIsCredited == part = "c2b" => C2B!PaybillIsCredited
=============================================================================
