-------------------------- MODULE LoansAndMembers --------------------------
(***************************************************************************)
(* Loans and the members who ask for and approve them: memberships and     *)
(* roles (Chamas), what a membership costs (RegistrationFees), sign-in     *)
(* (AuthSessions) and platform administration (PlatformAdmins).  They do   *)
(* not call each other at this level: each behavior is one of a single     *)
(* part, chosen at the start, so that the states of the parts add up and   *)
(* do not multiply.                                                        *)
(***************************************************************************)
EXTENDS Loans

CONSTANTS
  People, Leadership, MaxRetries,      \* of Chamas
  FeeRows, FeePayments, FeeAmountOf,   \* of RegistrationFees
  Holders, Tokens, MaxPassword,        \* of AuthSessions
  Users, Persons, Root                 \* of PlatformAdmins

VARIABLES
  part,
  chama, next, number, standing, roles, chamaOverlap, chamaPc, chamaTask,
  fee, payment, feeLedger, feePc, feeTask,
  active, password, token, authOverlap, authPc, authTask,
  enabled, mustChange, person, admin, adminOverlap, adminPc, adminTask

chamaVars == <<chama, next, number, standing, roles, chamaOverlap, chamaPc, chamaTask>>
feeVars == <<fee, payment, feeLedger, feePc, feeTask>>
authVars == <<active, password, token, authOverlap, authPc, authTask>>
adminVars == <<enabled, mustChange, person, admin, adminOverlap, adminPc, adminTask>>

Chama == INSTANCE Chamas WITH
  Members <- People, status <- standing,
  overlap <- chamaOverlap, pc <- chamaPc, task <- chamaTask

Fees == INSTANCE RegistrationFees WITH
  Fees <- FeeRows, Payments <- FeePayments, AmountOf <- FeeAmountOf,
  ledger <- feeLedger, pc <- feePc, task <- feeTask

Auth == INSTANCE AuthSessions WITH
  Users <- Holders, overlap <- authOverlap, pc <- authPc, task <- authTask

Admins == INSTANCE PlatformAdmins WITH
  active <- enabled, overlap <- adminOverlap, pc <- adminPc, task <- adminTask

ASSUME PartsAssumption ==
  /\ Chama!ChamaAssumption /\ Fees!FeeAssumption
  /\ Auth!AuthAssumption /\ Admins!AdminAssumption

PartsInit ==
  /\ part \in {"loans", "chama", "fees", "auth", "admins"}
  /\ Init
  /\ Chama!Init
  /\ Fees!Init
  /\ Auth!Init
  /\ Admins!Init

LoansNext ==
  /\ part = "loans" /\ Next
  /\ UNCHANGED <<part, chamaVars, feeVars, authVars, adminVars>>

ChamaNext ==
  /\ part = "chama" /\ Chama!Next
  /\ UNCHANGED <<part, vars, feeVars, authVars, adminVars>>

FeesNext ==
  /\ part = "fees" /\ Fees!Next
  /\ UNCHANGED <<part, vars, chamaVars, authVars, adminVars>>

AuthNext ==
  /\ part = "auth" /\ Auth!Next
  /\ UNCHANGED <<part, vars, chamaVars, feeVars, adminVars>>

AdminsNext ==
  /\ part = "admins" /\ Admins!Next
  /\ UNCHANGED <<part, vars, chamaVars, feeVars, authVars>>

PartsNext == LoansNext \/ ChamaNext \/ FeesNext \/ AuthNext \/ AdminsNext

partsVars == <<part, vars, chamaVars, feeVars, authVars, adminVars>>

PartsSpec == PartsInit /\ [][PartsNext]_partsVars
-----------------------------------------------------------------------------
(* The type invariant of the part that moves.                              *)
TypesOK ==
  CASE part = "loans" -> TypeOK
    [] part = "chama" -> Chama!ChamasTypeOK
    [] part = "fees" -> Fees!FeesTypeOK
    [] part = "auth" -> Auth!AuthTypeOK
    [] part = "admins" -> Admins!AdminsTypeOK

(* Membership numbers are 1, 2, 3 and so on, each given once; a membership *)
(* has one leadership role at most, unless two are assigned at a time.     *)
MembershipsAreSound == part = "chama" => Chama!MembershipsAreSound

(* A dissolved Chama stays dissolved, unless two administrators change its *)
(* status at the same time.                                                *)
DissolvedIsTerminal ==
  [][chama = "DISSOLVED" => chama' = "DISSOLVED" \/ "chama" \in chamaOverlap']_chamaVars

(* Registration fees: a fee that is PAID has a standing, posted payment;   *)
(* payment rows tell what the ledger holds; and no fee is collected twice  *)
(* at a time, over late waivers, racing payments and crashes.              *)
FeesMatchLedger == part = "fees" => Fees!FeesMatchLedger

(* A live refresh token goes back to a login with the password of now, and *)
(* a presented token has one successor, unless operations overlapped.      *)
SessionsAreSound == part = "auth" => Auth!SessionsAreSound

(* There is an active platform administrator, unless two removals were     *)
(* decided at the same time; an account is linked to a person of its own.  *)
AdministratorsAreSound == part = "admins" => Admins!AdministratorsAreSound
=============================================================================
