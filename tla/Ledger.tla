------------------------------- MODULE Ledger -------------------------------
(***************************************************************************)
(* The ledger: the service that posts to it (LedgerPosting), the database  *)
(* that guards it (LedgerSchema) and its readers (LedgerReads).  The three *)
(* do not call each other at this level: each behavior is one of a single  *)
(* part, chosen at the start, so that the states of the parts add up and   *)
(* do not multiply.                                                        *)
(***************************************************************************)
EXTENDS LedgerPosting

CONSTANTS
  Sessions, LedgerRows, Amounts, MaxEntries,               \* of LedgerSchema
  Numbers, Paid, Readers, ReaderOf, PaidAmount, PageSize,  \* of LedgerReads
  MonthLength, MaxTime, End

VARIABLES
  part,
  hardened, tx, book, work, examined, legacy,
  now, open, posted, status, confirmedAt, pages, cursor, began

schemaVars == <<hardened, tx, book, work, examined, legacy>>
readVars == <<now, open, posted, status, confirmedAt, pages, cursor, began>>

DB == INSTANCE LedgerSchema WITH Ids <- LedgerRows

Reading == INSTANCE LedgerReads WITH
  Ids <- Numbers, Contributions <- Paid, Members <- Readers,
  MemberOf <- ReaderOf, AmountOf <- PaidAmount

ASSUME PartsAssumption == DB!SchemaAssumption /\ Reading!ReadsAssumption

PartsInit ==
  /\ part \in {"service", "schema", "reads"}
  /\ Init
  /\ DB!Init
  /\ Reading!Init

ServiceNext ==
  /\ part = "service" /\ Next
  /\ UNCHANGED <<part, schemaVars, readVars>>

SchemaNext ==
  /\ part = "schema" /\ DB!Next
  /\ UNCHANGED <<part, vars, readVars>>

ReadsNext ==
  /\ part = "reads" /\ Reading!Next
  /\ UNCHANGED <<part, vars, schemaVars>>

partsVars == <<part, vars, schemaVars, readVars>>

PartsSpec == PartsInit /\ [][ServiceNext \/ SchemaNext \/ ReadsNext]_partsVars
-----------------------------------------------------------------------------
(* The type invariant of the part that moves.                              *)
TypesOK ==
  CASE part = "service" -> TypeOK
    [] part = "schema" -> DB!SchemaTypeOK
    [] part = "reads" -> Reading!ReadsTypeOK

(* The database keeps a hardened ledger balanced, within its Chama and     *)
(* reversed once at most, whoever writes to it.                            *)
HardenedLedgerIsSound == part = "schema" => DB!HardenedLedgerIsSound

(* Paging through the ledger misses nothing and repeats nothing; and       *)
(* analytics, statements and the Cash account come to the same amounts.    *)
ReadersSeeTheBooks == part = "reads" => Reading!ReadersSeeTheBooks
=============================================================================
