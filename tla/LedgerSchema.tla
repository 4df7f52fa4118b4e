---------------------------- MODULE LedgerSchema ----------------------------
(***************************************************************************)
(* What PostgreSQL accepts for the ledger tables of any writer, not only   *)
(* of LedgerService: the constraints of the tables (app/models/            *)
(* ledger_transaction.py, ledger_entry.py), the guard triggers             *)
(* (app/db/ledger_guards.py) and the migration that brings both to a       *)
(* database in use (alembic/versions/d1e2f3a4b5c6).                        *)
(*                                                                         *)
(* Writers run transactions of several statements, which see what is       *)
(* committed and what they wrote themselves.  The balance is examined by   *)
(* deferred triggers, before the writer commits, of the transactions it    *)
(* has written to.  Of the entries of a transaction the model keeps what   *)
(* the triggers and the foreign keys read: both sums, their number, and    *)
(* the Chamas that own the accounts.                                       *)
(*                                                                         *)
(* Left out: account types and names, sources (LedgerPosting), and SQLite, *)
(* which has no trigger on the balance.                                    *)
(***************************************************************************)
EXTENDS Naturals, FiniteSetsExt

CONSTANTS
  Sessions,
  Ids,         \* of ledger transactions; used up, which bounds the model
  Chamas,
  Amounts,
  MaxEntries,  \* bound on the number of entries
  None

Rows == [chama : Chamas, reverses : Ids \cup {None}]

SchemaAssumption ==
  /\ None \notin Ids \cup Rows
  /\ Amounts \subseteq Nat \ {0}
  /\ MaxEntries \in Nat

VARIABLES
  hardened,  \* the migration has been applied
  tx,        \* ledger_transactions: Chama and reversed transaction, or None
  book,      \* ledger_entries of each transaction
  work,      \* uncommitted rows of each session
  examined,  \* sessions whose deferred triggers have run, about to commit
  legacy     \* history variable: transactions out of balance at the migration

vars == <<hardened, tx, book, work, examined, legacy>>

Entries == [debit : Nat, credit : Nat, count : Nat, owners : SUBSET Chamas]
NoEntries == [debit |-> 0, credit |-> 0, count |-> 0, owners |-> {}]
NoWork == [tx |-> [t \in Ids |-> None], book |-> [t \in Ids |-> NoEntries]]

Plus(a, b) == [debit |-> a.debit + b.debit, credit |-> a.credit + b.credit,
               count |-> a.count + b.count, owners |-> a.owners \cup b.owners]

Init ==
  /\ hardened = FALSE
  /\ tx = [t \in Ids |-> None]
  /\ book = [t \in Ids |-> NoEntries]
  /\ work = [s \in Sessions |-> NoWork]
  /\ examined = {}
  /\ legacy = {}

(* The row of t as s sees it.                                              *)
Row(s, t) == IF tx[t] # None THEN tx[t] ELSE work[s].tx[t]

Fresh(t) == tx[t] = None /\ \A s \in Sessions : work[s].tx[t] = None

(* fk_ledger_transactions_reversal_chama; before, the id alone.  A row may *)
(* refer to itself.                                                        *)
ReversalKey(s, t, chama, r) ==
  r \notin {None, t} => Row(s, r) # None /\ (hardened => Row(s, r).chama = chama)

(* Bug: the composite key of the account is not created.                   *)
OwnerOfAny(s, t, owner) == TRUE

(* fk_ledger_entries_transaction_chama and fk_ledger_entries_account_chama *)
OwnerKey(s, t, owner) == hardened => owner = Row(s, t).chama

(* uq_ledger_transactions_reversal; an uncommitted row of another session  *)
(* makes the insert wait.                                                  *)
ReversalIsFree(r) ==
  hardened /\ r # None =>
    \A t \in Ids :
      /\ tx[t] # None => tx[t].reverses # r
      /\ \A s \in Sessions : work[s].tx[t] # None => work[s].tx[t].reverses # r

InsertTransaction(s, t, chama, r) ==
  /\ s \notin examined /\ Fresh(t)
  /\ ReversalKey(s, t, chama, r) /\ ReversalIsFree(r)
  /\ work' = [work EXCEPT ![s].tx[t] = [chama |-> chama, reverses |-> r]]
  /\ UNCHANGED <<hardened, tx, book, examined, legacy>>

EntriesWritten ==
  MapThenSumSet(LAMBDA t : book[t].count
                  + MapThenSumSet(LAMBDA s : work[s].book[t].count, Sessions), Ids)

(* ck_ledger_entries_single_side: an entry is a debit or a credit.  Its    *)
(* transaction may be a committed one.                                     *)
InsertEntry(s, t, side, amount, owner) ==
  /\ s \notin examined /\ Row(s, t) # None /\ OwnerKey(s, t, owner)
  /\ EntriesWritten < MaxEntries
  /\ work' = [work EXCEPT ![s].book[t] = Plus(@,
       [debit |-> IF side = "DEBIT" THEN amount ELSE 0,
        credit |-> IF side = "CREDIT" THEN amount ELSE 0,
        count |-> 1, owners |-> {owner}])]
  /\ UNCHANGED <<hardened, tx, book, examined, legacy>>

Rollback(s) ==
  /\ work[s] # NoWork
  /\ work' = [work EXCEPT ![s] = NoWork]
  /\ examined' = examined \ {s}
  /\ UNCHANGED <<hardened, tx, book, legacy>>

(* Bug: only ledger_transactions has a trigger that examines the balance.  *)
ExaminedNew(s) == {t \in Ids : work[s].tx[t] # None}

(* The transactions whose triggers are queued.                             *)
Examined(s) == {t \in Ids : work[s].tx[t] # None \/ work[s].book[t].count > 0}

(* chama_core_validate_ledger_transaction and _ledger_entry_parent         *)
Balanced(entries) == entries.count >= 2 /\ entries.debit = entries.credit

(* The books as s sees them.                                               *)
Seen(s) == [t \in Ids |-> Plus(book[t], work[s].book[t])]

(* COMMIT runs the deferred triggers first, once there are any; what they  *)
(* see of others is what was committed when they ran.                      *)
Examine(s) ==
  /\ hardened
  /\ s \notin examined /\ work[s] # NoWork
  /\ \A t \in Examined(s) : Balanced(Seen(s)[t])
  /\ examined' = examined \cup {s}
  /\ UNCHANGED <<hardened, tx, book, work, legacy>>

Commit(s) ==
  /\ work[s] # NoWork
  /\ hardened => s \in examined
  /\ book' = Seen(s)
  /\ tx' = [t \in Ids |-> Row(s, t)]
  /\ work' = [work EXCEPT ![s] = NoWork]
  /\ examined' = examined \ {s}
  /\ UNCHANGED <<hardened, legacy>>

(* Bug: UPDATE is left to the writers.                                     *)
RewritableAlways(t) == tx[t] # None

(* The triggers that block UPDATE and DELETE; with them the statement      *)
(* fails, and its transaction with it, which is Rollback.                  *)
Rewritable(t) == ~hardened /\ tx[t] # None

UpdateEntry(t, amount) ==
  /\ Rewritable(t) /\ book[t].count > 0
  /\ book' = [book EXCEPT ![t].debit = amount]
  /\ UNCHANGED <<hardened, tx, work, examined, legacy>>

(* The foreign keys to the row restrict its deletion.                      *)
DeleteTransaction(t) ==
  /\ Rewritable(t) /\ book[t].count = 0
  /\ \A s \in Sessions : work[s].book[t].count = 0
  /\ \A u \in Ids : /\ u # t /\ tx[u] # None => tx[u].reverses # t
                    /\ \A s \in Sessions : work[s].tx[u] # None => work[s].tx[u].reverses # t
  /\ tx' = [tx EXCEPT ![t] = None]
  /\ UNCHANGED <<hardened, book, work, examined, legacy>>

(* Bug: the new keys are declared NOT VALID.                               *)
RowsAreAnything == TRUE

(* The new keys and the unique index are made for the rows that are there; *)
(* the balance of those is not examined.                                   *)
RowsSatisfyKeys ==
  \A t \in Ids : tx[t] # None =>
    /\ book[t].owners \subseteq {tx[t].chama}
    /\ tx[t].reverses # None =>
         /\ tx[tx[t].reverses].chama = tx[t].chama
         /\ \A u \in Ids \ {t} : tx[u] # None => tx[u].reverses # tx[t].reverses

(* _upgrade_postgresql: ALTER TABLE waits for all who write to the tables. *)
Upgrade ==
  /\ ~hardened
  /\ \A s \in Sessions : work[s] = NoWork
  /\ RowsSatisfyKeys
  /\ hardened' = TRUE
  /\ legacy' = {t \in Ids : tx[t] # None /\ ~Balanced(book[t])}
  /\ UNCHANGED <<tx, book, work, examined>>

Next ==
  \/ \E s \in Sessions :
       \/ \E t \in Ids, chama \in Chamas, r \in Ids \cup {None} :
            InsertTransaction(s, t, chama, r)
       \/ \E t \in Ids, side \in {"DEBIT", "CREDIT"}, amount \in Amounts, owner \in Chamas :
            InsertEntry(s, t, side, amount, owner)
       \/ Examine(s) \/ Commit(s) \/ Rollback(s)
  \/ \E t \in Ids :
       \/ \E amount \in Amounts : UpdateEntry(t, amount)
       \/ DeleteTransaction(t)
  \/ Upgrade

Spec == Init /\ [][Next]_vars
-----------------------------------------------------------------------------
(* Type invariant.                                                         *)
SchemaTypeOK ==
  /\ hardened \in BOOLEAN
  /\ tx \in [Ids -> Rows \cup {None}]
  /\ book \in [Ids -> Entries]
  /\ work \in [Sessions -> [tx : [Ids -> Rows \cup {None}], book : [Ids -> Entries]]]
  /\ examined \subseteq Sessions
  /\ legacy \subseteq Ids

(* "Database-level protections" (ledger_guards.py): after the migration    *)
(* each transaction that was not out of balance before has two entries at  *)
(* least and balances, also when writers whose triggers have run on the    *)
(* same books commit one after the other; every one keeps to the accounts  *)
(* of its Chama and is reversed once at most, within the Chama.            *)
HardenedLedgerIsSound ==
  hardened =>
    \A t \in Ids : tx[t] # None =>
      /\ t \notin legacy => Balanced(book[t])
      /\ book[t].owners \subseteq {tx[t].chama}
      /\ tx[t].reverses # None =>
           /\ tx[tx[t].reverses] # None /\ tx[tx[t].reverses].chama = tx[t].chama
           /\ \A u \in Ids \ {t} : tx[u] # None => tx[u].reverses # tx[t].reverses
=============================================================================
