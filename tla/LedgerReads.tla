----------------------------- MODULE LedgerReads ----------------------------
(***************************************************************************)
(* What readers of a Chama's ledger are shown while contributions are      *)
(* confirmed and reversed: the pages of its history (app/api/v1/ledger.py, *)
(* app/repositories/ledger.py), collection analytics                       *)
(* (app/services/analytics.py) and statements (app/services/statement.py,  *)
(* app/repositories/statement.py).                                         *)
(*                                                                         *)
(* A row's created_at is the time at which its transaction began; it can   *)
(* be seen when that has committed.  A contribution is confirmed at a time *)
(* the service reads in between.  One page, like one figure, is one query. *)
(*                                                                         *)
(* Left out: who may read what, the entries of accounts other than Cash,   *)
(* registration fees (counted like contributions) and the layout of PDFs.  *)
(***************************************************************************)
EXTENDS Naturals, Integers, Sequences, FiniteSets, Functions

CONSTANTS
  Ids,            \* ids of ledger transactions: numbers, ordered like UUIDs
  Contributions,
  Members,
  MemberOf,       \* MemberOf[c]
  AmountOf,       \* AmountOf[c]
  PageSize,       \* limit
  MonthLength,
  MaxTime,        \* bound on the clock
  None, End

Kinds == {"CONFIRMATION", "REVERSAL"}
Rows == [id : Ids, at : 0..MaxTime, kind : Kinds, of : Contributions]

ReadsAssumption ==
  /\ None # End /\ None \notin Rows /\ End \notin Rows
  /\ Ids \subseteq Nat
  /\ IsFiniteSet(Members)
  /\ MemberOf \in [Contributions -> Members]
  /\ AmountOf \in [Contributions -> Nat]
  /\ PageSize \in Nat \ {0} /\ MonthLength \in Nat \ {0} /\ MaxTime \in Nat

VARIABLES
  now,
  open,         \* rows of transactions that have not committed
  posted,       \* ledger_transactions
  status,       \* contributions.status
  confirmedAt,  \* contributions.confirmed_at
  pages,        \* what a reader has been given so far
  cursor,       \* where its next page begins; None before the first one
  began         \* the rows there were when its first page was read

vars == <<now, open, posted, status, confirmedAt, pages, cursor, began>>
walk == <<pages, cursor, began>>

Init ==
  /\ now = 0
  /\ open = {}
  /\ posted = {}
  /\ status = [c \in Contributions |-> "PENDING"]
  /\ confirmedAt = [c \in Contributions |-> 0]
  /\ pages = <<>>
  /\ cursor = None
  /\ began = {}

Tick ==
  /\ now < MaxTime
  /\ now' = now + 1
  /\ UNCHANGED <<open, posted, status, confirmedAt, walk>>

(* A request to confirm or reverse c: created_at is the server's now().    *)
BeginPosting(c, kind, id) ==
  /\ status[c] = IF kind = "CONFIRMATION" THEN "PENDING" ELSE "CONFIRMED"
  /\ \A r \in open : r.of # c
  /\ \A r \in open \cup posted : r.id # id
  /\ open' = open \cup {[id |-> id, at |-> now, kind |-> kind, of |-> c]}
  /\ UNCHANGED <<now, posted, status, confirmedAt, walk>>

(* The posting and the status of the contribution, in one commit.          *)
CommitPosting(r, time) ==
  /\ open' = open \ {r}
  /\ posted' = posted \cup {r}
  /\ status' = [status EXCEPT ![r.of] =
                  IF r.kind = "CONFIRMATION" THEN "CONFIRMED" ELSE "REVERSED"]
  /\ confirmedAt' = IF r.kind = "CONFIRMATION" THEN [confirmedAt EXCEPT ![r.of] = time]
                    ELSE confirmedAt
  /\ UNCHANGED <<now, walk>>

AbortPosting(r) ==
  /\ open' = open \ {r}
  /\ UNCHANGED <<now, posted, status, confirmedAt, walk>>

(* Ordered by created_at and id.                                           *)
Earlier(r, q) == r.at < q.at \/ (r.at = q.at /\ r.id < q.id)

(* The n latest rows; newest first, each page is a stretch of the ledger.  *)
Latest(rows, n) == {r \in rows : Cardinality({q \in rows : Earlier(r, q)}) < n}
Oldest(rows) == CHOOSE r \in rows : \A q \in rows \ {r} : Earlier(r, q)

(* Bug: the cursor is a time without an id.                                *)
RemainingByTime == IF cursor = None THEN posted ELSE {r \in posted : r.at < cursor.at}

Remaining == IF cursor = None THEN posted ELSE {r \in posted : Earlier(r, cursor)}

(* list_ledger: a row more than asked for tells whether there are more.    *)
NextPage ==
  LET items == Latest(Remaining, PageSize) IN
  /\ cursor # End
  /\ pages' = Append(pages, items)
  /\ cursor' = IF Cardinality(Latest(Remaining, PageSize + 1)) > PageSize
               THEN Oldest(items) ELSE End
  /\ began' = IF cursor = None THEN posted ELSE began
  /\ UNCHANGED <<now, open, posted, status, confirmedAt>>

Next ==
  \/ Tick
  \/ \E c \in Contributions, kind \in Kinds, id \in Ids : BeginPosting(c, kind, id)
  \/ \E r \in open : (\E time \in r.at..now : CommitPosting(r, time)) \/ AbortPosting(r)
  \/ NextPage

Spec == Init /\ [][Next]_vars
-----------------------------------------------------------------------------
MonthOf(time) == time \div MonthLength
Months == {MonthOf(time) : time \in 0..MaxTime}

(* Bug: rows of reversals do not have the source of the contribution.      *)
SourcesDirect(m) == {r \in posted : r.kind = "CONFIRMATION" /\ MemberOf[r.of] = m}

(* The rows that _monthly_cash_flow joins to the contributions of m.       *)
Sources(m) == {r \in posted : MemberOf[r.of] = m}

(* Debits less credits of the Cash account.                                *)
CashOf(r) == IF r.kind = "CONFIRMATION" THEN AmountOf[r.of] ELSE 0 - AmountOf[r.of]

MonthlyCashFlow(m, month) ==
  SumFunction([r \in {q \in Sources(m) : MonthOf(q.at) = month} |-> CashOf(r)])

Collections(m) == SumFunction([month \in Months |-> MonthlyCashFlow(m, month)])

(* contributions_in_window, and ledger_entries_in_window for Cash          *)
ContributionLines(m, from, to) ==
  {c \in Contributions : /\ MemberOf[c] = m /\ status[c] = "CONFIRMED"
                         /\ from <= confirmedAt[c] /\ confirmedAt[c] <= to}
CashLines(from, to) == {r \in posted : from <= r.at /\ r.at <= to}

(* Type invariant.                                                         *)
ReadsTypeOK ==
  /\ now \in 0..MaxTime
  /\ open \subseteq Rows /\ posted \subseteq Rows
  /\ status \in [Contributions -> {"PENDING", "CONFIRMED", "REVERSED"}]
  /\ confirmedAt \in [Contributions -> 0..MaxTime]
  /\ pages \in Seq(SUBSET Rows)
  /\ cursor \in Rows \cup {None, End}
  /\ began \subseteq Rows

(* A reader who follows the cursors is given each row once, newest first,  *)
(* and all that there were when it began, although rows older than the     *)
(* cursor appear while it reads.                                           *)
WalkIsComplete ==
  /\ \A i, j \in 1..Len(pages) : i < j =>
       \A r \in pages[i], q \in pages[j] : Earlier(q, r)
  /\ cursor = End => began \subseteq UNION {pages[i] : i \in 1..Len(pages)}

(* Over all months the analytics, the contribution lines of a statement    *)
(* and the cash lines of one come to the same amount, although a reversal  *)
(* is counted when it is posted and takes the contribution out of the      *)
(* statement of an earlier month.                                          *)
CollectionsMatchBooks ==
  /\ \A m \in Members :
       Collections(m) = SumFunction([c \in ContributionLines(m, 0, MaxTime) |-> AmountOf[c]])
  /\ SumFunction([m \in Members |-> Collections(m)]) =
       SumFunction([r \in CashLines(0, MaxTime) |-> CashOf(r)])

(* Both: a reader is given all of the books, and the same by every way.    *)
ReadersSeeTheBooks == WalkIsComplete /\ CollectionsMatchBooks
=============================================================================
