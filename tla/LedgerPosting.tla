--------------------------- MODULE LedgerPosting ---------------------------
(***************************************************************************)
(* The posting protocol of LedgerService (app/services/ledger.py): any     *)
(* number of requests call post_transaction or reverse_transaction at the  *)
(* same time, each in a database transaction of its own.                   *)
(*                                                                         *)
(* Between two queries of one request the other requests may commit (READ  *)
(* COMMITTED), so every query is a step.  The INSERT takes the unique      *)
(* index entries and holds them to the commit, so insert and commit are    *)
(* one step, whose alternative is the IntegrityError.                      *)
(*                                                                         *)
(* A caller comes with changes of its own that it has made in the session  *)
(* and not committed (the status of a loan, a new share).  `pending` says  *)
(* that the session still holds them, `changed` that they are committed.   *)
(***************************************************************************)
EXTENDS Money, FiniteSets

CONSTANTS
  Requests,     \* one call each; a retry is another request
  SourceIds,    \* ids of the business records that are posted
  Chamas,
  Descriptions,
  AccountsOf,   \* AccountsOf[c]: the ledger accounts of Chama c
  Calls,        \* the argument records a caller may pass
  None

SourceTypes == {"BUSINESS", "LEDGER_REVERSAL"}

(* The source of a reversal posted by reverse_transaction is the id of the *)
(* transaction it reverses; a transaction is named by the request that     *)
(* inserted it (its uuid is fresh).                                        *)
Sources == [type : SourceTypes, id : SourceIds \cup Requests]

LineLists == Seq(LinesOn(UNION {AccountsOf[c] : c \in Chamas}))

Arguments == [source : Sources, chama : Chamas, description : Descriptions,
              lines : LineLists, reverses : Requests \cup {None}]

TransactionRows ==
  [id : Requests, source : Sources, chama : Chamas, description : Descriptions,
   lines : LineLists, reverses : Requests \cup {None}]

ASSUME LedgerAssumption ==
  /\ None \notin Requests
  /\ None \notin TransactionRows
  /\ SourceIds \cap Requests = {}
  /\ Calls \subseteq Arguments

VARIABLES
  ledger,   \* committed ledger_transactions with their entries
  pc,       \* where each request is
  call,     \* the arguments it carries, lines normalized
  answer,   \* the transaction it returned
  pending,  \* its session holds uncommitted changes of the caller
  changed   \* requests whose caller changes are committed

vars == <<ledger, pc, call, answer, pending, changed>>

Transaction(r) ==
  [id |-> r, source |-> call[r].source, chama |-> call[r].chama,
   description |-> call[r].description, lines |-> call[r].lines,
   reverses |-> call[r].reverses]

get_by_source(source) == {t \in ledger : t.source = source}

get_by_id_in_chama(chama, id) ==
  {t \in ledger : t.id = id /\ t.chama = chama}

get_reversal_for(id) == {t \in ledger : t.reverses = id}

(* Bug: only the source is unique.                                         *)
ViolatesSourceOnly(r) == \E t \in ledger : t.source = call[r].source

(* Bug: only the reversal reference is unique.                             *)
ViolatesReversalOnly(r) ==
  \E t \in ledger : call[r].reverses # None /\ t.reverses = call[r].reverses

(* The unique constraints of ledger_transactions: one row per source, one  *)
(* reversal per reversed transaction.                                      *)
ViolatesUnique(r) ==
  \/ \E t \in ledger : t.source = call[r].source
  \/ \E t \in ledger : call[r].reverses # None /\ t.reverses = call[r].reverses

(* _resolve_idempotent_retry: the retry must carry the same payload.       *)
SamePosting(t, r) ==
  /\ t.chama = call[r].chama
  /\ t.description = call[r].description
  /\ t.reverses = call[r].reverses
  /\ SameLines(t.lines, call[r].lines)

Init ==
  /\ ledger = {}
  /\ pc = [r \in Requests |-> "idle"]
  /\ call \in [Requests -> {None}]
  /\ answer = [r \in Requests |-> None]
  /\ pending = [r \in Requests |-> FALSE]
  /\ changed = {}

Goto(r, label) == pc' = [pc EXCEPT ![r] = label]

(* An exception leaves the service: get_db closes the session, which rolls *)
(* back whatever the caller had pending.                                   *)
Abandon(r, label) ==
  /\ Goto(r, label)
  /\ pending' = [pending EXCEPT ![r] = FALSE]
  /\ UNCHANGED <<ledger, answer, changed>>

(* Bug: the lines are validated as passed and rounded when stored.         *)
PrepareRaw(r, args) ==
  /\ ValidLines(args.lines, AccountsOf[args.chama])
  /\ (args.source.type = "LEDGER_REVERSAL") <=> (args.reverses # None)
  /\ call' = [call EXCEPT ![r] = [args EXCEPT !.lines = NormalizeLines(args.lines)]]
  /\ Goto(r, "lookup")
  /\ pending' = [pending EXCEPT ![r] = TRUE]
  /\ UNCHANGED <<ledger, answer, changed>>

(* The first part of post_transaction: normalize, validate, and match the  *)
(* reversal reference with the source type.                                *)
Prepare(r, args) ==
  LET c == [args EXCEPT !.lines = NormalizeLines(args.lines)] IN
  \/ /\ ValidLines(c.lines, AccountsOf[c.chama])
     /\ (c.source.type = "LEDGER_REVERSAL") <=> (c.reverses # None)
     /\ call' = [call EXCEPT ![r] = c]
     /\ Goto(r, "lookup")
     /\ pending' = [pending EXCEPT ![r] = TRUE]
     /\ UNCHANGED <<ledger, answer, changed>>
  \/ /\ \/ ~ ValidLines(c.lines, AccountsOf[c.chama])
        \/ (c.source.type = "LEDGER_REVERSAL") # (c.reverses # None)
     /\ Abandon(r, "refused")
     /\ UNCHANGED call

post_transaction(r) ==
  /\ pc[r] = "idle"
  /\ \E args \in Calls : Prepare(r, args)

(* Bug: the reversal refers to the business record.                        *)
ReversalOfRecord(t, description) ==
  [source |-> [type |-> "LEDGER_REVERSAL", id |-> t.id], chama |-> t.chama,
   description |-> description, lines |-> Mirror(t.lines), reverses |-> t.source.id]

ReversalOf(t, description) ==
  [source |-> [type |-> "LEDGER_REVERSAL", id |-> t.id], chama |-> t.chama,
   description |-> description, lines |-> Mirror(t.lines), reverses |-> t.id]

(* reverse_transaction: the target must exist in the Chama and must not be *)
(* a reversal itself; then it posts the mirror image.                      *)
reverse_transaction(r) ==
  /\ pc[r] = "idle"
  /\ \E id \in Requests, chama \in Chamas, description \in Descriptions :
       LET target == get_by_id_in_chama(chama, id) IN
       \/ \E t \in target :
            /\ t.reverses = None
            /\ Prepare(r, ReversalOf(t, description))
       \/ /\ \A t \in target : t.reverses # None
          /\ Abandon(r, "refused")
          /\ UNCHANGED call

Return(r, t, label) ==
  /\ answer' = [answer EXCEPT ![r] = t]
  /\ Goto(r, label)

(* Bug: an existing row answers the call whatever it says.                 *)
FindAny(r) ==
  /\ pc[r] = "lookup"
  /\ \E t \in get_by_source(call[r].source) : Return(r, t, "returned")
  /\ UNCHANGED <<ledger, call, pending, changed>>

(* post_transaction, get_by_source: an existing row answers the call, and  *)
(* nothing is committed: the caller's changes stay pending.                *)
FindExisting(r) ==
  /\ pc[r] = "lookup"
  /\ \E t \in get_by_source(call[r].source) :
       \/ /\ SamePosting(t, r)
          /\ Return(r, t, "returned")
          /\ UNCHANGED <<ledger, call, pending, changed>>
       \/ /\ ~ SamePosting(t, r)
          /\ Abandon(r, "conflict")
          /\ UNCHANGED call

(* Bug: the session is committed before the insert.                        *)
FindNothingCommits(r) ==
  /\ pc[r] = "lookup"
  /\ get_by_source(call[r].source) = {}
  /\ Goto(r, IF call[r].reverses = None THEN "insert" ELSE "reference")
  /\ changed' = changed \cup {r}
  /\ pending' = [pending EXCEPT ![r] = FALSE]
  /\ UNCHANGED <<ledger, call, answer>>

FindNothing(r) ==
  /\ pc[r] = "lookup"
  /\ get_by_source(call[r].source) = {}
  /\ Goto(r, IF call[r].reverses = None THEN "insert" ELSE "reference")
  /\ UNCHANGED <<ledger, call, answer, pending, changed>>

(* _validate_reversal_reference                                            *)
ReferenceOK(r) ==
  /\ \E t \in get_by_id_in_chama(call[r].chama, call[r].reverses) : t.reverses = None
  /\ get_reversal_for(call[r].reverses) = {}

ValidateReference(r) ==
  /\ pc[r] = "reference"
  /\ \/ /\ ReferenceOK(r)
        /\ Goto(r, "insert")
        /\ UNCHANGED <<ledger, call, answer, pending, changed>>
     \/ /\ ~ ReferenceOK(r)
        /\ Abandon(r, "refused")
        /\ UNCHANGED call

(* create_transaction and commit: the row, its entries and everything the  *)
(* caller had pending become durable together.                             *)
InsertAndCommit(r) ==
  /\ pc[r] = "insert"
  /\ ~ ViolatesUnique(r)
  /\ ledger' = ledger \cup {Transaction(r)}
  /\ changed' = changed \cup {r}
  /\ pending' = [pending EXCEPT ![r] = FALSE]
  /\ Return(r, Transaction(r), "done")
  /\ UNCHANGED call

(* IntegrityError: rollback, which also drops the caller's changes.        *)
LoseRace(r) ==
  /\ pc[r] = "insert"
  /\ ViolatesUnique(r)
  /\ Abandon(r, "relookup")
  /\ UNCHANGED call

(* The except branch: the winner's row answers the call, or is in conflict *)
(* with it, or there is none under this source and the error is raised.    *)
LookUpWinner(r) ==
  /\ pc[r] = "relookup"
  /\ \/ \E t \in get_by_source(call[r].source) :
          /\ SamePosting(t, r)
          /\ Return(r, t, "returned")
          /\ UNCHANGED <<ledger, call, pending, changed>>
     \/ \E t \in get_by_source(call[r].source) :
          /\ ~ SamePosting(t, r)
          /\ Abandon(r, "conflict")
          /\ UNCHANGED call
     \/ /\ get_by_source(call[r].source) = {}
        /\ Abandon(r, "raised")
        /\ UNCHANGED call

(* After an idempotent answer the caller goes on and commits its session.  *)
CallerCommits(r) ==
  /\ pc[r] = "returned"
  /\ changed' = IF pending[r] THEN changed \cup {r} ELSE changed
  /\ pending' = [pending EXCEPT ![r] = FALSE]
  /\ Goto(r, "done")
  /\ UNCHANGED <<ledger, call, answer>>

InFlight == {"lookup", "reference", "insert", "relookup", "returned"}

(* The process or its connection dies: the open transaction is rolled back.*)
Crash(r) ==
  /\ pc[r] \in InFlight
  /\ Abandon(r, "crashed")
  /\ UNCHANGED call

Step(r) ==
  \/ post_transaction(r)
  \/ reverse_transaction(r)
  \/ FindExisting(r)
  \/ FindNothing(r)
  \/ ValidateReference(r)
  \/ InsertAndCommit(r)
  \/ LoseRace(r)
  \/ LookUpWinner(r)
  \/ CallerCommits(r)
  \/ Crash(r)

Next == \E r \in Requests : Step(r)

Spec == Init /\ [][Next]_vars

-----------------------------------------------------------------------------
(* Type invariant.                                                         *)
TypeOK ==
  /\ ledger \subseteq TransactionRows
  /\ pc \in [Requests -> {"idle", "done", "conflict", "refused", "raised", "crashed"}
                           \cup InFlight]
  /\ call \in [Requests -> Arguments \cup {None}]
  /\ answer \in [Requests -> TransactionRows \cup {None}]
  /\ pending \in [Requests -> BOOLEAN]
  /\ changed \subseteq Requests

(* What the deferred trigger of db/ledger_guards.py and ADR-012 demand of  *)
(* a transaction: its lines, as stored in cents, balance, there are at     *)
(* least two of them and all are on accounts of its own Chama.  Holds of   *)
(* what is committed and already of what is about to be inserted, so the   *)
(* trigger never fires on a posting of the service.                        *)
WellFormed(t) ==
  /\ Balanced(t.lines)
  /\ Len(t.lines) >= 2
  /\ \A i \in DOMAIN t.lines :
       /\ t.lines[i].account \in AccountsOf[t.chama]
       /\ t.lines[i].debit % Cent = 0 /\ t.lines[i].credit % Cent = 0

EveryPostingIsWellFormed ==
  /\ \A t \in ledger : WellFormed(t)
  /\ \A r \in Requests : pc[r] \in InFlight => WellFormed(call[r])

(* A call that returns a transaction returns a committed one with exactly  *)
(* the payload it asked for, whoever inserted it and in whatever order the *)
(* requests ran (the idempotent retry of post_transaction).                *)
AnswerIsThePostingAskedFor ==
  \A r \in Requests :
    answer[r] # None => /\ answer[r] \in ledger
                        /\ answer[r].source = call[r].source
                        /\ SamePosting(answer[r], r)

(* The caller's changes are committed only together with, or after, a      *)
(* posting with the payload it asked for: "both happen in one transaction" *)
(* (services/loan.py:193).                                                 *)
NoChangeWithoutPosting ==
  \A r \in changed :
    \E t \in ledger : t.source = call[r].source /\ SamePosting(t, r)

(* A transaction is reversed at most once, in its own Chama, and a         *)
(* reversal is never reversed, also when two requests with different       *)
(* sources reverse it at the same time.                                    *)
ReversalsAreSound ==
  \A t \in ledger :
    t.reverses # None =>
      /\ \E u \in ledger : u.id = t.reverses /\ u.chama = t.chama /\ u.reverses = None
      /\ \A v \in ledger : v.reverses = t.reverses => v = t

(* The inductive invariant behind them: what each label of a request says. *)
CallsInFlight == \A r \in Requests : pc[r] \in InFlight => call[r] \in Arguments

IdleHasNoAnswer == \A r \in Requests : pc[r] = "idle" => answer[r] = None

ReturnedHasAnswer == \A r \in Requests : pc[r] = "returned" => answer[r] # None

ChangedIsDone == \A r \in changed : pc[r] = "done" /\ answer[r] # None

(* An insert commits the caller's session, so its id is not used again.    *)
PostedAreChanged == \A t \in ledger : t.id \in changed

(* A validated reversal reference stays valid up to the insert, because    *)
(* transactions are never deleted.                                         *)
ReferenceStands ==
  \A r \in Requests :
    pc[r] = "insert" /\ call[r].reverses # None =>
      \E u \in ledger : /\ u.id = call[r].reverses
                        /\ u.chama = call[r].chama
                        /\ u.reverses = None

Inv ==
  /\ TypeOK
  /\ EveryPostingIsWellFormed
  /\ CallsInFlight
  /\ IdleHasNoAnswer
  /\ ReturnedHasAnswer
  /\ AnswerIsThePostingAskedFor
  /\ ChangedIsDone
  /\ PostedAreChanged
  /\ ReferenceStands
  /\ ReversalsAreSound

-----------------------------------------------------------------------------
(* What the service promises its callers, without requests: a journal that *)
(* only grows, one sound entry at a time.                                  *)
Journal == INSTANCE Journal WITH journal <- ledger

(* Every interleaving of calls is an execution of that journal.            *)
ImplementsJournal == Journal!Spec
=============================================================================
