# Verification of ChamaCore

ChamaCore is a FastAPI service for savings groups ("Chamas") on PostgreSQL: members
contribute, borrow and are paid out, and every movement of money is a transaction of a
double-entry ledger. This directory holds TLA+ models of the part of the service that moves
money and of what decides who may move it, the TLC runs that check them on small instances, and
TLAPS proofs, for every value of the constants, of every safety property the runs check.

Source paths below are relative to `app/`; `ADR-…` are the files of `docs/decisions/`.

## 1. The system

### How a request runs

Every HTTP request gets a SQLAlchemy session and with it a database transaction (`db/session.py`),
under READ COMMITTED. Two settings of the session factory shape everything:

* `expire_on_commit=False`: what a session has loaded it does not load again. A service tests
  the status it *loaded* and later sends an `UPDATE … WHERE id = …`, which overwrites whatever is
  there by then. There are no version columns.
* `autoflush=False`: a query of the session does not see the session's own pending changes.

What protects the data is therefore not the tests in Python but the database: the unique
constraints (one ledger transaction per source, one share per contribution, one open
contribution per period, one attempt per number, one event per charge), one row lock (the Chama's
Cash account, `services/finance.py`), and the order of commits. `LedgerService.post_transaction`
*commits the caller's session*: a posting and the changes of its caller go together.

So the interesting questions are all of one kind: a request that read something, then waited
(for a lock, a provider, the scheduler) and now writes. The models give every query and every
commit a step of its own, let any request crash between two steps (the open transaction is
rolled back), and let any number of requests interleave.

### Components

| Component | State it keeps | Operations | Depends on | Modelled by |
|---|---|---|---|---|
| Ledger posting (`services/ledger.py`) | transactions, entries | post, reverse, idempotent retry | – | `Money`, `LedgerPosting`, `Journal` |
| Ledger database (`db/ledger_guards.py`, `alembic/…/d1e2f3a4b5c6`) | keys, index, triggers | any INSERT, UPDATE, DELETE; the migration | – | `LedgerSchema` |
| Ledger readers (`repositories/ledger.py`, `services/analytics.py`, `services/statement.py`) | – | pages, monthly collection, statements | ledger, contributions | `LedgerReads` |
| Contributions, shares (`services/contribution.py`) | contribution, share | record, confirm, settle, reverse | ledger, audit | `Contributions`, `ContributionLifecycle` |
| Payouts (`services/payout.py`) | payout, approval | request, approve, reject, process, complete, fail, reverse | ledger, Cash lock, shares | `Payouts` |
| Loans (`services/loan.py`) | loan, repayments | apply, submit, approve, reject, cancel, disburse, repay, reverse | ledger, Cash lock, shares | `Loans` |
| The Cash account (`services/finance.py`) | balance, row lock | read, lock | loans, payouts, contributions | `Treasury` |
| Registration fees (`services/registration_fee.py`) | fee, its payments | waive, pay, reverse | ledger | `RegistrationFees` |
| Payment intents (`services/payment_intent.py`) | intent, attempts | create, initiate (= retry and query), repair on read | provider, settlement | `Payments` |
| Payment webhooks (`services/payment_webhook.py`) | event inbox | handle, redelivery | provider, attempts, settlement | `Payments` |
| C2B payments (`services/c2b_payment.py`) | event inbox | validation, confirmation, redelivery | provider, contributions | `C2BPayments` |
| Payment connections (`services/payment_connection.py`, `core/credential_cipher.py`) | connection, sealed credentials, audit rows, token cache | create, replace, validate, disable, delete, key rotation | provider | `Connections` |
| Rate limiter (`core/ratelimit.py`) | a counter for each key, in memory | allow | clock | `RateLimiter` |
| Sign-in (`services/auth.py`) | password, refresh tokens | login, rotate, logout, change password, delete account | – | `AuthSessions` |
| Platform administration (`services/platform.py`, `db/bootstrap_platform_admin.py`) | users, grants, links to persons | register, link, (de)activate, force change, grant, revoke, bootstrap | – | `PlatformAdmins` |
| Chamas, memberships, roles (`services/chama.py`, `membership.py`, `role.py`) | Chama status, number sequence, memberships, roles | create, join, status, assign, remove | – | `Chamas` |
| Audit, notifications, API schemas, HTTP | rows nobody reads back, formatting | | | not modelled |

What makes each of them correct:

* Ledger: a source is posted once; a retry is answered with the posting it asked for or refused;
  postings balance in cents on accounts of one Chama; a transaction is reversed once and a
  reversal never; the caller's changes and the posting stand or fall together. The database
  keeps the books balanced whoever writes to them. Readers are shown all of the books.
* Contributions: status, share and ledger agree; one open contribution per period; who is told
  "settled" finds the money in the ledger.
* Payouts and loans: no money leaves twice, without approval of somebody else, or without cash;
  a status that says "paid" has its posting; interest before principal; every request ends.
* Registration fees: PAID has a posted payment behind it; a fee is collected once at a time.
* Payments: a success is the success of a charge of that intent and has settled its
  contribution; no second request while the first is open; a stored callback is applied in the
  end, also after a crash. A Paybill payment is credited once at most, and is not called
  PROCESSED before a contribution of its amount is confirmed.
* Connections: ACTIVE means tested; what is stored can be decrypted; no change without its
  audit row; nothing with payment history is deleted. The rate limiter keeps to its budget.
* Accounts: a password change ends the other sessions; a refresh token is used once; there is
  always an administrator; an account stands for one person.
* Chamas: membership numbers are dense and unique; one leadership role per membership; DISSOLVED
  is final.

`PROJECT.json` lists the hazards line by line with the properties that cover them.

## 2. Modules

```
Money ── LedgerPosting ── (implements) Journal
              │ the unique source is what the services below rely on
              │ LedgerSchema: the database under it      LedgerReads: the readers above it
ContributionLifecycle ◄─(implements)─ Contributions
Payouts ─┐
Loans   ─┴─ Treasury (both INSTANCEd over one cash account, with contributions)
Payments (settles a contribution; confirmed by hand or reversed by Contributions)
C2BPayments, Connections, RateLimiter          what surrounds a payment
AuthSessions, PlatformAdmins, Chamas, RegistrationFees      who the members are

Ledger                 LedgerPosting | LedgerSchema | LedgerReads
LoansAndMembers        Loans | Chamas | RegistrationFees | AuthSessions | PlatformAdmins
PaymentsAndConnections Payments | Connections | RateLimiter | C2BPayments

MC*: constants for TLC         *_proofs: theorems
```

**`Money`** has the arithmetic of the ledger: rounding half up to cents (`Quantize`, in tenths of
a cent, so that half cents exist), normalization, mirroring and validation of lines. Negative
amounts are refused by the validation and are not among the inputs.

**`LedgerPosting`** has one request per call of `post_transaction` or `reverse_transaction`. The
labels of `pc` are the points between two statements sent to the database: the lookup by source,
the validation of a reversal reference, insert and commit (or IntegrityError), the second lookup.
`pending` says that the session of the caller still holds uncommitted changes, `changed` that
they are committed; the rollback of the error path drops them. `Journal` is the abstract
specification: a set of transactions to which one sound transaction at a time is added.

**`LedgerSchema`** is the database without the service: sessions insert transactions and entries
of their choice, also to committed transactions, and the keys, the partial index and the
triggers decide what is committed. The deferred triggers run in a step before the commit
(`Examine`), on what is committed then and what the session wrote itself; another session may
commit in between. Before `Upgrade`, the migration, anything may be written and rewritten.

**`LedgerReads`** follows one reader through the pages of the ledger while contributions are
confirmed and reversed by transactions that begin, take time and commit; `created_at` is the
time they began. Analytics and statements are operators on the same state.

**`Contributions`** has one request per operation. `seen` is the status the session loaded.
`SettleFails` and `ReverseAgain` are the outcomes the unique constraints leave to a late request.
`ContributionLifecycle` is the abstract specification: each contribution, with its share and
postings, goes PENDING, CONFIRMED, REVERSED, one step at a time and never back.

**`Payouts`** has sessions that serve one request after the other, so that long sequences of
calls occur. `task` is what the session knows: the operation, the payout, the status it loaded,
the actor. `cashLock` is the FOR UPDATE lock of the Cash account. A posting to Cash inserts entries
that refer to the account, so it waits while another transaction holds the lock; that is why
`PostReversal` is guarded by the lock as well.

**`Loans`** in addition has `rowLock`, because a flushed UPDATE of the loan row is held across a wait
for the account (`record_repayment`) and the other way round (`disburse`): the two can deadlock, and
PostgreSQL aborts one (`AbortDeadlocked`). Interest is 5 % rounded half up. A step of an
operation that is refused on what it has loaded changes nothing, so such tests are guards of the
step that loads.

**`Treasury`** runs `Loans` and `Payouts` on the same `cash` and `cashLock`, while contributions are
confirmed and reversed. Confirmation and reversal do not ask for the balance, and wait only as
every posting does.

**`RegistrationFees`** has sessions that waive, pay or reverse. The payment row is flushed before
the commit, so the partial unique index on confirmed payments makes another payment of the fee
wait or fail (`RefuseInsert`); the reversal posting commits before the rows it belongs to.

**`Payments`** has sessions that run `initiate`, the repair of `list_intents`, and `handle` for
callbacks, against a provider. The provider (`charge`) is honest: a charge has one outcome and
neither callbacks nor queries tell another. It may answer late or not at all, deliver a callback
again and again, with a wrong amount, or never. `Normalized` is the translation of Daraja's answers:
every answer without a known result code is a failure, which is what makes a query fail an
attempt that is later paid. The settlement is one step here; its own interleavings are those of
`Contributions`.

**`C2BPayments`** takes confirmations in three transactions: store the event, settle, write the
event's final status. The provider delivers what it likes as often as it likes, also with an
altered payload and to several processes at once, while contributions are recorded, confirmed by
hand and reversed, members and connections are switched on and off, and processes crash.

**`Connections`** has the operations on connection rows as a load (`Begin…`) and a commit, with
validation calling the provider in between; the UPDATE names the attributes that differ from
what was loaded. A seal is the credentials with the connection, version and key they were sealed
under. `tokens` is Daraja's token cache: with a live token of the consumer key the provider is
not asked about the secret.

**`RateLimiter`** reads the clock and takes the lock in two steps, as `allow` does; granting prunes
expired windows of every key. `forgot` records when a key's window was last pruned, and `late` which
keys were charged, with no window of theirs left, at a time before that.

**`AuthSessions`** and **`PlatformAdmins`** are two views of the users: the first has passwords and
refresh tokens, the second activity, grants and links to persons. Both have a load and a commit
per operation, nothing locked.

**`Chamas`** is one Chama with its number sequence, memberships and roles. The number in a session's
hand was read with the Chama, before the row of the sequence is locked: `Retry` and
`RefuseMembership` are what the unique constraints and MAX_NUMBER_RETRIES leave.

Where a property of these models does not hold of concurrent requests, a history variable
(`overlap`, `late`, `legacy`) names the records for which the race took place, and the property is
stated for the others; section 6 says what the race does.

### Parts of a run

`Ledger`, `LoansAndMembers` and `PaymentsAndConnections` each EXTEND one component, INSTANCE the
others that do not call it at this level, and have a specification `PartsSpec` of their own. The
variable `part`, chosen in the initial state and constant, says which of them moves; the others
stay in their initial state. The state spaces therefore add up and do not multiply, and an
invariant `part = "…" => P` is checked for all behaviours of that component. `PartsAreKept` is the
theorem behind this: a behaviour of the composition is a behaviour of each component. Components
that do share state are composed for real: `Treasury`, and `Contributions` with its ledger and
shares.

## 3. Runs

| Run | Distinct states | Shows |
|---|---|---|
| `ledger_posting` | 715,938 | Types; every posting is well formed; an answer is the posting asked for; no change without posting; reversals are sound; `Journal` is implemented. A hardened database keeps the ledger sound (`HardenedLedgerIsSound`); pages, analytics and statements show all of it (`ReadersSeeTheBooks`). |
| `contributions` | 178,641 | Types; `BooksAgree`, `OneOpenPerSlot`, `SuccessMeansPosted`; `ContributionLifecycle` is implemented. |
| `payouts` | 545,820 | Types; `CashNeverOverdrawn`, `StatusIsBacked`, `NothingPaidWithoutApproval`. |
| `loans` | 1,661,795 | Types; `BooksAreBacked` (with the cash balance), `NothingLentWithoutApproval`, `InterestIsPaidFirst`; `MembershipsAreSound`, `DissolvedIsTerminal`, `FeesMatchLedger`; `SessionsAreSound`, `AdministratorsAreSound`. |
| `treasury` | 62,253 | Types; the balance across services; admissions are covered; every request of both services ends. |
| `payments` | 2,489,850 | Types with the bound on attempts; `SuccessIsPaid`, `SuccessIsSettled`, `OnlyLastAttemptIsOpen`; `ConnectionsAreSound`, `ActiveIsTested`, `BudgetIsKept`, `PaybillIsCredited`. |
| `payments_end` | 41,632 | `StoredSuccessIsSettled` under fairness. |
| `payout_failed`, `payout_equity`, `loan_overpaid`, `loan_reversal`, `payment_twice` | | Statements of the documentation that the code does not keep (section 6). |

Every property of a passing run has a mutant in `PROJECT.json`: a plausible bug in a
definition (the operators marked "Bug:" in the modules), under which TLC finds the property
violated. Properties that join several statements have a mutant for each of them.

### Bounds

* `LedgerPosting`: three requests: the one that posts, the one that races with it, and the one
  that reverses or retries; one business record. The calls include a payload that differs, one
  that differs below the cent only, two half-cent debits that balance before rounding and not
  after, a posting in the wrong Chama, and reversals with and without a reference.
* `LedgerSchema`: two sessions, two transactions, two Chamas, entries of 1, four entries in all
  (`MaxEntries`): a balanced transaction needs two, so two more can be appended by the other
  session, or two sessions can each write a balanced transaction, one reversing the other. The
  theorem (section 4) has no bounds.
* `LedgerReads`: two contributions of two members, confirmed and reversed (four rows), pages of
  one row, times 0 to 2 and months of two: a reversal can fall into another month.
* `Contributions`: five requests. Violations of any of the properties need at most a record, a
  confirmation and two late requests on one contribution, or two records in one slot.
* `Payouts`: two sessions, two payouts of 2, cash 3, shares worth 3: one payout is covered, two
  are not. Two sessions suffice for a stale status, and because a session serves any number of
  requests, sequences are not bounded. Statuses are finite, so no bound in the guards is needed.
* `AuthSessions`: one user, three tokens, two password changes, two sessions: a rotation racing
  another, or racing a change. `PlatformAdmins`: three users, of whom any two may be the last two
  administrators, and one person that two accounts compete for.
* `Loans`: two sessions, two loans of 20 with cash 30, and repayments of 11 and 21, where 21
  is owed: one repayment pays everything and two of 11 pay too much. Two repayments.
* `Chamas`: three members, two leadership roles, two attempts, two sessions: a second attempt
  can fail as well. `RegistrationFees`: a fee of 5 and a fee of 0, three payments: pay, reverse and
  pay again while another payment races.
* `Treasury`: a loan of 20 and a payout of 15 that contributions of 20 and 10 cover one at a
  time. Of two sessions of the loan service and one of the payout service two serve requests
  (`serving` in `MCTreasury`): one of each service, which compete for the account, or both of the
  loan service. It takes those two for the deadlock: each sees the loan APPROVED, one disburses
  it and then records a repayment, which holds the loan and waits for the account, while the
  other holds the account and waits for the loan.
* `Payments`: two sessions, one intent, two attempts (`MaxAttempts`), two charges; in the run
  `payments` callbacks say SUCCEEDED or FAILED; `payments_end` has all four contents, one charge
  and one attempt.
* `C2BPayments`: two TransIDs, the first with two payloads of different amounts, one member, two
  contribution rows, two sessions. `Connections`: one row, which may be of Daraja (cached tokens)
  or Jenga, a right and a wrong secret, two versions, two keys. `RateLimiter`: two threads, two
  keys, two requests in a window of two, times 0 to 4: two windows one after the other.

`CHECK_DEADLOCK FALSE` is given where requests, ids, versions or times are finite in number and can
be used up: in all runs but `payouts`, `payout_*` and `loan_*`. There a session can always take
the next request, and deadlock is checked.

Symmetry is used in runs without liveness properties only, over sets whose members the
model does not distinguish.

### Fairness

* `Payouts`, `Loans`: `WF(Run)`: a request that is being served is served on. `SF(Wait)`: a step
  that needs a lock is taken if it is enabled again and again; PostgreSQL queues the waiters of a
  row lock in order, and resolves deadlocks (`AbortDeadlocked` is part of `Run`). Nothing is
  assumed about new requests or crashes. `RequestsEnd` is checked for both services at once in
  `treasury`, where either can hold the account the other waits for, and where a disbursement and a
  repayment wait for each other; without `AbortDeadlocked` TLC finds them waiting for ever.
* `Payments`: `WF(Run)` as above. Strong fairness on the delivery of a success: the provider
  delivers again what was not acknowledged. Strong fairness on `FindAttempt` and `ApplySuccess`:
  a crash does not hit the same place for ever. Without the redelivery the stored event would
  stay RECEIVED for ever; that is what the code relies on (`services/payment_webhook.py:192-199`).

## 4. Proofs

Every safety invariant and every action property that a passing run checks is a theorem, for all
values of the constants: any number of requests or sessions, contributions, payouts, loans,
members, accounts, fees, callbacks, connections and rows, and ledger lines of any length. The
theorems rest on named assumptions about constants, one in each module (`LedgerAssumption`,
`LoanAssumption`, …): that `None` is not one of the modelled things, and that parameters have their
types (an amount paid out or lent is positive, a limit is a natural number). Three say more: the
sessions of `AuthSessions` and the members of `LedgerReads` are finite sets, and the services of
`Treasury` have no session in common. TLC evaluates each assumption in the runs, those of INSTANCEd
modules through `PartsAssumption` and `ServicesAssumption`.

| Module | Theorems |
|---|---|
| `Sums_proofs` | Lemmas: what `SumFunction` of the community modules computes over a finite set. |
| `Ledger_proofs` | `TypeCorrect`, `PostingsWellFormed`, `AnswersAreRight`, `ChangesFollowPostings`, `ReversalsSound`, `PostingImplementsJournal`; `HardenedLedgerSound`; `ReadersAlwaysSeeTheBooks`; `TypesCorrect` |
| `Contributions_proofs` | `TypeCorrect`, `BooksAlwaysAgree`, `SlotsHoldOneOpenContribution`, `SettledMeansPosted`, `ContributionsImplementLifecycle` |
| `Payouts_proofs` | `TypeCorrect`, `CashIsNeverOverdrawn`, `StatusesAreBacked`, `PaymentsWereApproved`, `CashIsWhatWasPosted` |
| `Loans_proofs` | `TypeCorrect`, `BooksAlwaysBacked`, `LoansWereApproved`, `InterestAlwaysFirst` |
| `Treasury_proofs` | `TypeCorrect`, `CashIsWhatWasPosted`, `AdmissionsCovered` |
| `LoansAndMembers_proofs` | `TypesCorrect`, `MembershipsAlwaysSound`, `DissolutionIsFinal`, `FeesStayMatched`, `SessionsAlwaysSound`, `AdministratorsAlwaysSound` |
| `PaymentsAndConnections_proofs` | `TypeCorrect`, `SuccessAlwaysPaid`, `SuccessAlwaysSettled`, `OnlyLastAlwaysOpen`; `ConnectionsAlwaysSound`, `ActiveAlwaysTested`, `BudgetAlwaysKept`, `PaybillAlwaysCredited`; `TypesCorrect` |

Each component has an inductive invariant, with one lemma per action or per kind of step. For an
INSTANCEd component the theorem is proved of the component's own specification first
(`ChamaMembershipsSound`, `AuthSessionsSound`, …) and then of the composition, with `PartsAreKept`.
An instance has its own copies of the library's operators (`DB!Cardinality`,
`Lending!SumFunction`); short lemmas say that the copies agree with the ones the library's theorems
speak of.

**Sums.** `SumFunctionOnSet` picks the elements of a set one after the other, by CHOOSE. The
lemmas show that the function it is defined by exists and is unique, by induction over the subsets of
a finite set (the strict subset ordering is well-founded; `SubsetInduction` is stated with sets of
subsets in place of predicates), and from this that the order does not matter: `SumTakes` takes any
element out. What the models need are `TotalAdds` and `TotalChanges`: a sum grows by what one more
element contributes, or by the difference where one element changes.

What the inductive invariants add to the properties:

* `LedgerPosting`: a validated reversal reference stays valid up to the insert
  (`ReferenceStands`), because transactions are never deleted, so that the insert needs
  nothing but the unique index; and whoever's changes are committed has an answer
  (`ChangedIsDone`), which is why `NoChangeWithoutPosting` follows. An id is
  not used twice, because an insert commits the caller's session (`PostedAreChanged`).
* `LedgerSchema`: a row is in one hand at a time (`RowsAreOwned`), and what a session has examined
  balances with whatever is committed by now (`BalanceHolds`). The second is why triggers that see
  one writer's rows only are enough: of a transaction that balances, two additions that each
  leave it balanced leave it balanced together (`BalancedTogether`). It is also why the
  transactions that were out of balance at the migration are excepted: two sessions may each
  repair one, and both pass.
* `LedgerReads`: an id is used once and a contribution has one transaction under way, which finds
  the status it needs (`RowsAreSound`). The rows that have been given are not earlier than the
  cursor, and a row of `began` that has not been given is earlier (`WalkIsSound`); so nothing is
  missed when the cursor reaches the end, whatever commits meanwhile. A commit changes the sum of
  one member in one month by the cash of one row, on both sides of each equation.
* `Contributions`: a loaded status may be out of date in one direction only (`LoadedStatus`):
  a contribution seen CONFIRMED is CONFIRMED or REVERSED. A late confirmation meets the
  share's unique constraint, a late reversal the source's.
* `Payouts`: the lock is held exactly at the labels between the read and the posting
  (`LockHolder`), so the cash that was compared is still there (`AdmittedCash`); reversals only
  add cash. A status past approval, in a row or in the memory of a session, has its approval on
  record (`ApprovalOnRecord`), and a session that saw COMPLETED knows of the posting
  (`SeenCompleted`); so statuses that are written over by late requests do no harm to what is
  proved.
* `Loans`: what sessions have in hand agrees with the rows as far as it matters (`InFlight`): a
  repayment that pays principal pays the interest that is missing, unless a repayment of the loan was
  reversed (`InterestInFlight`); a repayment that is being reversed is on the books as it was
  loaded, and is marked only behind its compensating posting (`ReversalInFlight`). Loans that are
  disbursed are finite in number (`FinitelyMany`), so that their sum is defined.
* `Treasury`: the invariants of both services over one account. A step of one service leaves the
  rows of the other alone, and changes the cash only when nobody holds the lock or it holds the lock
  itself, so what the other was admitted with is still there. A reversal of a contribution may
  not take the cash below what an admitted request needs, because it waits for the lock as well.
* `Chamas`: a number in hand is one that has been given or the next one (`NumbersInHand`), so a
  number that is free is the next one, and the counter is never set back by a stale hand. A role
  in hand is the only one unless two are assigned at a time (`RolesInHand`); a change of status in
  hand is of a Chama that is not dissolved unless two are changed at a time (`StatusesInHand`).
* `RegistrationFees`: who is about to post holds the index entry of a fee without a confirmed
  payment, alone (`PostersHoldTheIndex`); who marks a payment REVERSED has found it on the fee and
  its compensating posting is there (`UndoersFoundIt`).
* `C2BPayments`: who settles a payment has stored its event, with this payload, and is alone with
  it (`SettlersStoredIt`), because the unique index lets one delivery through; the payment has
  confirmed nothing as long as it is settled (`NotYetCredited`), because whatever it confirms has
  an event (`CreditsHaveEvents`), also after a crash. The contribution that was found keeps its
  member and amount (`FoundIsThere`), whoever confirms or reverses it in between.
* `AuthSessions`: what a request has read of its user is still so unless operations of the user
  overlap (`AuthFreshInHand`); a token that was issued for another belongs to the same user
  (`AuthParentsAreThere`). With overlap a token may have several successors, but each has used up
  a session that presented it while it was live: successors and those still presenting it
  are together no more than the sessions (`HeirsAreCounted`).
* `PlatformAdmins`: a removal in hand leaves an active administrator
  (`AdminRemovalsLeaveOne`), unless two removals are in hand at a time.
* `Payments`: what an attempt asked the provider for is a charge of its intent
  (`RequestsAreCharges`), and a session that is about to record a success holds an answer about a
  charge that has been paid (`TasksInHand`). The lemmas about tasks are over `RowsGrow`, what is never
  undone: attempts keep what they asked for, a closed attempt stays closed, a paid charge
  stays paid, the contribution does not become PENDING again. What a session knows therefore stays
  true whatever the others do, although the statuses it writes over do not.
* `Connections`: a validation that nobody came in between has seen the row as it is
  (`HeldAreKnown`), so what becomes ACTIVE is what was tested; a cached token was given for the
  consumer key it is kept under (`TokensAreGenuine`).
* `RateLimiter`: the window that is counted is the last one, and the count is what was granted in
  it (`CountsTell`). When a window is followed by another or pruned, it is over at the time of the
  thread that does so, whatever the clock says by then. With no window counted, all were over when
  the last one was pruned; a thread with a time before that is the exception (`late`).

The refinement theorems show that an initial state maps to an initial state and each step to
a step of the abstract specification or a stutter.

### Only model-checked

Liveness: `RequestsEnd` and `StoredSuccessIsSettled`. Both follow from fairness, that is from
ENABLED, which is out of the provers' reach. The runs with `expect: violation` refute statements
and need no proof.

What recursive definitions compute is not proved in general: of the validation that debits equal
credits under rounding, the proofs use that whatever is inserted has passed it, or is the mirror
image of a call that is validated in turn. `SumFunction` is the exception, above.

## 5. Abstractions

* Authorization, roles and membership status only refuse a request before it does anything; the
  exceptions are the rule that nobody acts on a payout or loan of his own, and the roles in
  `Chamas`, `PlatformAdmins` and the active memberships of `C2BPayments`, which are modelled.
* Amounts are small integers; names, descriptions, phone numbers, keys and hashes are
  values that are equal or not. Idempotency keys are the intents themselves.
* The audit trail and notifications are left out, apart from the separate commit of the audit event
  in `Contributions` and the audit rows of `Connections`.
* The lock of a row that a commit overwrites is modelled only where it is held across a wait
  (`Loans`).
* Attempts have no status UNKNOWN: the code never writes it.
* Share values are constants of `Payouts` and `Loans`.
* A restart loses open transactions and what is in memory, which is Daraja's token cache
  (`Connections!ForgetToken`) and the rate limiter's counters; `RateLimiter` is one process between
  two starts.
* Expiry: a refresh token that has expired is revoked when it is presented (`AuthSessions!Logout`);
  tokens of providers expire at any time (`ForgetToken`).

## 6. Disagreements with the documentation

With a run whose counterexample TLC prints:

* **`payout_failed`** – `complete` and `fail` both load the payout as PROCESSING. `complete` commits
  COMPLETED with the posting, then `fail` commits FAILED. ADR-021: "A failed payout posts no ledger
  entry."
* **`payout_equity`** – the share value is tested when a payout is requested, against COMPLETED
  payouts only. Two requests one after the other are admitted, approved and completed. ADR-021: "a
  member can never receive more than the equity".
* **`loan_overpaid`** – two repayments recorded at the same time are both tested against the balance
  before either. ADR-020: "Repaid amount <= repayment obligation".
* **`loan_reversal`** – one session suffices: the status after a reversal is recomputed by a query
  that, with `autoflush=False`, still sees the reversed repayment. The tests use a session factory
  that flushes (`tests/conftest.py`), so they do not see it. ADR-020: "A repayment reversal
  recomputes the loan status from the remaining confirmed repayments."
* **`payment_twice`** – two `initiate` calls both find no attempt and both ask the provider for a
  charge; only then does the unique attempt number stop one of them, and the charge it made is
  forgotten. "never create a duplicate request while the outcome is unknown"
  (`services/payment_intent.py:17-18`). The same invariant is broken by one session when the
  connection breaks after the request was sent (`PROVIDER_UNREACHABLE`, `RESPONSE_MALFORMED`:
  retryable), and when a status query is answered without a result code, which the adapter
  translates to FAILED.

Modelled, without a run of their own. Money:

* `cancel` after `disburse`, both having loaded APPROVED: the loan is CANCELLED and the principal
  gone (`Loans!WriteStatus`). It is the loan's form of `payout_failed`.
* After an overpayment and a reversal the outstanding interest can be negative; the interest portion
  of any further repayment is negative too and its insert fails a CHECK (`Loans!ReadOwed`).
* A confirmation is committed before its audit event (`Contributions!RecordAudit`).
* A registration fee of 0 is OWED and cannot be paid, only waived: payments must be positive
  (`RegistrationFees!InsertPayment`).
* Entries may be appended to a committed transaction by a writer other than the service, as long
  as it balances afterwards: the triggers block UPDATE and DELETE only (`LedgerSchema!InsertEntry`).
  The migration does not examine the balance of old transactions (`legacy`).
* Collection is counted by month of posting, contribution statements by `confirmed_at`: the same
  confirmation can be in two months (`LedgerReads!CommitPosting`). `ReadersSeeTheBooks` compares all
  months together.

Payments:

* A crash after PROCESSING is committed and before the attempt is inserted leaves an intent that
  no `initiate` can continue: the transition PROCESSING to PROCESSING is refused
  (`Payments!LoadAttempts`).
* An attempt that timed out has no request id; neither a query nor a callback ever resolves it.
  A charge that Daraja accepts without a CheckoutRequestID is recorded as a failure for good.
* A session that loaded an intent as PROCESSING may write FAILED over SUCCEEDED, or PROCESSING
  over a final status. What remains true is `SuccessIsPaid` and `SuccessIsSettled`.
* A callback that overtakes the insert of its attempt is UNPROCESSABLE, and its redelivery is
  DEDUPLICATED; only a status query finds the payment then.
* A second paid intent for a contribution that is confirmed succeeds, and nothing is posted for it
  (`Payments!Settle`).
* A FAILED callback does not change `retryable`, which is False while an attempt is in flight: the
  next `initiate` fails the intent instead of retrying.
* C2B: a second payment of the same amount in a period finds the confirmed contribution and is
  PROCESSED without being posted (`C2BPayments!Find`), although `services/c2b_payment.py:20` says that
  the money is posted. A confirmation whose processing crashed after it was stored is
  DEDUPLICATED when it is delivered again, and one that came while the connection was disabled is
  UNPROCESSABLE and then DEDUPLICATED: both payments stay uncredited. `api/v1/c2b.py:7-10` still
  says that confirmations are not posted and validations always rejected.

Connections and limits:

* A validation that races with a replacement leaves the new credentials ACTIVE without a test, or
  overwrites DISABLED (`Connections!Validate`; `ActiveIsTested` excepts `overlap`).
* Daraja's cached token validates a wrong secret of the same consumer key for as long as it lives
  (`ActiveIsTested` says so). An answer that does not come makes the connection INVALID.
* The audit rows of a connection go with it when it is deleted (`models/payment_connection_audit.py`:
  ON DELETE CASCADE).
* A thread overtaken between the clock and the lock by a grant to another key can be granted more,
  because its own window has been pruned at that later time (`late`).

Accounts and Chamas:

* A login or rotation that loaded the user before a password change leaves a live token of the
  old password (`SessionsFollowPassword` excepts `overlap`); two rotations of a token both succeed.
* The last two administrators can remove themselves or each other at the same time.
* Two assignments at a time give a membership two leadership roles; a chairperson who removes her
  own role leaves a Chama nobody in it can administer (`Chamas!Remove`).
* Two administrators who change the status of a Chama at a time can revive a DISSOLVED one.

Read while modelling, not modelled: the downgrade of `d1e2f3a4b5c6` drops
`uq_ledger_transactions_chama_id` (389) before the foreign key of the entries that depends on it,
which PostgreSQL refuses; the comment in `services/statement.py:115-117` says that a member's
statement is narrowed to accounts, while the code below keeps every ledger line; the closing
balance of a statement sums debits less credits over all accounts and so is 0 for any period;
`encryption_key_version` is written once and not by key rotation.

## 7. Plan

What is modelled is complete but for the parts listed below; what would add most:

1. `C2BPayments` and `Payments` over one contribution, with the lock-free lookups of both, and the
   proofs carried over as `Treasury_proofs` does it.
2. Binding of a callback to its connection, and signatures, as outcomes of `Payments!Deliver`.
3. Abstract specifications for payouts and loans, as `ContributionLifecycle` is for contributions:
   what a payout that nobody interferes with goes through, and which steps only a race adds.

### Not modelled

* Audit and notifications: rows are appended and read by nobody who decides anything; when they
  are committed is modelled where it matters.
* HTTP routers, schemas, error codes: each endpoint calls one service operation, which is where
  the models start. PDF layout and HTTP metrics: formatting.
* The HTTP clients of the providers beyond the answers they can give; request signatures, callback
  tokens and body limits, which reject before anything is read.
* Loan and expense figures of analytics: sums over rows without a second source to agree with.
* The other migrations, which create and alter tables without reading rows, and operator scripts.
* Password hashing, the password policy and the content of access tokens; edits of names, fee
  amounts and personal details.

## 8. Running

```
tlc -config MCPayouts.cfg MCPayouts        # and likewise the other cfg files
tlapm Payouts_proofs.tla                   # and the other *_proofs modules
```
