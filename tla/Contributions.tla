--------------------------- MODULE Contributions ---------------------------
(***************************************************************************)
(* Contributions, their share and their ledger postings, translated from   *)
(* ContributionService (app/services/contribution.py) and the settlement   *)
(* of linked payments (app/services/settlement.py).                        *)
(*                                                                         *)
(* Each request runs in its own session and database transaction.  The     *)
(* status a service tests is the one its session loaded; the UPDATE it     *)
(* later commits names the row by id only, so it overwrites whatever is    *)
(* there.  What stands between two such requests are the unique            *)
(* constraints: one open contribution per membership and period, one share *)
(* per contribution, one ledger transaction per source.                    *)
(*                                                                         *)
(* Authorization and role checks only refuse a request before it touches   *)
(* anything and are left out.                                              *)
(***************************************************************************)
EXTENDS Naturals, FiniteSets

CONSTANTS
  Requests,   \* a contribution is named by the request that recorded it
  Slots,      \* (membership, period) pairs
  None

ASSUME ContributionAssumption == None \notin Requests /\ None \notin Slots

VARIABLES
  status,     \* contributions.status, "ABSENT" when there is no row
  slot,       \* membership and period of the row
  share,      \* shares.status of the row's share, "NONE" when there is none
  ledger,     \* sources posted: <<"CONFIRMATION", c>> and <<"REVERSAL", c>>
  audit,      \* audit events: <<operation, c>>
  pc,         \* where each request is
  op,         \* its operation
  target,     \* the contribution it works on
  seen        \* the status its session loaded

vars == <<status, slot, share, ledger, audit, pc, op, target, seen>>

Confirmation(c) == <<"CONFIRMATION", c>>
Reversal(c) == <<"REVERSAL", c>>

Statuses == {"ABSENT", "PENDING", "CONFIRMED", "REVERSED"}
Operations == {"record", "confirm", "settle", "reverse"}

Init ==
  /\ status = [c \in Requests |-> "ABSENT"]
  /\ slot = [c \in Requests |-> None]
  /\ share = [c \in Requests |-> "NONE"]
  /\ ledger = {}
  /\ audit = {}
  /\ pc = [r \in Requests |-> "idle"]
  /\ op = [r \in Requests |-> None]
  /\ target = [r \in Requests |-> None]
  /\ seen = [r \in Requests |-> None]

Rows == <<status, slot, share, ledger>>

Goto(r, label) == pc' = [pc EXCEPT ![r] = label]

Open(c) == status[c] \in {"PENDING", "CONFIRMED"}

(* record, _find_open_contribution                                         *)
FindOpen(r, s) ==
  /\ pc[r] = "idle"
  /\ Goto(r, IF \E c \in Requests : Open(c) /\ slot[c] = s THEN "refused" ELSE "create")
  /\ op' = [op EXCEPT ![r] = "record"]
  /\ target' = [target EXCEPT ![r] = r]
  /\ seen' = [seen EXCEPT ![r] = s]
  /\ UNCHANGED <<Rows, audit>>

(* Bug: only pending contributions are in the unique index.                *)
PendingInSlot(s) == \E c \in Requests : status[c] = "PENDING" /\ slot[c] = s

(* uq_contributions_membership_period_open                                 *)
SlotTaken(s) == \E c \in Requests : Open(c) /\ slot[c] = s

(* record, the insert: another request may have taken the slot since.      *)
Create(r) ==
  /\ pc[r] = "create"
  /\ ~ SlotTaken(seen[r])
  /\ status' = [status EXCEPT ![r] = "PENDING"]
  /\ slot' = [slot EXCEPT ![r] = seen[r]]
  /\ Goto(r, "audit")
  /\ UNCHANGED <<share, ledger, audit, op, target, seen>>

CreateFails(r) ==
  /\ pc[r] = "create"
  /\ SlotTaken(seen[r])
  /\ Goto(r, "refused")
  /\ UNCHANGED <<Rows, audit, op, target, seen>>

(* Loading the contribution: _get_chama_contribution, or get_by_id in      *)
(* settle_linked_contribution.                                             *)
Load(r, c, operation) ==
  /\ pc[r] = "idle"
  /\ status[c] # "ABSENT"
  /\ op' = [op EXCEPT ![r] = operation]
  /\ target' = [target EXCEPT ![r] = c]
  /\ seen' = [seen EXCEPT ![r] = status[c]]
  /\ Goto(r, "loaded")
  /\ UNCHANGED <<Rows, audit>>

(* The status test of _settle and of reverse, on the loaded status.  A     *)
(* settlement accepts a contribution that is already confirmed.            *)
Admissible(r) ==
  \/ op[r] \in {"confirm", "settle"} /\ seen[r] = "PENDING"
  \/ op[r] = "reverse" /\ seen[r] = "CONFIRMED"

CheckStatus(r) ==
  /\ pc[r] = "loaded"
  /\ Goto(r, IF Admissible(r) THEN "write"
             ELSE IF op[r] = "settle" /\ seen[r] = "CONFIRMED" THEN "done"
             ELSE "refused")
  /\ UNCHANGED <<Rows, audit, op, target, seen>>

(* Bug: no unique constraint on the share's contribution.                  *)
SettleWithoutConstraint(r) ==
  LET c == target[r] IN
  /\ pc[r] = "write"
  /\ op[r] \in {"confirm", "settle"}
  /\ status' = [status EXCEPT ![c] = "CONFIRMED"]
  /\ share' = [share EXCEPT ![c] = "ACTIVE"]
  /\ ledger' = ledger \cup {Confirmation(c)}
  /\ Goto(r, "audit")
  /\ UNCHANGED <<slot, audit, op, target, seen>>

(* Bug: only the manual confirmation posts.                                *)
SettleWithoutPosting(r) ==
  LET c == target[r] IN
  /\ pc[r] = "write"
  /\ op[r] \in {"confirm", "settle"}
  /\ share[c] = "NONE"
  /\ status' = [status EXCEPT ![c] = "CONFIRMED"]
  /\ share' = [share EXCEPT ![c] = "ACTIVE"]
  /\ ledger' = IF op[r] = "confirm" THEN ledger \cup {Confirmation(c)} ELSE ledger
  /\ Goto(r, "audit")
  /\ UNCHANGED <<slot, audit, op, target, seen>>

(* _settle: status, share and confirmation posting in one commit.          *)
Settle(r) ==
  LET c == target[r] IN
  /\ pc[r] = "write"
  /\ op[r] \in {"confirm", "settle"}
  /\ share[c] = "NONE"
  /\ status' = [status EXCEPT ![c] = "CONFIRMED"]
  /\ share' = [share EXCEPT ![c] = "ACTIVE"]
  /\ ledger' = ledger \cup {Confirmation(c)}
  /\ Goto(r, "audit")
  /\ UNCHANGED <<slot, audit, op, target, seen>>

(* uq_shares_contribution_id: the flush of the second share fails, nothing *)
(* of this request is committed.                                           *)
SettleFails(r) ==
  /\ pc[r] = "write"
  /\ op[r] \in {"confirm", "settle"}
  /\ share[target[r]] # "NONE"
  /\ Goto(r, "refused")
  /\ UNCHANGED <<Rows, audit, op, target, seen>>

(* Bug: the share is left as it is.                                        *)
ReverseWithoutShare(r) ==
  LET c == target[r] IN
  /\ pc[r] = "write"
  /\ op[r] = "reverse"
  /\ Reversal(c) \notin ledger
  /\ status' = [status EXCEPT ![c] = "REVERSED"]
  /\ ledger' = ledger \cup {Reversal(c)}
  /\ Goto(r, "audit")
  /\ UNCHANGED <<slot, share, audit, op, target, seen>>

(* Bug: the share gets a contribution's status.                            *)
ReverseSharePending(r) ==
  LET c == target[r] IN
  /\ pc[r] = "write"
  /\ op[r] = "reverse"
  /\ Reversal(c) \notin ledger
  /\ status' = [status EXCEPT ![c] = "REVERSED"]
  /\ share' = [share EXCEPT ![c] = "PENDING"]
  /\ ledger' = ledger \cup {Reversal(c)}
  /\ Goto(r, "audit")
  /\ UNCHANGED <<slot, audit, op, target, seen>>

(* reverse: status, share and compensating posting in one commit.          *)
Reverse(r) ==
  LET c == target[r] IN
  /\ pc[r] = "write"
  /\ op[r] = "reverse"
  /\ Reversal(c) \notin ledger
  /\ status' = [status EXCEPT ![c] = "REVERSED"]
  /\ share' = [share EXCEPT ![c] = IF @ = "NONE" THEN @ ELSE "REVERSED"]
  /\ ledger' = ledger \cup {Reversal(c)}
  /\ Goto(r, "audit")
  /\ UNCHANGED <<slot, audit, op, target, seen>>

(* reverse, when another request has posted the reversal: either the retry *)
(* is answered with it and the same status is committed again, or          *)
(* _validate_reversal_reference raises.                                    *)
ReverseAgain(r) ==
  LET c == target[r] IN
  /\ pc[r] = "write"
  /\ op[r] = "reverse"
  /\ Reversal(c) \in ledger
  /\ \/ /\ status' = [status EXCEPT ![c] = "REVERSED"]
        /\ share' = [share EXCEPT ![c] = IF @ = "NONE" THEN @ ELSE "REVERSED"]
        /\ Goto(r, "audit")
     \/ /\ Goto(r, "refused")
        /\ UNCHANGED <<status, share>>
  /\ UNCHANGED <<slot, ledger, audit, op, target, seen>>

(* AuditService.record_commit: a commit of its own, after the other.       *)
RecordAudit(r) ==
  /\ pc[r] = "audit"
  /\ audit' = audit \cup {<<op[r], target[r]>>}
  /\ Goto(r, "done")
  /\ UNCHANGED <<Rows, op, target, seen>>

(* The process dies; what is not committed is rolled back.                 *)
Crash(r) ==
  /\ pc[r] \in {"create", "loaded", "write", "audit"}
  /\ Goto(r, "crashed")
  /\ UNCHANGED <<Rows, audit, op, target, seen>>

Step(r) ==
  \/ \E s \in Slots : FindOpen(r, s)
  \/ Create(r)
  \/ CreateFails(r)
  \/ \E c \in Requests, operation \in {"confirm", "settle", "reverse"} : Load(r, c, operation)
  \/ CheckStatus(r)
  \/ Settle(r)
  \/ SettleFails(r)
  \/ Reverse(r)
  \/ ReverseAgain(r)
  \/ RecordAudit(r)
  \/ Crash(r)

Next == \E r \in Requests : Step(r)

Spec == Init /\ [][Next]_vars
-----------------------------------------------------------------------------
(* Type invariant.                                                         *)
TypeOK ==
  /\ status \in [Requests -> Statuses]
  /\ slot \in [Requests -> Slots \cup {None}]
  /\ share \in [Requests -> {"NONE", "ACTIVE", "REVERSED"}]
  /\ ledger \subseteq {"CONFIRMATION", "REVERSAL"} \X Requests
  /\ audit \subseteq Operations \X Requests
  /\ pc \in [Requests -> {"idle", "create", "loaded", "write", "audit",
                          "done", "refused", "crashed"}]
  /\ op \in [Requests -> Operations \cup {None}]
  /\ target \in [Requests -> Requests \cup {None}]
  /\ seen \in [Requests -> Statuses \cup Slots \cup {None}]

(* Status, share and ledger tell the same story of every contribution,     *)
(* although each request decides on a status that may be out of date       *)
(* (ADR-014: "Confirmation and reversal of contributions write to the      *)
(* ledger exactly once").                                                  *)
BooksAgree ==
  \A c \in Requests :
    /\ status[c] = "CONFIRMED" <=> Confirmation(c) \in ledger /\ Reversal(c) \notin ledger
    /\ status[c] = "REVERSED" <=> Reversal(c) \in ledger
    /\ status[c] = "CONFIRMED" <=> share[c] = "ACTIVE"
    /\ status[c] = "REVERSED" <=> share[c] = "REVERSED"

(* "A membership may have at most one non-reversed contribution per        *)
(* calendar period" (ADR-009), also after a late confirmation.             *)
OneOpenPerSlot ==
  \A c, d \in Requests : Open(c) /\ Open(d) /\ slot[c] = slot[d] => c = d

(* A confirmation or settlement that reports success has its money in the  *)
(* ledger: settle_linked_contribution returns True only then, and the      *)
(* payment behind it may be closed.                                        *)
SuccessMeansPosted ==
  \A r \in Requests :
    op[r] \in {"confirm", "settle"} /\ pc[r] \in {"audit", "done"} =>
      Confirmation(target[r]) \in ledger
-----------------------------------------------------------------------------
(* The inductive invariant: what a request that is still going to write    *)
(* knows of its contribution, however late it is.                          *)
ReversedWasConfirmed ==
  \A c \in Requests : Reversal(c) \in ledger => Confirmation(c) \in ledger

RowsAreRecorded ==
  \A c \in Requests :
    /\ status[c] = "ABSENT" <=> slot[c] = None
    /\ status[c] # "ABSENT" => pc[c] \notin {"idle", "create"}

CreatingOwnRow ==
  \A r \in Requests :
    pc[r] = "create" => op[r] = "record" /\ target[r] = r /\ seen[r] \in Slots

(* A loaded status can be out of date, but only in one direction.          *)
LoadedStatus ==
  \A r \in Requests :
    pc[r] \in {"loaded", "write"} =>
      /\ op[r] \in {"confirm", "settle", "reverse"}
      /\ target[r] \in Requests
      /\ status[target[r]] # "ABSENT"
      /\ seen[r] = "CONFIRMED" => status[target[r]] \in {"CONFIRMED", "REVERSED"}

WritersWereAdmitted == \A r \in Requests : pc[r] = "write" => Admissible(r)

AuditorsHaveTarget ==
  \A r \in Requests : pc[r] = "audit" => target[r] \in Requests /\ op[r] \in Operations

Inv ==
  /\ TypeOK
  /\ BooksAgree
  /\ OneOpenPerSlot
  /\ SuccessMeansPosted
  /\ ReversedWasConfirmed
  /\ RowsAreRecorded
  /\ CreatingOwnRow
  /\ LoadedStatus
  /\ WritersWereAdmitted
  /\ AuditorsHaveTarget
-----------------------------------------------------------------------------
Lifecycle == INSTANCE ContributionLifecycle WITH
  Contributions <- Requests,
  row <- [c \in Requests |->
            [status |-> status[c], share |-> share[c],
             postings |-> {kind \in {"CONFIRMATION", "REVERSAL"} : <<kind, c>> \in ledger}]]

(* Every interleaving of requests is an execution of the lifecycle: each   *)
(* contribution passes through its states in order and once, and the books *)
(* move with it.                                                           *)
ImplementsLifecycle == Lifecycle!Spec
=============================================================================
