----------------------- MODULE Contributions_proofs -----------------------
(***************************************************************************)
(* Proofs about Contributions, for any number of requests and slots.       *)
(***************************************************************************)
EXTENDS Contributions, TLAPS

(* Distinct sources are distinct ledger entries.                           *)
LEMMA SourcesDiffer ==
  ASSUME NEW c, NEW d
  PROVE  /\ Confirmation(c) # Reversal(d)
         /\ Confirmation(c) = Confirmation(d) => c = d
         /\ Reversal(c) = Reversal(d) => c = d
  BY DEF Confirmation, Reversal

THEOREM InitInv == Init => Inv
  BY ContributionAssumption
     DEF Init, Inv, TypeOK, BooksAgree, OneOpenPerSlot, SuccessMeansPosted,
         ReversedWasConfirmed, RowsAreRecorded, CreatingOwnRow, LoadedStatus,
         WritersWereAdmitted, AuditorsHaveTarget, Open, Statuses, Operations,
         Confirmation, Reversal

(* Steps that write no row only have to respect what each label says.      *)
LEMMA MoveKeepsRows ==
  ASSUME Inv, UNCHANGED Rows
  PROVE  BooksAgree' /\ OneOpenPerSlot' /\ ReversedWasConfirmed'
  BY DEF Inv, Rows, BooksAgree, OneOpenPerSlot, Open, ReversedWasConfirmed

LEMMA FindOpenKeepsInv ==
  ASSUME Inv, NEW r \in Requests, NEW s \in Slots, FindOpen(r, s)
  PROVE  Inv'
<1> USE DEF Inv, FindOpen, Goto, Rows
<1>1. TypeOK'
  BY DEF TypeOK, Operations
<1>2. SuccessMeansPosted' /\ RowsAreRecorded' /\ CreatingOwnRow'
  BY DEF TypeOK, SuccessMeansPosted, RowsAreRecorded, CreatingOwnRow, Confirmation
<1>3. LoadedStatus' /\ WritersWereAdmitted' /\ AuditorsHaveTarget'
  BY DEF TypeOK, LoadedStatus, WritersWereAdmitted, Admissible, AuditorsHaveTarget
<1>4. QED
  BY <1>1, <1>2, <1>3, MoveKeepsRows

LEMMA LoadKeepsInv ==
  ASSUME Inv, NEW r \in Requests, NEW c \in Requests,
         NEW operation \in {"confirm", "settle", "reverse"}, Load(r, c, operation)
  PROVE  Inv'
<1> USE DEF Inv, Load, Goto, Rows
<1>1. TypeOK'
  BY DEF TypeOK, Operations
<1>2. SuccessMeansPosted' /\ RowsAreRecorded' /\ CreatingOwnRow'
  BY DEF TypeOK, SuccessMeansPosted, RowsAreRecorded, CreatingOwnRow, Confirmation
<1>3. LoadedStatus' /\ WritersWereAdmitted' /\ AuditorsHaveTarget'
  BY DEF TypeOK, LoadedStatus, WritersWereAdmitted, Admissible, AuditorsHaveTarget
<1>4. QED
  BY <1>1, <1>2, <1>3, MoveKeepsRows

(* Steps that only move the program counter, and where they may lead.      *)
LEMMA GotoKeepsInv ==
  ASSUME Inv, NEW r \in Requests,
         NEW label \in {"write", "done", "refused", "crashed"}, Goto(r, label),
         pc[r] \in {"create", "loaded", "write", "audit"},
         label = "write" => pc[r] = "loaded" /\ Admissible(r),
         label = "done" => \/ op[r] \notin {"confirm", "settle"}
                           \/ Confirmation(target[r]) \in ledger,
         UNCHANGED <<Rows, op, target, seen>>,
         audit' \subseteq Operations \X Requests
  PROVE  Inv'
<1> USE DEF Inv, Goto, Rows
<1>1. TypeOK'
  BY DEF TypeOK
<1>2. SuccessMeansPosted' /\ RowsAreRecorded' /\ CreatingOwnRow'
  BY DEF TypeOK, SuccessMeansPosted, RowsAreRecorded, CreatingOwnRow
<1>3. LoadedStatus' /\ WritersWereAdmitted' /\ AuditorsHaveTarget'
  BY DEF TypeOK, LoadedStatus, WritersWereAdmitted, Admissible, AuditorsHaveTarget
<1>4. QED
  BY <1>1, <1>2, <1>3, MoveKeepsRows

(* A settlement accepts an already confirmed contribution only when its    *)
(* money is in the ledger.                                                 *)
LEMMA CheckStatusKeepsInv ==
  ASSUME Inv, NEW r \in Requests, CheckStatus(r)
  PROVE  Inv'
<1>1. audit' \subseteq Operations \X Requests
  BY DEF CheckStatus, Inv, TypeOK
<1>2. CASE Admissible(r)
  BY <1>1, <1>2, GotoKeepsInv DEF CheckStatus
<1>3. CASE ~ Admissible(r) /\ op[r] = "settle" /\ seen[r] = "CONFIRMED"
  <2>1. status[target[r]] \in {"CONFIRMED", "REVERSED"} /\ target[r] \in Requests
    BY <1>3 DEF CheckStatus, Inv, LoadedStatus
  <2>2. Confirmation(target[r]) \in ledger
    BY <2>1 DEF Inv, BooksAgree, ReversedWasConfirmed
  <2>3. QED
    BY <1>1, <1>3, <2>2, GotoKeepsInv DEF CheckStatus
<1>4. CASE ~ Admissible(r) /\ ~ (op[r] = "settle" /\ seen[r] = "CONFIRMED")
  BY <1>1, <1>4, GotoKeepsInv DEF CheckStatus
<1>5. QED
  BY <1>2, <1>3, <1>4

LEMMA CreateKeepsInv ==
  ASSUME Inv, NEW r \in Requests, Create(r)
  PROVE  Inv'
<1> USE DEF Inv, Create, Goto
<1>1. /\ op[r] = "record" /\ target[r] = r /\ seen[r] \in Slots
      /\ status[r] = "ABSENT"
  BY DEF CreatingOwnRow, RowsAreRecorded, TypeOK
<1>2. TypeOK'
  BY <1>1 DEF TypeOK, Statuses
<1>3. BooksAgree' /\ ReversedWasConfirmed'
  BY <1>1 DEF TypeOK, BooksAgree, ReversedWasConfirmed
<1>4. OneOpenPerSlot'
  BY <1>1 DEF TypeOK, OneOpenPerSlot, SlotTaken, Open
<1>5. SuccessMeansPosted' /\ RowsAreRecorded' /\ CreatingOwnRow'
  BY <1>1, ContributionAssumption DEF TypeOK, SuccessMeansPosted, RowsAreRecorded, CreatingOwnRow
<1>6. LoadedStatus' /\ WritersWereAdmitted' /\ AuditorsHaveTarget'
  BY <1>1 DEF TypeOK, LoadedStatus, WritersWereAdmitted, Admissible, AuditorsHaveTarget, Operations
<1>7. QED
  BY <1>2, <1>3, <1>4, <1>5, <1>6

(* The share's unique constraint lets a settlement through only while the  *)
(* contribution is still pending, whatever the session loaded.             *)
LEMMA SettleKeepsInv ==
  ASSUME Inv, NEW r \in Requests, Settle(r)
  PROVE  Inv'
<1> USE DEF Inv, Settle, Goto
<1>1. /\ op[r] \in {"confirm", "settle"} /\ target[r] \in Requests
      /\ status[target[r]] = "PENDING"
  BY DEF LoadedStatus, BooksAgree, TypeOK, Statuses
<1>2. TypeOK'
  BY <1>1 DEF TypeOK, Statuses, Confirmation
<1>3. BooksAgree' /\ ReversedWasConfirmed'
  BY <1>1, SourcesDiffer DEF TypeOK, BooksAgree, ReversedWasConfirmed
<1>4. OneOpenPerSlot'
  BY <1>1 DEF TypeOK, OneOpenPerSlot, Open
<1>5. SuccessMeansPosted' /\ RowsAreRecorded' /\ CreatingOwnRow'
  BY <1>1 DEF TypeOK, SuccessMeansPosted, RowsAreRecorded, CreatingOwnRow
<1>6. LoadedStatus' /\ WritersWereAdmitted' /\ AuditorsHaveTarget'
  BY <1>1 DEF TypeOK, LoadedStatus, WritersWereAdmitted, Admissible, AuditorsHaveTarget, Operations
<1>7. QED
  BY <1>2, <1>3, <1>4, <1>5, <1>6

(* A reversal writes over a confirmed contribution, or over one that is    *)
(* already reversed: the loaded status was CONFIRMED, and from there the   *)
(* contribution can only have been reversed.                               *)
LEMMA ReversalTarget ==
  ASSUME Inv, NEW r \in Requests, Reverse(r) \/ ReverseAgain(r)
  PROVE  /\ target[r] \in Requests /\ op[r] = "reverse"
         /\ Reversal(target[r]) \notin ledger => status[target[r]] = "CONFIRMED"
         /\ Reversal(target[r]) \in ledger => status[target[r]] = "REVERSED"
  BY DEF Inv, Reverse, ReverseAgain, LoadedStatus, WritersWereAdmitted, Admissible, BooksAgree

LEMMA ReverseKeepsInv ==
  ASSUME Inv, NEW r \in Requests, Reverse(r)
  PROVE  Inv'
<1> USE DEF Inv, Reverse, Goto
<1>1. /\ op[r] = "reverse" /\ target[r] \in Requests
      /\ status[target[r]] = "CONFIRMED" /\ share[target[r]] = "ACTIVE"
  BY ReversalTarget DEF BooksAgree
<1>2. TypeOK'
  BY <1>1 DEF TypeOK, Statuses, Reversal
<1>3. BooksAgree' /\ ReversedWasConfirmed'
  BY <1>1, SourcesDiffer DEF TypeOK, BooksAgree, ReversedWasConfirmed
<1>4. OneOpenPerSlot'
  BY <1>1 DEF TypeOK, OneOpenPerSlot, Open
<1>5. SuccessMeansPosted' /\ RowsAreRecorded' /\ CreatingOwnRow'
  BY <1>1 DEF TypeOK, SuccessMeansPosted, RowsAreRecorded, CreatingOwnRow
<1>6. LoadedStatus' /\ WritersWereAdmitted' /\ AuditorsHaveTarget'
  BY <1>1 DEF TypeOK, LoadedStatus, WritersWereAdmitted, Admissible, AuditorsHaveTarget, Operations
<1>7. QED
  BY <1>2, <1>3, <1>4, <1>5, <1>6

(* Writing the status of a reversed contribution again changes no row.     *)
LEMMA ReverseAgainChangesNothing ==
  ASSUME Inv, NEW r \in Requests, ReverseAgain(r)
  PROVE  UNCHANGED Rows
<1>1. /\ target[r] \in Requests /\ status[target[r]] = "REVERSED"
      /\ share[target[r]] = "REVERSED"
  BY ReversalTarget DEF Inv, BooksAgree, ReverseAgain
<1>2. QED
  BY <1>1 DEF ReverseAgain, Rows, Inv, TypeOK

LEMMA ReverseAgainKeepsInv ==
  ASSUME Inv, NEW r \in Requests, ReverseAgain(r)
  PROVE  Inv'
<1> USE DEF Inv, ReverseAgain, Goto
<1>1. UNCHANGED Rows /\ op[r] = "reverse" /\ target[r] \in Requests
  BY ReverseAgainChangesNothing, ReversalTarget
<1>2. TypeOK'
  BY <1>1 DEF TypeOK, Rows
<1>3. SuccessMeansPosted' /\ RowsAreRecorded' /\ CreatingOwnRow'
  BY <1>1 DEF TypeOK, SuccessMeansPosted, RowsAreRecorded, CreatingOwnRow, Rows
<1>4. LoadedStatus' /\ WritersWereAdmitted' /\ AuditorsHaveTarget'
  BY <1>1 DEF TypeOK, LoadedStatus, WritersWereAdmitted, Admissible, AuditorsHaveTarget, Operations, Rows
<1>5. QED
  BY <1>1, <1>2, <1>3, <1>4, MoveKeepsRows

LEMMA RefusalKeepsInv ==
  ASSUME Inv, NEW r \in Requests, CreateFails(r) \/ SettleFails(r) \/ Crash(r)
  PROVE  Inv'
<1>1. audit' \subseteq Operations \X Requests
  BY DEF Inv, TypeOK, CreateFails, SettleFails, Crash
<1>2. CASE CreateFails(r)
  BY <1>1, <1>2, GotoKeepsInv DEF CreateFails
<1>3. CASE SettleFails(r)
  BY <1>1, <1>3, GotoKeepsInv DEF SettleFails
<1>4. CASE Crash(r)
  BY <1>1, <1>4, GotoKeepsInv DEF Crash
<1>5. QED
  BY <1>2, <1>3, <1>4

LEMMA RecordAuditKeepsInv ==
  ASSUME Inv, NEW r \in Requests, RecordAudit(r)
  PROVE  Inv'
<1>1. audit' \subseteq Operations \X Requests
  BY DEF Inv, TypeOK, RecordAudit, AuditorsHaveTarget
<1>2. op[r] \in {"confirm", "settle"} => Confirmation(target[r]) \in ledger
  BY DEF Inv, SuccessMeansPosted, RecordAudit
<1>3. QED
  BY <1>1, <1>2, GotoKeepsInv DEF RecordAudit

THEOREM NextInv == Inv /\ [Next]_vars => Inv'
<1> SUFFICES ASSUME Inv, [Next]_vars
             PROVE  Inv'
  OBVIOUS
<1>1. CASE UNCHANGED vars
  BY <1>1 DEF vars, Inv, TypeOK, BooksAgree, OneOpenPerSlot, Open, SuccessMeansPosted,
              ReversedWasConfirmed, RowsAreRecorded, CreatingOwnRow, LoadedStatus,
              WritersWereAdmitted, Admissible, AuditorsHaveTarget
<1>2. CASE Next
  <2> SUFFICES ASSUME NEW r \in Requests, Step(r)
               PROVE  Inv'
    BY <1>2 DEF Next
  <2>1. CASE \E s \in Slots : FindOpen(r, s)
    BY <2>1, FindOpenKeepsInv
  <2>2. CASE Create(r)
    BY <2>2, CreateKeepsInv
  <2>3. CASE \E c \in Requests, operation \in {"confirm", "settle", "reverse"} :
               Load(r, c, operation)
    BY <2>3, LoadKeepsInv
  <2>4. CASE CheckStatus(r)
    BY <2>4, CheckStatusKeepsInv
  <2>5. CASE Settle(r)
    BY <2>5, SettleKeepsInv
  <2>6. CASE Reverse(r)
    BY <2>6, ReverseKeepsInv
  <2>7. CASE ReverseAgain(r)
    BY <2>7, ReverseAgainKeepsInv
  <2>8. CASE RecordAudit(r)
    BY <2>8, RecordAuditKeepsInv
  <2>9. CASE CreateFails(r) \/ SettleFails(r) \/ Crash(r)
    BY <2>9, RefusalKeepsInv
  <2>10. QED
    BY <2>1, <2>2, <2>3, <2>4, <2>5, <2>6, <2>7, <2>8, <2>9 DEF Step
<1>3. QED
  BY <1>1, <1>2

THEOREM SpecInv == Spec => []Inv
<1>1. QED
  BY InitInv, NextInv, PTL DEF Spec

(* Type correctness (ContributionService and its tables).                  *)
THEOREM TypeCorrect == Spec => []TypeOK
<1>1. Inv => TypeOK
  BY DEF Inv
<1>2. QED
  BY <1>1, SpecInv, PTL

(* Status, share and ledger agree on every contribution at every moment,   *)
(* for any number of concurrent confirmations, settlements and reversals   *)
(* (contribution.py, _settle and reverse).                                 *)
THEOREM BooksAlwaysAgree == Spec => []BooksAgree
<1>1. Inv => BooksAgree
  BY DEF Inv
<1>2. QED
  BY <1>1, SpecInv, PTL

(* No membership ever has two open contributions for a period              *)
(* (contribution.py, record, and the index behind it).                     *)
THEOREM SlotsHoldOneOpenContribution == Spec => []OneOpenPerSlot
<1>1. Inv => OneOpenPerSlot
  BY DEF Inv
<1>2. QED
  BY <1>1, SpecInv, PTL

(* A settlement that answers success has posted (settlement.py, _settle).  *)
THEOREM SettledMeansPosted == Spec => []SuccessMeansPosted
<1>1. Inv => SuccessMeansPosted
  BY DEF Inv
<1>2. QED
  BY <1>1, SpecInv, PTL
-----------------------------------------------------------------------------
(* What the lifecycle sees of contribution c.                              *)
PostingsOf(c) == {kind \in {"CONFIRMATION", "REVERSAL"} : <<kind, c>> \in ledger}

RowOf(c) == [status |-> status[c], share |-> share[c], postings |-> PostingsOf(c)]

Row == [c \in Requests |-> RowOf(c)]

(* A step that leaves the rows alone is a stutter of the lifecycle.        *)
LEMMA MoveIsStutter ==
  ASSUME UNCHANGED Rows
  PROVE  UNCHANGED <<slot, Row>>
  BY DEF Rows, Row, RowOf, PostingsOf

(* A row changes for the one contribution written, the others keep theirs. *)
LEMMA OneRowChanges ==
  ASSUME NEW c \in Requests, NEW new,
         RowOf(c)' = new,
         \A d \in Requests \ {c} : UNCHANGED RowOf(d)
  PROVE  Row' = [Row EXCEPT ![c] = new]
  BY DEF Row

LEMMA CreateIsRecord ==
  ASSUME Inv, NEW r \in Requests, Create(r)
  PROVE  Lifecycle!Record(r)
<1>1. /\ target[r] = r /\ seen[r] \in Slots /\ status[r] = "ABSENT"
  BY DEF Inv, Create, CreatingOwnRow, RowsAreRecorded, TypeOK
<1>2. share[r] = "NONE" /\ PostingsOf(r) = {}
  BY <1>1 DEF Inv, BooksAgree, ReversedWasConfirmed, TypeOK, PostingsOf, Confirmation, Reversal
<1>3. Row[r] = Lifecycle!Absent
  BY <1>1, <1>2 DEF Row, RowOf, Lifecycle!Absent, Lifecycle!Row
<1>4. Row' = [Row EXCEPT ![r] = Lifecycle!Pending]
  <2>1. \A d \in Requests : UNCHANGED PostingsOf(d) /\ UNCHANGED share[d]
    BY DEF Create, PostingsOf
  <2>2. RowOf(r)' = Lifecycle!Pending
    BY <1>2, <2>1 DEF Create, RowOf, Lifecycle!Pending, Lifecycle!Row, Inv, TypeOK
  <2>3. \A d \in Requests \ {r} : UNCHANGED RowOf(d)
    BY <2>1 DEF Create, RowOf, Inv, TypeOK
  <2>4. QED
    BY <2>2, <2>3, OneRowChanges
<1>5. Lifecycle!Free(seen[r])
  <2>1. SUFFICES ASSUME NEW c \in Requests, slot[c] = seen[r]
                 PROVE  Row[c] = Lifecycle!Reversed
    BY DEF Lifecycle!Free, Row, RowOf, PostingsOf
  <2>2. status[c] = "REVERSED"
    BY <1>1, <2>1, ContributionAssumption
       DEF Create, SlotTaken, Open, Inv, RowsAreRecorded, TypeOK, Statuses
  <2>3. share[c] = "REVERSED" /\ PostingsOf(c) = {"CONFIRMATION", "REVERSAL"}
    BY <2>2 DEF Inv, BooksAgree, ReversedWasConfirmed, PostingsOf, Confirmation, Reversal
  <2>4. QED
    BY <2>2, <2>3 DEF Row, RowOf, Lifecycle!Reversed, Lifecycle!Row
<1>6. slot' = [slot EXCEPT ![r] = seen[r]]
  BY DEF Create
<1>7. QED
  BY <1>1, <1>3, <1>4, <1>5, <1>6 DEF Lifecycle!Record, Row, RowOf, PostingsOf

LEMMA SettleIsConfirm ==
  ASSUME Inv, NEW r \in Requests, Settle(r)
  PROVE  \E c \in Requests : Lifecycle!Confirm(c)
<1>1. PICK c \in Requests : c = target[r]
  BY DEF Inv, Settle, LoadedStatus
<1>2. share[c] = "NONE" /\ status[c] = "PENDING"
  BY <1>1 DEF Inv, Settle, LoadedStatus, BooksAgree, TypeOK, Statuses
<1>3. PostingsOf(c) = {}
  BY <1>2 DEF Inv, BooksAgree, ReversedWasConfirmed, PostingsOf, Confirmation, Reversal
<1>4. Row[c] = Lifecycle!Pending
  BY <1>2, <1>3 DEF Row, RowOf, Lifecycle!Pending, Lifecycle!Row
<1>5. PostingsOf(c)' = {"CONFIRMATION"}
  BY <1>1, <1>3 DEF Settle, PostingsOf, Confirmation
<1>6. RowOf(c)' = Lifecycle!Confirmed
  BY <1>1, <1>5 DEF Settle, RowOf, Lifecycle!Confirmed, Lifecycle!Row, Inv, TypeOK
<1>7. \A d \in Requests \ {c} : UNCHANGED RowOf(d)
  BY <1>1 DEF Settle, RowOf, PostingsOf, Inv, TypeOK, Confirmation
<1>8. Row' = [Row EXCEPT ![c] = Lifecycle!Confirmed]
  BY <1>6, <1>7, OneRowChanges
<1>9. QED
  BY <1>4, <1>8 DEF Settle, Lifecycle!Confirm, Row, RowOf, PostingsOf

LEMMA ReverseIsReverse ==
  ASSUME Inv, NEW r \in Requests, Reverse(r)
  PROVE  \E c \in Requests : Lifecycle!Reverse(c)
<1>1. PICK c \in Requests : c = target[r]
  BY ReversalTarget
<1>2. share[c] = "ACTIVE" /\ status[c] = "CONFIRMED"
  BY <1>1, ReversalTarget DEF Inv, Reverse, BooksAgree
<1>3. PostingsOf(c) = {"CONFIRMATION"}
  BY <1>2 DEF Inv, BooksAgree, PostingsOf, Confirmation, Reversal
<1>4. Row[c] = Lifecycle!Confirmed
  BY <1>2, <1>3 DEF Row, RowOf, Lifecycle!Confirmed, Lifecycle!Row
<1>5. PostingsOf(c)' = {"CONFIRMATION", "REVERSAL"}
  BY <1>1, <1>3 DEF Reverse, PostingsOf, Reversal
<1>6. RowOf(c)' = Lifecycle!Reversed
  BY <1>1, <1>2, <1>5 DEF Reverse, RowOf, Lifecycle!Reversed, Lifecycle!Row, Inv, TypeOK
<1>7. \A d \in Requests \ {c} : UNCHANGED RowOf(d)
  BY <1>1 DEF Reverse, RowOf, PostingsOf, Inv, TypeOK, Reversal
<1>8. Row' = [Row EXCEPT ![c] = Lifecycle!Reversed]
  BY <1>6, <1>7, OneRowChanges
<1>9. QED
  BY <1>4, <1>8 DEF Reverse, Lifecycle!Reverse, Row, RowOf, PostingsOf

LEMMA InitIsInit == Init => Lifecycle!Init
  BY DEF Init, Lifecycle!Init, Lifecycle!Absent, Lifecycle!Row

LEMMA StepRefines ==
  ASSUME Inv, [Next]_vars
  PROVE  [Lifecycle!Next]_<<slot, Row>>
<1>1. CASE UNCHANGED vars
  BY <1>1, MoveIsStutter DEF vars, Rows
<1>2. CASE Next
  <2> SUFFICES ASSUME NEW r \in Requests, Step(r)
               PROVE  [Lifecycle!Next]_<<slot, Row>>
    BY <1>2 DEF Next
  <2>1. CASE Create(r)
    BY <2>1, CreateIsRecord DEF Lifecycle!Next
  <2>2. CASE Settle(r)
    BY <2>2, SettleIsConfirm DEF Lifecycle!Next
  <2>3. CASE Reverse(r)
    BY <2>3, ReverseIsReverse DEF Lifecycle!Next
  <2>4. CASE ReverseAgain(r)
    BY <2>4, ReverseAgainChangesNothing, MoveIsStutter
  <2>5. CASE \/ \E s \in Slots : FindOpen(r, s)
             \/ \E c \in Requests, operation \in {"confirm", "settle", "reverse"} :
                  Load(r, c, operation)
             \/ CreateFails(r) \/ CheckStatus(r) \/ SettleFails(r)
             \/ RecordAudit(r) \/ Crash(r)
    <3>1. UNCHANGED Rows
      BY <2>5 DEF FindOpen, Load, CreateFails, CheckStatus, SettleFails, RecordAudit, Crash
    <3>2. QED
      BY <3>1, MoveIsStutter
  <2>6. QED
    BY <2>1, <2>2, <2>3, <2>4, <2>5 DEF Step
<1>3. QED
  BY <1>1, <1>2

(* The requests implement the lifecycle: whatever they interleave, each    *)
(* contribution is recorded, confirmed and reversed at most once, in this  *)
(* order, its share and its postings with it (ContributionService).        *)
THEOREM ContributionsImplementLifecycle == Spec => ImplementsLifecycle
<1>1. Row = [c \in Requests |->
              [status |-> status[c], share |-> share[c],
               postings |-> {kind \in {"CONFIRMATION", "REVERSAL"} : <<kind, c>> \in ledger}]]
  BY DEF Row, RowOf, PostingsOf
<1>2. Inv /\ [Next]_vars => [Lifecycle!Next]_<<slot, Row>>
  BY StepRefines
<1>3. QED
  BY <1>1, <1>2, InitIsInit, SpecInv, PTL DEF Spec, ImplementsLifecycle, Lifecycle!Spec, Row, RowOf, PostingsOf
=============================================================================
