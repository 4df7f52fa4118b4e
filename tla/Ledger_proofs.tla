---------------------------- MODULE Ledger_proofs ---------------------------
(***************************************************************************)
(* Proofs about Money, LedgerPosting, LedgerSchema and LedgerReads, and    *)
(* about Ledger that runs them beside each other: for every set of         *)
(* requests, sources, Chamas and line lists, for any number of writers,    *)
(* transactions and entries of any amounts, and for pages and months of    *)
(* any length.  Inv, SchemaInv and SeenInv are the inductive invariants;   *)
(* every safety property of LedgerPosting is one of Inv's conjuncts or     *)
(* follows from them.                                                      *)
(***************************************************************************)
EXTENDS Ledger, SequenceTheorems, Sums_proofs, TLAPS

(* Rounding yields whole cents.                                            *)
LEMMA QuantizeWholeCents ==
  ASSUME NEW x \in Int
  PROVE  Quantize(x) \in Int /\ Quantize(x) % Cent = 0
  BY Z3 DEF Quantize, Cent

(* What membership in Seq(R) says of the items of a sequence.              *)
LEMMA SequenceItems ==
  ASSUME NEW R, NEW s \in Seq(R)
  PROVE  /\ Len(s) \in Nat
         /\ DOMAIN s = 1..Len(s)
         /\ \A i \in 1..Len(s) : s[i] \in R
  BY LenProperties, ElementOfSeq

(* And back: a function on 1..n with values in R is a sequence over R.     *)
LEMMA SequenceFromItems ==
  ASSUME NEW R, NEW n \in Nat, NEW s, s = [i \in 1..n |-> s[i]],
         \A i \in 1..n : s[i] \in R
  PROVE  s \in Seq(R)
<1>1. s \in [1..n -> R]
  OBVIOUS
<1>2. QED
  BY <1>1, SeqDef

(* Normalized lines are lines on the same accounts, in whole cents.        *)
LEMMA NormalizedLines ==
  ASSUME NEW A, NEW lines \in Seq(LinesOn(A))
  PROVE  /\ NormalizeLines(lines) \in Seq(LinesOn(A))
         /\ \A i \in DOMAIN NormalizeLines(lines) :
              /\ NormalizeLines(lines)[i].debit % Cent = 0
              /\ NormalizeLines(lines)[i].credit % Cent = 0
<1> DEFINE new == NormalizeLines(lines)
<1>1. /\ Len(lines) \in Nat
      /\ DOMAIN lines = 1..Len(lines)
      /\ \A i \in 1..Len(lines) : lines[i] \in LinesOn(A)
  BY SequenceItems
<1>2. /\ DOMAIN new = 1..Len(lines)
      /\ new = [i \in 1..Len(lines) |-> new[i]]
  BY <1>1 DEF NormalizeLines
<1>3. ASSUME NEW i \in 1..Len(lines)
      PROVE  new[i] \in LinesOn(A) /\ new[i].debit % Cent = 0 /\ new[i].credit % Cent = 0
  <2>1. /\ lines[i].account \in A
        /\ lines[i].debit \in Int
        /\ lines[i].credit \in Int
    BY <1>1 DEF LinesOn
  <2>2. new[i] = [account |-> lines[i].account, debit |-> Quantize(lines[i].debit),
                  credit |-> Quantize(lines[i].credit)]
    BY <1>1 DEF NormalizeLines, Line
  <2>3. /\ Quantize(lines[i].debit) \in Int
        /\ Quantize(lines[i].debit) % Cent = 0
        /\ Quantize(lines[i].credit) \in Int
        /\ Quantize(lines[i].credit) % Cent = 0
    BY <2>1, QuantizeWholeCents
  <2> HIDE DEF new
  <2>4. new[i] \in LinesOn(A)
    BY <2>1, <2>2, <2>3 DEF LinesOn
  <2>5. QED
    BY <2>2, <2>3, <2>4
<1>4. new \in Seq(LinesOn(A))
  <2> HIDE DEF new
  <2>1. QED
    BY <1>1, <1>2, <1>3, SequenceFromItems
<1>5. QED
  BY <1>2, <1>3, <1>4

(* The lines of a reversal are lines on the same accounts.                 *)
LEMMA MirroredLines ==
  ASSUME NEW A, NEW lines \in Seq(LinesOn(A))
  PROVE  Mirror(lines) \in Seq(LinesOn(A))
<1> DEFINE new == Mirror(lines)
<1>1. /\ Len(lines) \in Nat
      /\ DOMAIN lines = 1..Len(lines)
      /\ \A i \in 1..Len(lines) : lines[i] \in LinesOn(A)
  BY SequenceItems
<1>2. new = [i \in 1..Len(lines) |-> new[i]]
  BY <1>1 DEF Mirror
<1>3. ASSUME NEW i \in 1..Len(lines)
      PROVE  new[i] \in LinesOn(A)
  <2>1. new[i] = [account |-> lines[i].account, debit |-> lines[i].credit,
                  credit |-> lines[i].debit]
    BY <1>1 DEF Mirror, Line
  <2>2. QED
    BY <1>1, <2>1 DEF LinesOn
<1>4. QED
  <2> HIDE DEF new
  <2>1. new \in Seq(LinesOn(A))
    BY <1>1, <1>2, <1>3, SequenceFromItems
  <2>2. QED
    BY <2>1 DEF new

(* Lines that pass the validation are at least two, on accounts of the     *)
(* Chama.                                                                  *)
LEMMA ValidLinesAreTwo ==
  ASSUME NEW A, NEW lines \in Seq(LinesOn(A)), NEW accounts, ValidLines(lines, accounts)
  PROVE  /\ Balanced(lines)
         /\ Len(lines) >= 2
         /\ \A i \in DOMAIN lines : lines[i].account \in accounts
<1>1. Len(lines) \in Nat /\ DOMAIN lines = 1..Len(lines)
  BY SequenceItems
<1>2. PICK i \in 1..Len(lines) : lines[i].debit > 0
  BY <1>1 DEF ValidLines
<1>3. PICK j \in 1..Len(lines) : lines[j].credit > 0
  BY <1>1 DEF ValidLines
<1>4. i # j
  BY <1>1, <1>2, <1>3 DEF ValidLines, ValidLine
<1>5. Len(lines) >= 2
  BY <1>1, <1>2, <1>3, <1>4
<1>6. QED
  BY <1>5 DEF ValidLines, ValidLine

-----------------------------------------------------------------------------
(* The call a request carries after Prepare is well typed and well formed. *)
LEMMA PreparedCall ==
  ASSUME NEW args \in Arguments, NEW c,
         c = [args EXCEPT !.lines = NormalizeLines(args.lines)],
         ValidLines(c.lines, AccountsOf[c.chama])
  PROVE  c \in Arguments /\ WellFormed(c)
<1> DEFINE A == UNION {AccountsOf[d] : d \in Chamas}
<1>1. args.lines \in Seq(LinesOn(A))
  BY DEF Arguments, LineLists
<1>2. c.lines = NormalizeLines(args.lines)
  BY DEF Arguments
<1>3. /\ c.lines \in Seq(LinesOn(A))
      /\ \A i \in DOMAIN c.lines : c.lines[i].debit % Cent = 0 /\ c.lines[i].credit % Cent = 0
  BY <1>1, <1>2, NormalizedLines
<1>4. c \in Arguments
  BY <1>2, <1>3 DEF Arguments, LineLists
<1>5. /\ Balanced(c.lines)
      /\ Len(c.lines) >= 2
      /\ \A i \in DOMAIN c.lines : c.lines[i].account \in AccountsOf[c.chama]
  BY <1>3, ValidLinesAreTwo
<1>6. QED
  BY <1>3, <1>4, <1>5 DEF WellFormed

(* reverse_transaction passes well-typed arguments to post_transaction.    *)
LEMMA ReversalArguments ==
  ASSUME TypeOK, NEW t \in ledger, NEW description \in Descriptions
  PROVE  ReversalOf(t, description) \in Arguments
<1>1. t \in TransactionRows
  BY DEF TypeOK
<1>2. Mirror(t.lines) \in LineLists
  BY <1>1, MirroredLines DEF TransactionRows, LineLists
<1>3. [type |-> "LEDGER_REVERSAL", id |-> t.id] \in Sources
  BY <1>1 DEF TransactionRows, Sources, SourceTypes
<1>4. QED
  BY <1>1, <1>2, <1>3 DEF ReversalOf, Arguments, TransactionRows

THEOREM InitInv == Init => Inv
  BY DEF Init, Inv, TypeOK, EveryPostingIsWellFormed, CallsInFlight, IdleHasNoAnswer,
         ReturnedHasAnswer,
         AnswerIsThePostingAskedFor, ChangedIsDone, PostedAreChanged,
         ReferenceStands, ReversalsAreSound, InFlight

(* A step that neither adds to the ledger nor sets a call only moves one   *)
(* request: what it has to respect.                                        *)
LEMMA MoveKeepsInv ==
  ASSUME Inv, NEW r \in Requests, NEW label \in {"conflict", "refused", "raised", "crashed"}
                                            \cup {"lookup", "reference", "relookup"},
         pc[r] # "done", Goto(r, label), label \in InFlight => pc[r] \in InFlight,
         ledger' = ledger, call' = call, answer' = answer, changed' = changed,
         pending' \in [Requests -> BOOLEAN]
  PROVE  Inv'
<1> USE DEF Inv
<1>1. TypeOK'
  BY DEF TypeOK, Goto, InFlight
<1>2. EveryPostingIsWellFormed'
  BY DEF EveryPostingIsWellFormed, Goto, TypeOK, WellFormed
<1>3. CallsInFlight' /\ IdleHasNoAnswer' /\ ReturnedHasAnswer' /\ ChangedIsDone'
  BY DEF CallsInFlight, IdleHasNoAnswer, ReturnedHasAnswer, ChangedIsDone, Goto, TypeOK
<1>4. AnswerIsThePostingAskedFor' /\ PostedAreChanged' /\ ReversalsAreSound'
  BY DEF AnswerIsThePostingAskedFor, PostedAreChanged, ReversalsAreSound, SamePosting
<1>5. ReferenceStands'
  BY DEF ReferenceStands, Goto, TypeOK
<1>6. QED
  BY <1>1, <1>2, <1>3, <1>4, <1>5

LEMMA AbandonKeepsInv ==
  ASSUME Inv, NEW r \in Requests,
         NEW label \in {"conflict", "refused", "raised", "crashed", "relookup"},
         pc[r] # "done", label = "relookup" => pc[r] \in InFlight,
         Abandon(r, label), call' = call
  PROVE  Inv'
<1>1. label \in InFlight => pc[r] \in InFlight
  BY DEF InFlight
<1>2. pending' \in [Requests -> BOOLEAN]
  BY DEF Abandon, Inv, TypeOK
<1>3. QED
  BY <1>1, <1>2, MoveKeepsInv DEF Abandon

(* Starting a call: validation either refuses it or leaves it well formed. *)
LEMMA PrepareKeepsInv ==
  ASSUME Inv, NEW r \in Requests, NEW args \in Arguments, pc[r] = "idle", Prepare(r, args)
  PROVE  Inv'
<1> DEFINE c == [args EXCEPT !.lines = NormalizeLines(args.lines)]
<1>1. CASE Abandon(r, "refused") /\ UNCHANGED call
  BY <1>1, AbandonKeepsInv
<1>2. CASE /\ ValidLines(c.lines, AccountsOf[c.chama])
           /\ call' = [call EXCEPT ![r] = c]
           /\ Goto(r, "lookup")
           /\ pending' = [pending EXCEPT ![r] = TRUE]
           /\ UNCHANGED <<ledger, answer, changed>>
  <2>1. c \in Arguments /\ WellFormed(c)
    BY <1>2, PreparedCall
  <2> HIDE DEF c
  <2>2. TypeOK'
    BY <1>2, <2>1 DEF Inv, TypeOK, Goto, InFlight
  <2>3. EveryPostingIsWellFormed'
    BY <1>2, <2>1 DEF Inv, EveryPostingIsWellFormed, Goto, TypeOK
  <2>4. CallsInFlight' /\ ReturnedHasAnswer' /\ ChangedIsDone' /\ ReferenceStands'
    BY <1>2, <2>1 DEF Inv, CallsInFlight, ReturnedHasAnswer, ChangedIsDone, ReferenceStands,
                      Goto, TypeOK
  <2>5. AnswerIsThePostingAskedFor'
    <3>1. answer[r] = None
      BY DEF Inv, IdleHasNoAnswer
    <3>2. QED
      BY <1>2, <2>1, <3>1 DEF Inv, AnswerIsThePostingAskedFor, SamePosting, TypeOK
  <2>6. PostedAreChanged' /\ ReversalsAreSound'
    BY <1>2 DEF Inv, PostedAreChanged, ReversalsAreSound
  <2>7. IdleHasNoAnswer'
    BY <1>2 DEF Inv, IdleHasNoAnswer, Goto, TypeOK
  <2>8. QED
    BY <2>2, <2>3, <2>4, <2>5, <2>6, <2>7 DEF Inv
<1>3. QED
  BY <1>1, <1>2 DEF Prepare

(* An idempotent answer: the row is in the ledger and has the payload.     *)
LEMMA ReturnKeepsInv ==
  ASSUME Inv, NEW r \in Requests, NEW t \in ledger,
         pc[r] \in {"lookup", "relookup"}, t.source = call[r].source, SamePosting(t, r),
         Return(r, t, "returned"), UNCHANGED <<ledger, call, pending, changed>>
  PROVE  Inv'
<1> USE DEF Inv, Return, Goto
<1>1. pc[r] \in InFlight /\ t # None
  BY LedgerAssumption DEF InFlight, TypeOK
<1>2. TypeOK'
  BY DEF TypeOK, InFlight
<1>3. EveryPostingIsWellFormed'
  BY <1>1 DEF EveryPostingIsWellFormed, TypeOK, WellFormed
<1>4. CallsInFlight' /\ ReturnedHasAnswer' /\ ChangedIsDone' /\ IdleHasNoAnswer'
  BY <1>1 DEF CallsInFlight, ReturnedHasAnswer, ChangedIsDone, IdleHasNoAnswer, TypeOK
<1>5. AnswerIsThePostingAskedFor'
  BY DEF AnswerIsThePostingAskedFor, SamePosting, TypeOK
<1>6. PostedAreChanged' /\ ReversalsAreSound' /\ ReferenceStands'
  BY DEF PostedAreChanged, ReversalsAreSound, ReferenceStands, TypeOK
<1>7. QED
  BY <1>2, <1>3, <1>4, <1>5, <1>6

(* The insert: the new row is as well formed as the call, reverses what    *)
(* its reference still names, and is the only reversal of it.              *)
LEMMA InsertKeepsInv ==
  ASSUME Inv, NEW r \in Requests, InsertAndCommit(r)
  PROVE  Inv'
<1> DEFINE t == Transaction(r)
<1> USE DEF Inv, InsertAndCommit, Return, Goto
<1>1. /\ pc[r] \in InFlight
      /\ call[r] \in Arguments
      /\ WellFormed(call[r])
  BY DEF InFlight, CallsInFlight, EveryPostingIsWellFormed
<1>2. t \in TransactionRows /\ t # None
  BY <1>1, LedgerAssumption DEF Transaction, TransactionRows, Arguments, TypeOK
<1>3. TypeOK'
  BY <1>2 DEF TypeOK
<1>4. EveryPostingIsWellFormed'
  <2>1. WellFormed(t)
    BY <1>1 DEF WellFormed, Transaction
  <2>2. QED
    BY <1>1, <2>1 DEF EveryPostingIsWellFormed, TypeOK, WellFormed, InFlight
<1>5. CallsInFlight' /\ ReturnedHasAnswer' /\ ChangedIsDone' /\ IdleHasNoAnswer'
  BY <1>2 DEF CallsInFlight, ReturnedHasAnswer, ChangedIsDone, IdleHasNoAnswer, TypeOK, InFlight
<1>6. AnswerIsThePostingAskedFor'
  BY <1>1 DEF AnswerIsThePostingAskedFor, SamePosting, TypeOK, Transaction, SameLines
<1>7. PostedAreChanged'
  BY DEF PostedAreChanged, Transaction
<1>8. ReferenceStands'
  BY DEF ReferenceStands, TypeOK
<1>9. ReversalsAreSound'
  <2>1. t.reverses = call[r].reverses /\ t.chama = call[r].chama
    BY DEF Transaction
  <2>2. t.reverses # None =>
           /\ \E u \in ledger : u.id = t.reverses /\ u.chama = t.chama /\ u.reverses = None
           /\ \A v \in ledger : v.reverses # t.reverses
    BY <2>1 DEF ReferenceStands, ViolatesUnique
  <2>3. ledger' = ledger \cup {t}
    OBVIOUS
  <2> HIDE DEF t
  <2>4. QED
    BY <2>2, <2>3 DEF ReversalsAreSound
<1>10. QED
  BY <1>3, <1>4, <1>5, <1>6, <1>7, <1>8, <1>9

LEMMA CallerCommitsKeepsInv ==
  ASSUME Inv, NEW r \in Requests, CallerCommits(r)
  PROVE  Inv'
<1> USE DEF Inv, CallerCommits, Goto
<1>1. TypeOK' /\ EveryPostingIsWellFormed'
  BY DEF TypeOK, EveryPostingIsWellFormed, WellFormed, InFlight
<1>2. CallsInFlight' /\ IdleHasNoAnswer' /\ ReturnedHasAnswer' /\ ReferenceStands'
  BY DEF CallsInFlight, IdleHasNoAnswer, ReturnedHasAnswer, ReferenceStands, TypeOK, InFlight
<1>3. ChangedIsDone'
  BY DEF ChangedIsDone, ReturnedHasAnswer, TypeOK
<1>4. AnswerIsThePostingAskedFor' /\ PostedAreChanged' /\ ReversalsAreSound'
  BY DEF AnswerIsThePostingAskedFor, PostedAreChanged, ReversalsAreSound, SamePosting
<1>5. QED
  BY <1>1, <1>2, <1>3, <1>4

(* A validated reference still stands when the request goes on to insert.  *)
LEMMA ReadyKeepsInv ==
  ASSUME Inv, NEW r \in Requests, pc[r] \in {"lookup", "reference"}, Goto(r, "insert"),
         call[r].reverses # None => ReferenceOK(r),
         UNCHANGED <<ledger, call, answer, pending, changed>>
  PROVE  Inv'
<1> USE DEF Inv, Goto
<1>1. TypeOK' /\ EveryPostingIsWellFormed'
  BY DEF TypeOK, EveryPostingIsWellFormed, WellFormed, InFlight
<1>2. CallsInFlight' /\ IdleHasNoAnswer' /\ ReturnedHasAnswer' /\ ChangedIsDone'
  BY DEF CallsInFlight, IdleHasNoAnswer, ReturnedHasAnswer, ChangedIsDone, TypeOK, InFlight
<1>3. ReferenceStands'
  BY DEF ReferenceStands, ReferenceOK, get_by_id_in_chama, TypeOK
<1>4. AnswerIsThePostingAskedFor' /\ PostedAreChanged' /\ ReversalsAreSound'
  BY DEF AnswerIsThePostingAskedFor, PostedAreChanged, ReversalsAreSound, SamePosting
<1>5. QED
  BY <1>1, <1>2, <1>3, <1>4

THEOREM NextInv == Inv /\ [Next]_vars => Inv'
<1> SUFFICES ASSUME Inv, [Next]_vars PROVE Inv'
  OBVIOUS
<1>1. CASE UNCHANGED vars
  BY <1>1 DEF vars, Inv, TypeOK, EveryPostingIsWellFormed, WellFormed, CallsInFlight,
              IdleHasNoAnswer, ReturnedHasAnswer, AnswerIsThePostingAskedFor, SamePosting,
              ChangedIsDone, PostedAreChanged, ReferenceStands, ReversalsAreSound
<1>2. ASSUME NEW r \in Requests, Step(r)
      PROVE  Inv'
  <2>1. CASE post_transaction(r)
    BY <2>1, PrepareKeepsInv, LedgerAssumption DEF post_transaction
  <2>2. CASE reverse_transaction(r)
    <3>1. PICK id \in Requests, chama \in Chamas, description \in Descriptions :
             \/ \E t \in get_by_id_in_chama(chama, id) : Prepare(r, ReversalOf(t, description))
             \/ Abandon(r, "refused") /\ UNCHANGED call
      BY <2>2 DEF reverse_transaction
    <3>2. CASE Abandon(r, "refused") /\ UNCHANGED call
      BY <2>2, <3>2, AbandonKeepsInv DEF reverse_transaction
    <3>3. ASSUME NEW t \in get_by_id_in_chama(chama, id), Prepare(r, ReversalOf(t, description))
          PROVE  Inv'
      <4>1. ReversalOf(t, description) \in Arguments
        BY ReversalArguments DEF get_by_id_in_chama, Inv
      <4>2. QED
        BY <2>2, <3>3, <4>1, PrepareKeepsInv DEF reverse_transaction
    <3>4. QED
      BY <3>1, <3>2, <3>3
  <2>3. CASE FindExisting(r)
    <3>1. PICK t \in get_by_source(call[r].source) :
            \/ /\ SamePosting(t, r)
               /\ Return(r, t, "returned")
               /\ UNCHANGED <<ledger, call, pending, changed>>
            \/ /\ Abandon(r, "conflict")
               /\ UNCHANGED call
      BY <2>3 DEF FindExisting
    <3>2. t \in ledger /\ t.source = call[r].source
      BY DEF get_by_source
    <3>3. QED
      BY <2>3, <3>1, <3>2, ReturnKeepsInv, AbandonKeepsInv DEF FindExisting
  <2>4. CASE FindNothing(r)
    <3>1. CASE call[r].reverses = None
      BY <2>4, <3>1, ReadyKeepsInv DEF FindNothing
    <3>2. CASE call[r].reverses # None
      BY <2>4, <3>2, MoveKeepsInv DEF FindNothing, Inv, TypeOK, InFlight
    <3>3. QED
      BY <3>1, <3>2
  <2>5. CASE ValidateReference(r)
    BY <2>5, ReadyKeepsInv, AbandonKeepsInv DEF ValidateReference
  <2>6. CASE InsertAndCommit(r)
    BY <2>6, InsertKeepsInv
  <2>7. CASE LoseRace(r)
    BY <2>7, AbandonKeepsInv DEF LoseRace, InFlight
  <2>8. CASE LookUpWinner(r)
    <3>1. CASE Abandon(r, "raised") /\ UNCHANGED call
      BY <2>8, <3>1, AbandonKeepsInv DEF LookUpWinner
    <3>2. CASE Abandon(r, "conflict") /\ UNCHANGED call
      BY <2>8, <3>2, AbandonKeepsInv DEF LookUpWinner
    <3>3. CASE \E t \in get_by_source(call[r].source) :
                 /\ SamePosting(t, r)
                 /\ Return(r, t, "returned")
                 /\ UNCHANGED <<ledger, call, pending, changed>>
      BY <2>8, <3>3, ReturnKeepsInv DEF LookUpWinner, get_by_source
    <3>4. QED
      BY <2>8, <3>1, <3>2, <3>3 DEF LookUpWinner
  <2>9. CASE CallerCommits(r)
    BY <2>9, CallerCommitsKeepsInv
  <2>10. CASE Crash(r)
    BY <2>10, AbandonKeepsInv DEF Crash, InFlight
  <2>11. QED
    BY <1>2, <2>1, <2>2, <2>3, <2>4, <2>5, <2>6, <2>7, <2>8, <2>9, <2>10 DEF Step
<1>3. QED
  BY <1>1, <1>2 DEF Next

THEOREM SpecInv == Spec => []Inv
<1>1. QED
  BY InitInv, NextInv, PTL DEF Spec

-----------------------------------------------------------------------------
(* The variables always have their types.                                  *)
THEOREM TypeCorrect == Spec => []TypeOK
<1>1. Inv => TypeOK
  BY DEF Inv
<1>2. QED
  BY <1>1, SpecInv, PTL

(* Everything in the ledger, and everything about to be inserted, balances *)
(* in whole cents on accounts of its own Chama.                            *)
THEOREM PostingsWellFormed == Spec => []EveryPostingIsWellFormed
<1>1. Inv => EveryPostingIsWellFormed
  BY DEF Inv
<1>2. QED
  BY <1>1, SpecInv, PTL

(* A call returns the committed posting with the payload it asked for.     *)
THEOREM AnswersAreRight == Spec => []AnswerIsThePostingAskedFor
<1>1. Inv => AnswerIsThePostingAskedFor
  BY DEF Inv
<1>2. QED
  BY <1>1, SpecInv, PTL

(* The caller's changes are committed with the posting they asked for, or  *)
(* after it (post_transaction's conflict path).                            *)
THEOREM ChangesFollowPostings == Spec => []NoChangeWithoutPosting
<1>1. Inv => NoChangeWithoutPosting
  BY DEF Inv, ChangedIsDone, AnswerIsThePostingAskedFor, NoChangeWithoutPosting, TypeOK
<1>2. QED
  BY <1>1, SpecInv, PTL

(* A transaction is reversed at most once and a reversal never.            *)
THEOREM ReversalsSound == Spec => []ReversalsAreSound
<1>1. Inv => ReversalsAreSound
  BY DEF Inv
<1>2. QED
  BY <1>1, SpecInv, PTL

-----------------------------------------------------------------------------
(* Only the insert changes the ledger.                                     *)
LEMMA OnlyInsertWrites ==
  ASSUME NEW r \in Requests, Step(r), ~ InsertAndCommit(r)
  PROVE  ledger' = ledger
  BY DEF Step, post_transaction, reverse_transaction, Prepare, FindExisting, FindNothing,
         ValidateReference, LoseRace, LookUpWinner, CallerCommits, Crash, Abandon

(* Concurrent posting implements the abstract journal: every step records  *)
(* one acceptable transaction or leaves the journal alone.                 *)
THEOREM PostingImplementsJournal == Spec => ImplementsJournal
<1>1. Init => Journal!Init
  BY DEF Init, Journal!Init
<1>2. Inv /\ [Next]_vars => [Journal!Record]_ledger
  <2> SUFFICES ASSUME Inv, [Next]_vars PROVE [Journal!Record]_ledger
    OBVIOUS
  <2>1. CASE UNCHANGED vars
    BY <2>1 DEF vars
  <2>2. ASSUME NEW r \in Requests, Step(r), ~ InsertAndCommit(r)
        PROVE  [Journal!Record]_ledger
    BY <2>2, OnlyInsertWrites
  <2>3. ASSUME NEW r \in Requests, InsertAndCommit(r)
        PROVE  Journal!Record
    <3> DEFINE t == Transaction(r)
    <3>1. /\ ledger' = ledger \cup {t}
          /\ t.id = r
          /\ t.source = call[r].source
          /\ t.lines = call[r].lines
          /\ t.chama = call[r].chama
          /\ t.reverses = call[r].reverses
      BY <2>3 DEF InsertAndCommit, Transaction
    <3>2. Balanced(t.lines)
      BY <2>3, <3>1 DEF Inv, EveryPostingIsWellFormed, WellFormed, InsertAndCommit, InFlight
    <3>3. \A u \in ledger : u.source # t.source /\ u.id # t.id
      BY <2>3, <3>1 DEF Inv, PostedAreChanged, ChangedIsDone, InsertAndCommit,
         ViolatesUnique
    <3>4. t.reverses # None =>
            /\ \E u \in ledger : u.id = t.reverses /\ u.chama = t.chama /\ u.reverses = None
            /\ \A u \in ledger : u.reverses # t.reverses
      BY <2>3, <3>1 DEF Inv, ReferenceStands, InsertAndCommit, ViolatesUnique
    <3> HIDE DEF t
    <3>5. Journal!Acceptable(t)
      BY <3>2, <3>3, <3>4 DEF Journal!Acceptable
    <3>6. QED
      BY <3>1, <3>5 DEF Journal!Record
  <2>4. QED
    BY <2>1, <2>2, <2>3 DEF Next
<1>3. QED
  BY <1>1, <1>2, SpecInv, PTL DEF Spec, ImplementsJournal, Journal!Spec

-----------------------------------------------------------------------------
(* An id is that of one row: committed, or in the hands of one session.    *)
RowsAreOwned ==
  \A s \in Sessions, t \in LedgerRows : work[s].tx[t] # None =>
    tx[t] = None /\ \A r \in Sessions \ {s} : work[r].tx[t] = None

(* Entries belong to a transaction that is there.                          *)
EntriesHaveParents ==
  \A t \in LedgerRows :
    /\ book[t].count = 0 => book[t] = DB!NoEntries
    /\ tx[t] = None => book[t].count = 0
    /\ \A s \in Sessions :
         /\ work[s].book[t].count = 0 => work[s].book[t] = DB!NoEntries
         /\ DB!Row(s, t) = None => work[s].book[t].count = 0

(* A reversed transaction is there.                                        *)
ReversedExist ==
  \A t \in LedgerRows :
    /\ tx[t] # None /\ tx[t].reverses # None => tx[tx[t].reverses] # None
    /\ \A s \in Sessions :
         work[s].tx[t] # None /\ work[s].tx[t].reverses # None =>
           DB!Row(s, work[s].tx[t].reverses) # None

(* The composite keys, of committed rows and of those to be committed.     *)
KeysHold ==
  hardened => \A t \in LedgerRows :
    /\ tx[t] # None =>
         /\ book[t].owners \subseteq {tx[t].chama}
         /\ tx[t].reverses # None => tx[tx[t].reverses].chama = tx[t].chama
    /\ \A s \in Sessions :
         /\ DB!Row(s, t) # None => work[s].book[t].owners \subseteq {DB!Row(s, t).chama}
         /\ work[s].tx[t] # None /\ work[s].tx[t].reverses # None =>
              DB!Row(s, work[s].tx[t].reverses).chama = work[s].tx[t].chama

(* The unique index on the reversed transaction, over the same rows.       *)
ReversalsAreUnique ==
  hardened => \A t \in LedgerRows, u \in LedgerRows : t # u =>
    /\ tx[t] # None /\ tx[u] # None /\ tx[t].reverses # None =>
         tx[t].reverses # tx[u].reverses
    /\ \A s \in Sessions : work[s].tx[u] # None /\ work[s].tx[u].reverses # None =>
         /\ tx[t] # None => tx[t].reverses # work[s].tx[u].reverses
         /\ \A r \in Sessions : work[r].tx[t] # None =>
              work[r].tx[t].reverses # work[s].tx[u].reverses

(* Committed transactions balance, and so do those that are examined, with *)
(* what their writer adds, whatever is committed before it.                *)
BalanceHolds ==
  hardened => \A t \in LedgerRows \ legacy :
    /\ tx[t] # None => DB!Balanced(book[t])
    /\ \A s \in examined : t \in DB!Examined(s) => DB!Balanced(DB!Plus(book[t], work[s].book[t]))

(* The triggers come with the migration.                                   *)
TriggersComeLate == ~hardened => examined = {}

(* The inductive invariant.                                                *)
SchemaInv ==
  /\ DB!SchemaTypeOK /\ RowsAreOwned /\ EntriesHaveParents /\ ReversedExist
  /\ KeysHold /\ ReversalsAreUnique /\ BalanceHolds /\ TriggersComeLate

-----------------------------------------------------------------------------
LEMMA PlusType ==
  ASSUME NEW a \in DB!Entries, NEW b \in DB!Entries
  PROVE  /\ DB!Plus(a, b) \in DB!Entries
         /\ DB!Plus(a, b).debit = a.debit + b.debit
         /\ DB!Plus(a, b).credit = a.credit + b.credit
         /\ DB!Plus(a, b).count = a.count + b.count
         /\ DB!Plus(a, b).owners = a.owners \cup b.owners
  BY DEF DB!Plus, DB!Entries

LEMMA PlusNothing ==
  ASSUME NEW a \in DB!Entries
  PROVE  DB!Plus(a, DB!NoEntries) = a /\ DB!NoEntries \in DB!Entries /\ DB!NoEntries.count = 0
  BY DEF DB!Plus, DB!Entries, DB!NoEntries

(* What two writers add to a balanced transaction balances together if it  *)
(* does one by one.                                                        *)
LEMMA BalancedTogether ==
  ASSUME NEW a \in DB!Entries, NEW b \in DB!Entries, NEW c \in DB!Entries,
         DB!Balanced(a), DB!Balanced(DB!Plus(a, b)), DB!Balanced(DB!Plus(a, c))
  PROVE  DB!Balanced(DB!Plus(DB!Plus(a, b), c))
<1> DEFINE ab == DB!Plus(a, b)
<1> DEFINE ac == DB!Plus(a, c)
<1> DEFINE all == DB!Plus(ab, c)
<1>1. /\ ab.debit = a.debit + b.debit /\ ab.credit = a.credit + b.credit /\ ab \in DB!Entries
      /\ ac.debit = a.debit + c.debit /\ ac.credit = a.credit + c.credit
  BY PlusType
<1>2. /\ all.debit = ab.debit + c.debit /\ all.credit = ab.credit + c.credit
      /\ all.count = ab.count + c.count
  BY <1>1, PlusType
<1>3. ab.count >= 2 /\ ab.debit = ab.credit /\ ac.debit = ac.credit /\ a.debit = a.credit
  BY DEF DB!Balanced
<1>4. /\ ab.count \in Nat /\ c.count \in Nat /\ a.debit \in Nat /\ a.credit \in Nat
      /\ b.debit \in Nat /\ b.credit \in Nat /\ c.debit \in Nat /\ c.credit \in Nat
  BY <1>1 DEF DB!Entries
<1> HIDE DEF ab, ac, all
<1>5. all.count >= 2 /\ all.debit = all.credit
  BY <1>1, <1>2, <1>3, <1>4
<1>6. QED
  BY <1>5 DEF all, ab, DB!Balanced

(* The types that everything else rests on, value by value.                *)
LEMMA Typed ==
  ASSUME DB!SchemaTypeOK, NEW s \in Sessions, NEW t \in LedgerRows
  PROVE  /\ tx[t] \in DB!Rows \cup {None} /\ book[t] \in DB!Entries
         /\ work[s].tx[t] \in DB!Rows \cup {None} /\ work[s].book[t] \in DB!Entries
         /\ DB!Row(s, t) \in DB!Rows \cup {None}
  BY DEF DB!SchemaTypeOK, DB!Row

(* The effect of an insert, value by value.                                *)
LEMMA InsertTransactionEffect ==
  ASSUME DB!SchemaAssumption, SchemaInv, NEW s \in Sessions, NEW t \in LedgerRows,
         NEW chama \in Chamas,
         NEW r \in LedgerRows \cup {None}, DB!InsertTransaction(s, t, chama, r)
  PROVE  /\ work'[s].tx[t] \in DB!Rows /\ work'[s].tx[t] # None
         /\ work'[s].tx[t].chama = chama /\ work'[s].tx[t].reverses = r
         /\ \A q \in Sessions, u \in LedgerRows :
              /\ ~(q = s /\ u = t) => work'[q].tx[u] = work[q].tx[u]
              /\ work'[q].book[u] = work[q].book[u]
         /\ work' \in [Sessions -> [tx : [LedgerRows -> DB!Rows \cup {None}],
              book : [LedgerRows -> DB!Entries]]]
         /\ DB!Row(s, t)' = work'[s].tx[t] /\ DB!Row(s, t) = None
         /\ \A q \in Sessions, u \in LedgerRows : ~(q = s /\ u = t) =>
              DB!Row(q, u)' = DB!Row(q, u)
         /\ s \notin examined /\ tx[t] = None /\ \A q \in Sessions : work[q].tx[t] = None
         /\ UNCHANGED <<hardened, tx, book, examined, legacy>>
<1> DEFINE row == [chama |-> chama, reverses |-> r]
<1>1. row \in DB!Rows /\ row # None /\ row.chama = chama /\ row.reverses = r
  BY DEF DB!Rows, DB!SchemaAssumption
<1>2. work' = [work EXCEPT ![s].tx[t] = row]
  BY DEF DB!InsertTransaction
<1>3. /\ s \notin examined /\ tx[t] = None /\ \A q \in Sessions : work[q].tx[t] = None
      /\ UNCHANGED <<hardened, tx, book, examined, legacy>>
  BY DEF DB!InsertTransaction, DB!Fresh
<1> HIDE DEF row
<1>4. /\ work'[s].tx[t] = row
      /\ \A q \in Sessions, u \in LedgerRows :
           /\ ~(q = s /\ u = t) => work'[q].tx[u] = work[q].tx[u]
           /\ work'[q].book[u] = work[q].book[u]
      /\ work' \in [Sessions -> [tx : [LedgerRows -> DB!Rows \cup {None}],
           book : [LedgerRows -> DB!Entries]]]
  BY <1>1, <1>2 DEF SchemaInv, DB!SchemaTypeOK
<1>5. /\ DB!Row(s, t)' = work'[s].tx[t] /\ DB!Row(s, t) = None
      /\ \A q \in Sessions, u \in LedgerRows : ~(q = s /\ u = t) => DB!Row(q, u)' = DB!Row(q, u)
  BY <1>3, <1>4 DEF DB!Row
<1>6. QED
  BY <1>1, <1>3, <1>4, <1>5

LEMMA InsertTransactionKeepsInv ==
  ASSUME DB!SchemaAssumption, SchemaInv, NEW s \in Sessions, NEW t \in LedgerRows,
         NEW chama \in Chamas,
         NEW r \in LedgerRows \cup {None}, DB!InsertTransaction(s, t, chama, r)
  PROVE  SchemaInv'
<1>1. /\ work'[s].tx[t] \in DB!Rows /\ work'[s].tx[t] # None
      /\ work'[s].tx[t].chama = chama /\ work'[s].tx[t].reverses = r
  BY InsertTransactionEffect
<1>2. \A q \in Sessions, u \in LedgerRows :
        /\ ~(q = s /\ u = t) => work'[q].tx[u] = work[q].tx[u]
        /\ work'[q].book[u] = work[q].book[u]
  BY InsertTransactionEffect
<1>3. /\ DB!Row(s, t)' = work'[s].tx[t] /\ DB!Row(s, t) = None
      /\ \A q \in Sessions, u \in LedgerRows : ~(q = s /\ u = t) => DB!Row(q, u)' = DB!Row(q, u)
  BY InsertTransactionEffect
<1>4. /\ s \notin examined /\ tx[t] = None /\ \A q \in Sessions : work[q].tx[t] = None
      /\ hardened' = hardened /\ tx' = tx /\ book' = book /\ examined' = examined
      /\ legacy' = legacy
  BY InsertTransactionEffect
<1>5. DB!ReversalKey(s, t, chama, r) /\ DB!ReversalIsFree(r)
  BY DEF DB!InsertTransaction
<1> USE DEF SchemaInv
<1>6. DB!SchemaTypeOK' /\ TriggersComeLate'
  BY <1>4, InsertTransactionEffect DEF DB!SchemaTypeOK, TriggersComeLate
<1>7. RowsAreOwned'
  <2> SUFFICES ASSUME NEW q \in Sessions, NEW u \in LedgerRows, work'[q].tx[u] # None
               PROVE  tx[u] = None /\ \A o \in Sessions \ {q} : work'[o].tx[u] = None
    BY <1>4 DEF RowsAreOwned
  <2>1. CASE u = t
    BY <1>2, <1>4, <2>1
  <2>2. CASE u # t
    BY <1>2, <2>2 DEF RowsAreOwned
  <2>3. QED
    BY <2>1, <2>2
<1>8. EntriesHaveParents'
  <2> SUFFICES ASSUME NEW u \in LedgerRows, NEW q \in Sessions
               PROVE  /\ work[q].book[u].count = 0 => work[q].book[u] = DB!NoEntries
                      /\ DB!Row(q, u)' = None => work[q].book[u].count = 0
    BY <1>2, <1>4 DEF EntriesHaveParents
  <2>1. QED
    BY <1>1, <1>3 DEF EntriesHaveParents
<1>9. ReversedExist'
  <2>0. \A q \in Sessions, u \in LedgerRows :
          work'[q].tx[u] # None => work'[q].tx[u].reverses \in LedgerRows \cup {None}
    BY <1>6 DEF DB!SchemaTypeOK, DB!Rows
  <2> SUFFICES ASSUME NEW q \in Sessions, NEW u \in LedgerRows, NEW v \in LedgerRows,
                      work'[q].tx[u] # None, work'[q].tx[u].reverses = v
               PROVE  DB!Row(q, v)' # None
    BY <1>4, <2>0 DEF ReversedExist
  <2>1. CASE q = s /\ u = t
    <3>1. v = r
      BY <1>1, <2>1
    <3>2. v # None
      BY DEF DB!SchemaAssumption
    <3>3. QED
      BY <1>1, <1>3, <1>5, <2>1, <3>1, <3>2 DEF DB!ReversalKey
  <2>2. CASE ~(q = s /\ u = t)
    <3>1. work[q].tx[u] # None /\ work[q].tx[u].reverses = v
      BY <1>2, <2>2
    <3>2. v # None
      BY DEF DB!SchemaAssumption
    <3>3. DB!Row(q, v) # None
      BY <3>1, <3>2 DEF ReversedExist
    <3>4. QED
      BY <1>1, <1>3, <3>3
  <2>3. QED
    BY <2>1, <2>2
<1>10. BalanceHolds'
  <2>1. \A q \in examined, u \in LedgerRows : DB!Examined(q)' = DB!Examined(q) /\ q # s
          /\ q \in Sessions
    BY <1>2, <1>4 DEF DB!SchemaTypeOK, DB!Examined
  <2>2. QED
    BY <1>2, <1>4, <2>1 DEF BalanceHolds
<1>11. KeysHold'
  <2> SUFFICES ASSUME hardened, NEW q \in Sessions, NEW u \in LedgerRows
               PROVE  /\ DB!Row(q, u)' # None =>
                           work[q].book[u].owners \subseteq {DB!Row(q, u)'.chama}
                      /\ work'[q].tx[u] # None /\ work'[q].tx[u].reverses # None =>
                           \A v \in LedgerRows : work'[q].tx[u].reverses = v =>
                             DB!Row(q, v)'.chama = work'[q].tx[u].chama
    BY <1>2, <1>4, InsertTransactionEffect DEF KeysHold, DB!SchemaTypeOK, DB!Rows
  <2>1. CASE q = s /\ u = t
    <3>1. work[s].book[t] = DB!NoEntries
      BY <1>3 DEF EntriesHaveParents
    <3>2. ASSUME NEW v \in LedgerRows, r = v PROVE DB!Row(s, v)'.chama = chama
      BY <1>1, <1>3, <1>5, <3>2 DEF DB!ReversalKey, DB!SchemaAssumption
    <3>3. QED
      BY <1>1, <2>1, <3>1, <3>2 DEF DB!NoEntries
  <2>2. CASE ~(q = s /\ u = t)
    <3>1. DB!Row(q, u) # None => work[q].book[u].owners \subseteq {DB!Row(q, u).chama}
      BY DEF KeysHold
    <3>2. ASSUME NEW v \in LedgerRows, work[q].tx[u] # None, work[q].tx[u].reverses = v
          PROVE  DB!Row(q, v)'.chama = work[q].tx[u].chama
      <4>1. v # None
        BY DEF DB!SchemaAssumption
      <4>2. DB!Row(q, v) # None /\ DB!Row(q, v).chama = work[q].tx[u].chama
        BY <3>2, <4>1 DEF ReversedExist, KeysHold
      <4>3. DB!Row(q, v)' = DB!Row(q, v)
        BY <1>3, <4>2
      <4>4. QED
        BY <4>2, <4>3
    <3>3. QED
      BY <1>2, <1>3, <2>2, <3>1, <3>2
  <2>3. QED
    BY <2>1, <2>2
<1>12. ReversalsAreUnique'
  <2> SUFFICES ASSUME hardened, NEW u \in LedgerRows, NEW v \in LedgerRows, u # v,
                      NEW q \in Sessions, work'[q].tx[v] # None, work'[q].tx[v].reverses # None
               PROVE  /\ tx[u] # None => tx[u].reverses # work'[q].tx[v].reverses
                      /\ \A o \in Sessions : work'[o].tx[u] # None =>
                           work'[o].tx[u].reverses # work'[q].tx[v].reverses
    BY <1>4 DEF ReversalsAreUnique
  <2>1. CASE q = s /\ v = t
    BY <1>1, <1>2, <1>5, <2>1 DEF DB!ReversalIsFree
  <2>2. CASE ~(q = s /\ v = t)
    <3>1. work'[q].tx[v] = work[q].tx[v]
      BY <1>2, <2>2
    <3>2. tx[u] # None => tx[u].reverses # work[q].tx[v].reverses
      BY <3>1 DEF ReversalsAreUnique
    <3>3. ASSUME NEW o \in Sessions, work'[o].tx[u] # None
          PROVE  work'[o].tx[u].reverses # work[q].tx[v].reverses
      <4>1. CASE o = s /\ u = t
        BY <1>1, <1>5, <3>1, <4>1 DEF DB!ReversalIsFree
      <4>2. CASE ~(o = s /\ u = t)
        BY <1>2, <3>1, <3>3, <4>2 DEF ReversalsAreUnique
      <4>3. QED
        BY <4>1, <4>2
    <3>4. QED
      BY <3>1, <3>2, <3>3
  <2>3. QED
    BY <2>1, <2>2
<1>13. QED
  BY <1>6, <1>7, <1>8, <1>9, <1>10, <1>11, <1>12

(* Rows in hand that are kept or given up.                                 *)
LEMMA KeptRows ==
  ASSUME SchemaInv, tx' = tx, hardened' = hardened,
         \A q \in Sessions, u \in LedgerRows : work'[q].tx[u] # None =>
           work'[q].tx[u] = work[q].tx[u]
  PROVE  RowsAreOwned' /\ ReversalsAreUnique'
<1>1. RowsAreOwned'
  <2> SUFFICES ASSUME NEW q \in Sessions, NEW u \in LedgerRows, work'[q].tx[u] # None
               PROVE  tx[u] = None /\ \A o \in Sessions \ {q} : work'[o].tx[u] = None
    BY DEF RowsAreOwned
  <2>1. tx[u] = None /\ \A o \in Sessions \ {q} : work[o].tx[u] = None
    BY DEF SchemaInv, RowsAreOwned
  <2>2. QED
    BY <2>1
<1>2. ReversalsAreUnique'
  <2> SUFFICES ASSUME hardened, NEW u \in LedgerRows, NEW v \in LedgerRows, u # v
               PROVE  /\ tx[u] # None /\ tx[v] # None /\ tx[u].reverses # None =>
                           tx[u].reverses # tx[v].reverses
                      /\ \A q \in Sessions :
                           work'[q].tx[v] # None /\ work'[q].tx[v].reverses # None =>
                           /\ tx[u] # None => tx[u].reverses # work'[q].tx[v].reverses
                           /\ \A o \in Sessions : work'[o].tx[u] # None =>
                                work'[o].tx[u].reverses # work'[q].tx[v].reverses
    BY DEF ReversalsAreUnique
  <2>1. /\ tx[u] # None /\ tx[v] # None /\ tx[u].reverses # None =>
             tx[u].reverses # tx[v].reverses
        /\ \A q \in Sessions : work[q].tx[v] # None /\ work[q].tx[v].reverses # None =>
             /\ tx[u] # None => tx[u].reverses # work[q].tx[v].reverses
             /\ \A o \in Sessions : work[o].tx[u] # None =>
                  work[o].tx[u].reverses # work[q].tx[v].reverses
    BY DEF SchemaInv, ReversalsAreUnique
  <2>2. QED
    BY <2>1
<1>3. QED
  BY <1>1, <1>2

LEMMA InsertEntryKeepsInv ==
  ASSUME DB!SchemaAssumption, SchemaInv, NEW s \in Sessions, NEW t \in LedgerRows,
         NEW side \in {"DEBIT", "CREDIT"}, NEW amount \in Amounts, NEW owner \in Chamas,
         DB!InsertEntry(s, t, side, amount, owner)
  PROVE  SchemaInv'
<1> DEFINE entry == [debit |-> IF side = "DEBIT" THEN amount ELSE 0,
                     credit |-> IF side = "CREDIT" THEN amount ELSE 0,
                     count |-> 1, owners |-> {owner}]
<1> DEFINE sum == DB!Plus(work[s].book[t], entry)
<1>1. entry \in DB!Entries /\ entry.count = 1 /\ entry.owners = {owner}
  BY DEF DB!Entries, DB!SchemaAssumption
<1>2. work' = [work EXCEPT ![s].book[t] = sum]
  BY DEF DB!InsertEntry
<1>3. /\ s \notin examined /\ DB!Row(s, t) # None /\ DB!OwnerKey(s, t, owner)
      /\ hardened' = hardened /\ tx' = tx /\ book' = book /\ examined' = examined
      /\ legacy' = legacy
  BY DEF DB!InsertEntry
<1> HIDE DEF entry
<1>4. /\ work[s].book[t] \in DB!Entries /\ sum \in DB!Entries
      /\ sum.count = work[s].book[t].count + 1
      /\ sum.owners = work[s].book[t].owners \cup {owner}
  BY <1>1, PlusType, Typed DEF SchemaInv
<1> HIDE DEF sum
<1>5. /\ work'[s].book[t] = sum
      /\ \A q \in Sessions, u \in LedgerRows :
           /\ work'[q].tx[u] = work[q].tx[u]
           /\ ~(q = s /\ u = t) => work'[q].book[u] = work[q].book[u]
      /\ work' \in [Sessions -> [tx : [LedgerRows -> DB!Rows \cup {None}],
           book : [LedgerRows -> DB!Entries]]]
  BY <1>2, <1>4 DEF SchemaInv, DB!SchemaTypeOK
<1>6. \A q \in Sessions, u \in LedgerRows : DB!Row(q, u)' = DB!Row(q, u)
  BY <1>3, <1>5 DEF DB!Row
<1> USE DEF SchemaInv
<1>7. DB!SchemaTypeOK' /\ TriggersComeLate'
  BY <1>3, <1>5 DEF DB!SchemaTypeOK, TriggersComeLate
<1>8. RowsAreOwned' /\ ReversalsAreUnique'
  BY <1>3, <1>5, KeptRows
<1>9. ReversedExist'
  <2> SUFFICES ASSUME NEW q \in Sessions, NEW u \in LedgerRows, NEW v \in LedgerRows,
                      work[q].tx[u] # None, work[q].tx[u].reverses = v
               PROVE  DB!Row(q, v)' # None
    BY <1>3, <1>5 DEF ReversedExist, DB!SchemaTypeOK, DB!Rows
  <2>1. v # None
    BY DEF DB!SchemaAssumption
  <2>2. QED
    BY <1>6, <2>1 DEF ReversedExist
<1>10. EntriesHaveParents'
  <2> SUFFICES ASSUME NEW u \in LedgerRows, NEW q \in Sessions
               PROVE  /\ work'[q].book[u].count = 0 => work'[q].book[u] = DB!NoEntries
                      /\ DB!Row(q, u)' = None => work'[q].book[u].count = 0
    BY <1>3 DEF EntriesHaveParents
  <2>1. CASE q = s /\ u = t
    <3>1. work[s].book[t].count \in Nat
      BY <1>4 DEF DB!Entries
    <3>2. sum.count # 0
      BY <1>4, <3>1
    <3>3. QED
      BY <1>3, <1>5, <1>6, <2>1, <3>2
  <2>2. CASE ~(q = s /\ u = t)
    BY <1>5, <1>6, <2>2 DEF EntriesHaveParents
  <2>3. QED
    BY <2>1, <2>2
<1>11. KeysHold'
  <2> SUFFICES ASSUME hardened, NEW q \in Sessions, NEW u \in LedgerRows
               PROVE  /\ DB!Row(q, u) # None =>
                           work'[q].book[u].owners \subseteq {DB!Row(q, u).chama}
                      /\ work[q].tx[u] # None /\ work[q].tx[u].reverses # None =>
                           \A v \in LedgerRows : work[q].tx[u].reverses = v =>
                             DB!Row(q, v).chama = work[q].tx[u].chama
    BY <1>3, <1>5, <1>6 DEF KeysHold, DB!SchemaTypeOK, DB!Rows
  <2>1. DB!Row(q, u) # None => work'[q].book[u].owners \subseteq {DB!Row(q, u).chama}
    BY <1>3, <1>4, <1>5 DEF KeysHold, DB!OwnerKey
  <2>2. QED
    BY <2>1 DEF KeysHold
<1>12. BalanceHolds'
  <2>1. \A q \in examined : q # s /\ q \in Sessions
    BY <1>3 DEF DB!SchemaTypeOK
  <2>2. \A q \in examined : DB!Examined(q)' = DB!Examined(q)
    BY <1>5, <2>1 DEF DB!Examined
  <2>3. QED
    BY <1>3, <1>5, <2>1, <2>2 DEF BalanceHolds
<1>13. QED
  BY <1>7, <1>8, <1>9, <1>10, <1>11, <1>12

(* Nothing in the hands of s any more; its rows were visible to s alone.   *)
LEMMA RollbackKeepsInv ==
  ASSUME DB!SchemaAssumption, SchemaInv, NEW s \in Sessions, DB!Rollback(s)
  PROVE  SchemaInv'
<1>1. /\ \A u \in LedgerRows : work'[s].tx[u] = None /\ work'[s].book[u] = DB!NoEntries
      /\ \A q \in Sessions \ {s} : work'[q] = work[q]
      /\ work' \in [Sessions -> [tx : [LedgerRows -> DB!Rows \cup {None}],
           book : [LedgerRows -> DB!Entries]]]
      /\ examined' = examined \ {s} /\ hardened' = hardened /\ tx' = tx /\ book' = book
      /\ legacy' = legacy
  BY DEF DB!Rollback, DB!NoWork, SchemaInv, DB!SchemaTypeOK, DB!NoEntries, DB!Entries
<1>2. /\ \A u \in LedgerRows : DB!Row(s, u)' = tx[u]
      /\ \A q \in Sessions \ {s}, u \in LedgerRows : DB!Row(q, u)' = DB!Row(q, u)
  BY <1>1 DEF DB!Row
<1> USE DEF SchemaInv
<1>3. DB!SchemaTypeOK' /\ TriggersComeLate'
  BY <1>1 DEF DB!SchemaTypeOK, TriggersComeLate
<1>4. RowsAreOwned' /\ ReversalsAreUnique'
  BY <1>1, KeptRows
<1>5. EntriesHaveParents'
  <2> SUFFICES ASSUME NEW u \in LedgerRows, NEW q \in Sessions
               PROVE  /\ work'[q].book[u].count = 0 => work'[q].book[u] = DB!NoEntries
                      /\ DB!Row(q, u)' = None => work'[q].book[u].count = 0
    BY <1>1 DEF EntriesHaveParents
  <2>1. QED
    BY <1>1, <1>2 DEF EntriesHaveParents, DB!NoEntries
<1>6. ReversedExist'
  <2> SUFFICES ASSUME NEW q \in Sessions \ {s}, NEW u \in LedgerRows, NEW v \in LedgerRows,
                      work[q].tx[u] # None, work[q].tx[u].reverses = v
               PROVE  DB!Row(q, v) # None
    <3>1. \A q \in Sessions, u \in LedgerRows : work'[q].tx[u] # None =>
            q # s /\ work'[q].tx[u] = work[q].tx[u]
            /\ (work[q].tx[u].reverses # None => work[q].tx[u].reverses \in LedgerRows)
      BY <1>1 DEF DB!SchemaTypeOK, DB!Rows
    <3>2. \A t \in LedgerRows : tx[t] # None /\ tx[t].reverses # None => tx[tx[t].reverses] # None
      BY DEF ReversedExist
    <3>3. QED
      BY <1>1, <1>2, <3>1, <3>2 DEF ReversedExist
  <2>1. QED
    BY DEF DB!SchemaAssumption, ReversedExist
<1>7. KeysHold'
  <2> SUFFICES ASSUME hardened, NEW q \in Sessions, NEW u \in LedgerRows
               PROVE  /\ DB!Row(q, u)' # None =>
                           work'[q].book[u].owners \subseteq {DB!Row(q, u)'.chama}
                      /\ work'[q].tx[u] # None /\ work'[q].tx[u].reverses # None =>
                           \A v \in LedgerRows : work'[q].tx[u].reverses = v =>
                             DB!Row(q, v)'.chama = work'[q].tx[u].chama
    BY <1>1 DEF KeysHold, DB!SchemaTypeOK, DB!Rows
  <2>1. CASE q = s
    BY <1>1, <2>1 DEF DB!NoEntries
  <2>2. CASE q # s
    BY <1>1, <1>2, <2>2 DEF KeysHold
  <2>3. QED
    BY <2>1, <2>2
<1>8. BalanceHolds'
  <2>1. \A q \in examined' : q \in examined /\ q \in Sessions \ {s}
    BY <1>1 DEF DB!SchemaTypeOK
  <2>2. \A q \in Sessions \ {s} : DB!Examined(q)' = DB!Examined(q)
    BY <1>1 DEF DB!Examined
  <2>3. QED
    BY <1>1, <2>1, <2>2 DEF BalanceHolds
<1>9. QED
  BY <1>3, <1>4, <1>5, <1>6, <1>7, <1>8

LEMMA ExamineKeepsInv ==
  ASSUME DB!SchemaAssumption, SchemaInv, NEW s \in Sessions, DB!Examine(s)
  PROVE  SchemaInv'
<1>1. /\ hardened /\ examined' = examined \cup {s}
      /\ hardened' = hardened /\ tx' = tx /\ book' = book /\ work' = work /\ legacy' = legacy
  BY DEF DB!Examine
<1>2. \A t \in DB!Examined(s) : DB!Balanced(DB!Plus(book[t], work[s].book[t]))
  BY DEF DB!Examine, DB!Seen, DB!Examined
<1> USE DEF SchemaInv
<1>3. DB!SchemaTypeOK' /\ TriggersComeLate' /\ RowsAreOwned'
  BY <1>1 DEF DB!SchemaTypeOK, TriggersComeLate, RowsAreOwned
<1>4. EntriesHaveParents' /\ ReversedExist' /\ KeysHold'
  BY <1>1 DEF EntriesHaveParents, ReversedExist, KeysHold, DB!Row
<1>5. ReversalsAreUnique'
  BY <1>1 DEF ReversalsAreUnique
<1>6. BalanceHolds'
  BY <1>1, <1>2 DEF BalanceHolds, DB!Examined
<1>7. QED
  BY <1>3, <1>4, <1>5, <1>6

(* The effect of a commit, value by value.                                 *)
LEMMA CommitEffect ==
  ASSUME DB!SchemaAssumption, SchemaInv, NEW s \in Sessions, DB!Commit(s)
  PROVE  /\ \A u \in LedgerRows : /\ tx'[u] = DB!Row(s, u)
                           /\ book'[u] = DB!Plus(book[u], work[s].book[u])
                           /\ work'[s].tx[u] = None /\ work'[s].book[u] = DB!NoEntries
         /\ \A q \in Sessions \ {s} : work'[q] = work[q]
         /\ examined' = examined \ {s} /\ hardened' = hardened /\ legacy' = legacy
         /\ hardened => s \in examined
         /\ DB!SchemaTypeOK'
<1>1. \A u \in LedgerRows : book[u] \in DB!Entries /\ work[s].book[u] \in DB!Entries
                    /\ DB!Row(s, u) \in DB!Rows \cup {None}
  BY Typed DEF SchemaInv
<1>2. \A u \in LedgerRows : DB!Plus(book[u], work[s].book[u]) \in DB!Entries
  BY <1>1, PlusType
<1>3. /\ tx' = [t \in LedgerRows |-> DB!Row(s, t)] /\ book' = DB!Seen(s)
      /\ work' = [work EXCEPT ![s] = DB!NoWork] /\ examined' = examined \ {s}
      /\ hardened' = hardened /\ legacy' = legacy /\ (hardened => s \in examined)
  BY DEF DB!Commit
<1>4. \A u \in LedgerRows : /\ tx'[u] = DB!Row(s, u)
                    /\ book'[u] = DB!Plus(book[u], work[s].book[u])
                    /\ work'[s].tx[u] = None /\ work'[s].book[u] = DB!NoEntries
  BY <1>3 DEF DB!Seen, DB!NoWork, SchemaInv, DB!SchemaTypeOK
<1>5. tx' \in [LedgerRows -> DB!Rows \cup {None}] /\ book' \in [LedgerRows -> DB!Entries]
  BY <1>1, <1>2, <1>3 DEF DB!Seen
<1>6. work' \in [Sessions -> [tx : [LedgerRows -> DB!Rows \cup {None}],
        book : [LedgerRows -> DB!Entries]]]
  BY <1>3 DEF DB!NoWork, DB!NoEntries, DB!Entries, SchemaInv, DB!SchemaTypeOK
<1>7. \A q \in Sessions \ {s} : work'[q] = work[q]
  BY <1>3 DEF SchemaInv, DB!SchemaTypeOK
<1>8. QED
  BY <1>3, <1>4, <1>5, <1>6, <1>7 DEF SchemaInv, DB!SchemaTypeOK

(* The others keep sight of what they saw.                                 *)
LEMMA CommitKeepsSight ==
  ASSUME DB!SchemaAssumption, SchemaInv, NEW s \in Sessions, DB!Commit(s), NEW q \in Sessions,
         NEW u \in LedgerRows
  PROVE  /\ DB!Row(q, u) # None => DB!Row(q, u)' = DB!Row(q, u)
         /\ DB!Row(s, u)' = DB!Row(s, u)
<1>1. tx'[u] = DB!Row(s, u) /\ work'[s].tx[u] = None /\ (q # s => work'[q] = work[q])
  BY CommitEffect
<1>2. tx[u] = None /\ work[q].tx[u] # None /\ q # s => work[s].tx[u] = None
  BY DEF SchemaInv, RowsAreOwned
<1>3. DB!Row(s, u)' = DB!Row(s, u)
  BY <1>1 DEF DB!Row
<1>4. ASSUME DB!Row(q, u) # None PROVE DB!Row(q, u)' = DB!Row(q, u)
  <2>1. CASE tx[u] # None
    BY <1>1, <1>4, <2>1 DEF DB!Row
  <2>2. CASE tx[u] = None
    BY <1>1, <1>2, <1>3, <1>4, <2>2 DEF DB!Row
  <2>3. QED
    BY <2>1, <2>2
<1>5. QED
  BY <1>3, <1>4

LEMMA CommitKeepsRows ==
  ASSUME DB!SchemaAssumption, SchemaInv, NEW s \in Sessions, DB!Commit(s)
  PROVE  RowsAreOwned' /\ EntriesHaveParents' /\ ReversedExist' /\ ReversalsAreUnique'
<1>1. \A u \in LedgerRows : /\ tx'[u] = DB!Row(s, u)
                    /\ book'[u] = DB!Plus(book[u], work[s].book[u])
                    /\ work'[s].tx[u] = None /\ work'[s].book[u] = DB!NoEntries
  BY CommitEffect
<1>2. \A q \in Sessions \ {s} : work'[q] = work[q]
  BY CommitEffect
<1>3. hardened' = hardened
  BY CommitEffect
<1>4. \A q \in Sessions, u \in LedgerRows : /\ DB!Row(q, u) # None => DB!Row(q, u)' = DB!Row(q, u)
                                     /\ DB!Row(s, u)' = DB!Row(s, u)
  BY CommitKeepsSight
<1> USE DEF SchemaInv
<1>5. RowsAreOwned'
  <2> SUFFICES ASSUME NEW q \in Sessions \ {s}, NEW u \in LedgerRows, work[q].tx[u] # None
               PROVE  DB!Row(s, u) = None /\ \A o \in Sessions \ {q} : work'[o].tx[u] = None
    BY <1>1, <1>2 DEF RowsAreOwned
  <2>1. tx[u] = None /\ \A o \in Sessions \ {q} : work[o].tx[u] = None
    BY DEF RowsAreOwned
  <2>2. QED
    BY <1>1, <1>2, <2>1 DEF DB!Row
<1>6. EntriesHaveParents'
  <2>1. ASSUME NEW u \in LedgerRows
        PROVE  /\ book'[u].count = 0 => book'[u] = DB!NoEntries
               /\ tx'[u] = None => book'[u].count = 0
    <3>1. book[u] \in DB!Entries /\ work[s].book[u] \in DB!Entries
      BY Typed
    <3>2. /\ book'[u].count = book[u].count + work[s].book[u].count
          /\ book[u].count \in Nat /\ work[s].book[u].count \in Nat
      BY <1>1, <3>1, PlusType DEF DB!Entries
    <3>3. /\ book[u].count = 0 => book[u] = DB!NoEntries
          /\ work[s].book[u].count = 0 => work[s].book[u] = DB!NoEntries
          /\ tx[u] = None => book[u].count = 0
          /\ DB!Row(s, u) = None => work[s].book[u].count = 0
      BY DEF EntriesHaveParents
    <3>4. DB!Plus(DB!NoEntries, DB!NoEntries) = DB!NoEntries
      BY DEF DB!Plus, DB!NoEntries
    <3>5. DB!Row(s, u) = None => tx[u] = None
      BY DEF DB!Row
    <3>6. QED
      BY <1>1, <3>2, <3>3, <3>4, <3>5
  <2>2. ASSUME NEW u \in LedgerRows, NEW q \in Sessions
        PROVE  /\ work'[q].book[u].count = 0 => work'[q].book[u] = DB!NoEntries
               /\ DB!Row(q, u)' = None => work'[q].book[u].count = 0
    <3>1. CASE q = s
      BY <1>1, <3>1 DEF DB!NoEntries
    <3>2. CASE q # s
      BY <1>2, <1>4, <3>2 DEF EntriesHaveParents
    <3>3. QED
      BY <3>1, <3>2
  <2>3. QED
    BY <2>1, <2>2 DEF EntriesHaveParents
<1>7. ReversedExist'
  <2>1. ASSUME NEW u \in LedgerRows, NEW q \in Sessions, NEW v \in LedgerRows,
               DB!Row(q, u) # None, DB!Row(q, u).reverses = v
        PROVE  DB!Row(q, v) # None
    <3>1. v # None
      BY DEF DB!SchemaAssumption
    <3>2. CASE tx[u] # None
      BY <2>1, <3>1, <3>2 DEF ReversedExist, DB!Row
    <3>3. CASE tx[u] = None
      <4>1. work[q].tx[u] # None /\ work[q].tx[u].reverses = v
        BY <2>1, <3>3 DEF DB!Row
      <4>2. QED
        BY <3>1, <4>1 DEF ReversedExist
    <3>4. QED
      BY <3>2, <3>3
  <2>2. \A u \in LedgerRows, q \in Sessions : DB!Row(q, u) \in DB!Rows \cup {None}
    BY Typed
  <2>3. ASSUME NEW u \in LedgerRows, tx'[u] # None, tx'[u].reverses # None
        PROVE  tx'[tx'[u].reverses] # None
    <3>1. DB!Row(s, u).reverses \in LedgerRows
      BY <1>1, <2>2, <2>3 DEF DB!Rows
    <3>2. QED
      BY <1>1, <2>1, <2>3, <3>1
  <2>4. ASSUME NEW u \in LedgerRows, NEW q \in Sessions, NEW v \in LedgerRows,
               work'[q].tx[u] # None, work'[q].tx[u].reverses = v
        PROVE  DB!Row(q, v)' # None
    <3>1. q # s /\ work'[q].tx[u] = work[q].tx[u]
      BY <1>1, <1>2, <2>4
    <3>2. DB!Row(q, u) = work[q].tx[u]
      BY <2>4, <3>1 DEF DB!Row, RowsAreOwned
    <3>3. QED
      BY <1>4, <2>1, <2>4, <3>1, <3>2
  <2>5. \A u \in LedgerRows, q \in Sessions : work'[q].tx[u] # None
          /\ work'[q].tx[u].reverses # None =>
          work'[q].tx[u].reverses \in LedgerRows
    BY CommitEffect DEF DB!SchemaTypeOK, DB!Rows
  <2>6. QED
    BY <2>3, <2>4, <2>5 DEF ReversedExist
<1>8. ReversalsAreUnique'
  <2> SUFFICES ASSUME hardened, NEW u \in LedgerRows, NEW v \in LedgerRows, u # v
               PROVE  /\ tx'[u] # None /\ tx'[v] # None /\ tx'[u].reverses # None =>
                           tx'[u].reverses # tx'[v].reverses
                      /\ \A q \in Sessions \ {s} :
                           work[q].tx[v] # None /\ work[q].tx[v].reverses # None =>
                           /\ tx'[u] # None => tx'[u].reverses # work[q].tx[v].reverses
                           /\ \A o \in Sessions \ {s} : work[o].tx[u] # None =>
                                work[o].tx[u].reverses # work[q].tx[v].reverses
    BY <1>1, <1>2, <1>3 DEF ReversalsAreUnique
  <2>1. /\ tx[u] # None /\ tx[v] # None /\ tx[u].reverses # None =>
             tx[u].reverses # tx[v].reverses
        /\ \A q \in Sessions : work[q].tx[v] # None /\ work[q].tx[v].reverses # None =>
             /\ tx[u] # None => tx[u].reverses # work[q].tx[v].reverses
             /\ \A o \in Sessions : work[o].tx[u] # None =>
                  work[o].tx[u].reverses # work[q].tx[v].reverses
    BY DEF ReversalsAreUnique
  <2>2. \A q \in Sessions : work[q].tx[u] # None /\ work[q].tx[u].reverses # None =>
             (tx[v] # None => tx[v].reverses # work[q].tx[u].reverses)
    BY DEF ReversalsAreUnique
  <2>3. /\ tx'[u] = DB!Row(s, u) /\ tx'[v] = DB!Row(s, v)
    BY <1>1
  <2>4. QED
    BY <2>1, <2>2, <2>3 DEF DB!Row
<1>9. QED
  BY <1>5, <1>6, <1>7, <1>8

LEMMA CommitKeepsKeys ==
  ASSUME DB!SchemaAssumption, SchemaInv, NEW s \in Sessions, DB!Commit(s)
  PROVE  KeysHold'
<1>1. \A u \in LedgerRows : /\ tx'[u] = DB!Row(s, u)
                    /\ book'[u] = DB!Plus(book[u], work[s].book[u])
                    /\ work'[s].tx[u] = None /\ work'[s].book[u] = DB!NoEntries
  BY CommitEffect
<1>2. \A q \in Sessions \ {s} : work'[q] = work[q]
  BY CommitEffect
<1>3. hardened' = hardened /\ DB!SchemaTypeOK'
  BY CommitEffect
<1>4. \A q \in Sessions, u \in LedgerRows : DB!Row(q, u) # None => DB!Row(q, u)' = DB!Row(q, u)
  BY CommitKeepsSight
<1> USE DEF SchemaInv
<1>5. ASSUME hardened, NEW u \in LedgerRows, tx'[u] # None
      PROVE  book'[u].owners \subseteq {tx'[u].chama}
  <2>1. work[s].book[u].owners \subseteq {DB!Row(s, u).chama}
    BY <1>1, <1>5 DEF KeysHold
  <2>2. book[u].owners \subseteq {DB!Row(s, u).chama}
    <3>1. CASE tx[u] # None
      BY <1>5, <3>1 DEF KeysHold, DB!Row
    <3>2. CASE tx[u] = None
      BY <3>2 DEF EntriesHaveParents, DB!NoEntries
    <3>3. QED
      BY <3>1, <3>2
  <2>3. book'[u].owners = book[u].owners \cup work[s].book[u].owners
    BY <1>1, Typed, PlusType
  <2>4. QED
    BY <1>1, <2>1, <2>2, <2>3
<1>6. ASSUME hardened, NEW u \in LedgerRows, NEW q \in Sessions, NEW v \in LedgerRows,
             DB!Row(q, u) # None, DB!Row(q, u).reverses = v
      PROVE  DB!Row(q, v) # None /\ DB!Row(q, v).chama = DB!Row(q, u).chama
  <2>1. v # None
    BY DEF DB!SchemaAssumption
  <2>2. CASE tx[u] # None
    BY <1>6, <2>1, <2>2 DEF ReversedExist, KeysHold, DB!Row
  <2>3. CASE tx[u] = None
    <3>1. work[q].tx[u] = DB!Row(q, u)
      BY <2>3 DEF DB!Row
    <3>2. QED
      BY <1>6, <2>1, <3>1 DEF ReversedExist, KeysHold
  <2>4. QED
    BY <2>2, <2>3
<1>7. \A u \in LedgerRows, q \in Sessions : DB!Row(q, u) \in DB!Rows \cup {None}
  BY Typed
<1>8. ASSUME hardened, NEW u \in LedgerRows, tx'[u] # None, tx'[u].reverses # None
      PROVE  tx'[tx'[u].reverses].chama = tx'[u].chama
  <2>1. DB!Row(s, u).reverses \in LedgerRows
    BY <1>1, <1>7, <1>8 DEF DB!Rows
  <2>2. QED
    BY <1>1, <1>6, <1>8, <2>1
<1>9. ASSUME hardened, NEW u \in LedgerRows, NEW q \in Sessions, DB!Row(q, u)' # None
      PROVE  work'[q].book[u].owners \subseteq {DB!Row(q, u)'.chama}
  <2>1. CASE q = s \/ DB!Row(q, u) = None
    <3>1. work'[q].book[u] = DB!NoEntries
      BY <1>1, <1>2, <2>1 DEF EntriesHaveParents
    <3>2. QED
      BY <3>1 DEF DB!NoEntries
  <2>2. CASE q # s /\ DB!Row(q, u) # None
    BY <1>2, <1>4, <1>9, <2>2 DEF KeysHold
  <2>3. QED
    BY <2>1, <2>2
<1>10. ASSUME hardened, NEW u \in LedgerRows, NEW q \in Sessions, NEW v \in LedgerRows,
              work'[q].tx[u] # None, work'[q].tx[u].reverses = v
       PROVE  DB!Row(q, v)'.chama = work'[q].tx[u].chama
  <2>1. q # s /\ work'[q].tx[u] = work[q].tx[u]
    BY <1>1, <1>2, <1>10
  <2>2. DB!Row(q, u) = work[q].tx[u]
    BY <1>10, <2>1 DEF DB!Row, RowsAreOwned
  <2>3. DB!Row(q, v) # None /\ DB!Row(q, v).chama = work'[q].tx[u].chama
    BY <1>6, <1>10, <2>1, <2>2
  <2>4. QED
    BY <1>4, <2>3
<1>11. \A u \in LedgerRows, q \in Sessions : work'[q].tx[u] # None
         /\ work'[q].tx[u].reverses # None =>
         work'[q].tx[u].reverses \in LedgerRows
  BY <1>3 DEF DB!SchemaTypeOK, DB!Rows
<1>12. QED
  BY <1>3, <1>5, <1>8, <1>9, <1>10, <1>11 DEF KeysHold

(* The heart of it: who has examined may commit after another has.         *)
LEMMA CommitKeepsBalance ==
  ASSUME DB!SchemaAssumption, SchemaInv, NEW s \in Sessions, DB!Commit(s)
  PROVE  BalanceHolds'
<1>1. \A u \in LedgerRows : /\ tx'[u] = DB!Row(s, u)
                    /\ book'[u] = DB!Plus(book[u], work[s].book[u])
  BY CommitEffect
<1>2. \A q \in Sessions \ {s} : work'[q] = work[q] /\ DB!Examined(q)' = DB!Examined(q)
  BY CommitEffect DEF DB!Examined
<1>3. /\ examined' = examined \ {s} /\ hardened' = hardened /\ legacy' = legacy
      /\ hardened => s \in examined
  BY CommitEffect
<1> SUFFICES ASSUME hardened, NEW t \in LedgerRows \ legacy
             PROVE  /\ tx'[t] # None => DB!Balanced(book'[t])
                    /\ \A q \in examined \ {s} : t \in DB!Examined(q) =>
                         DB!Balanced(DB!Plus(book'[t], work[q].book[t]))
  BY <1>2, <1>3 DEF BalanceHolds, SchemaInv, DB!SchemaTypeOK
<1> USE DEF SchemaInv
<1>4. t \in DB!Examined(s) => DB!Balanced(book'[t])
  BY <1>1, <1>3 DEF BalanceHolds
<1>5. t \notin DB!Examined(s) => book'[t] = book[t] /\ work[s].tx[t] = None
  <2>1. ASSUME t \notin DB!Examined(s) PROVE book'[t] = book[t] /\ work[s].tx[t] = None
    <3>1. work[s].tx[t] = None /\ ~(work[s].book[t].count > 0)
      BY <2>1 DEF DB!Examined
    <3>2. work[s].book[t].count \in Nat /\ book[t] \in DB!Entries
      BY Typed DEF DB!Entries
    <3>3. work[s].book[t].count = 0
      BY <3>1, <3>2
    <3>4. work[s].book[t] = DB!NoEntries
      BY <3>3 DEF EntriesHaveParents
    <3>5. QED
      BY <1>1, <3>1, <3>2, <3>4, PlusNothing
  <2>2. QED
    BY <2>1
<1>6. tx'[t] # None => DB!Balanced(book'[t])
  BY <1>1, <1>4, <1>5 DEF BalanceHolds, DB!Row
<1>7. ASSUME NEW q \in examined \ {s}, t \in DB!Examined(q)
      PROVE  DB!Balanced(DB!Plus(book'[t], work[q].book[t]))
  <2>1. q \in Sessions /\ DB!Balanced(DB!Plus(book[t], work[q].book[t]))
    BY <1>7 DEF BalanceHolds, DB!SchemaTypeOK
  <2>2. CASE t \notin DB!Examined(s)
    BY <1>5, <2>1, <2>2
  <2>3. CASE t \in DB!Examined(s)
    <3>1. /\ book[t] \in DB!Entries /\ work[s].book[t] \in DB!Entries
          /\ work[q].book[t] \in DB!Entries
          /\ work[s].book[t].count \in Nat /\ work[q].book[t].count \in Nat
      BY <2>1, Typed DEF DB!Entries
    <3>2. DB!Row(s, t) # None
      BY <2>3, <3>1 DEF DB!Examined, EntriesHaveParents, DB!Row, RowsAreOwned
    <3>3. DB!Row(q, t) # None
      BY <1>7, <2>1, <3>1 DEF DB!Examined, EntriesHaveParents, DB!Row, RowsAreOwned
    <3>4. tx[t] # None
      BY <2>1, <3>2, <3>3 DEF DB!Row, RowsAreOwned
    <3>5. DB!Balanced(book[t]) /\ DB!Balanced(DB!Plus(book[t], work[s].book[t]))
      BY <1>1, <1>4, <2>3, <3>4 DEF BalanceHolds
    <3>6. QED
      BY <1>1, <2>1, <3>1, <3>5, BalancedTogether
  <2>4. QED
    BY <2>2, <2>3
<1>8. QED
  BY <1>6, <1>7

LEMMA CommitKeepsInv ==
  ASSUME DB!SchemaAssumption, SchemaInv, NEW s \in Sessions, DB!Commit(s)
  PROVE  SchemaInv'
<1>1. DB!SchemaTypeOK' /\ TriggersComeLate'
  BY CommitEffect DEF SchemaInv, TriggersComeLate
<1>2. QED
  BY <1>1, CommitKeepsRows, CommitKeepsKeys, CommitKeepsBalance DEF SchemaInv

-----------------------------------------------------------------------------
(* Before the migration anything may be rewritten.                         *)
LEMMA UpdateEntryKeepsInv ==
  ASSUME DB!SchemaAssumption, SchemaInv, NEW t \in LedgerRows, NEW amount \in Amounts,
         DB!UpdateEntry(t, amount)
  PROVE  SchemaInv'
<1>1. /\ ~hardened /\ book[t].count > 0
      /\ book' = [book EXCEPT ![t].debit = amount]
      /\ hardened' = hardened /\ tx' = tx /\ work' = work /\ examined' = examined
      /\ legacy' = legacy
  BY DEF DB!UpdateEntry, DB!Rewritable
<1>2. amount \in Nat /\ book[t] \in DB!Entries
  BY DEF DB!SchemaAssumption, SchemaInv, DB!SchemaTypeOK
<1>3. /\ book' \in [LedgerRows -> DB!Entries] /\ book'[t].count = book[t].count
      /\ \A u \in LedgerRows \ {t} : book'[u] = book[u]
  BY <1>1, <1>2 DEF SchemaInv, DB!SchemaTypeOK, DB!Entries
<1>4. book[t].count # 0
  BY <1>1, <1>2 DEF DB!Entries
<1> USE DEF SchemaInv
<1>5. DB!SchemaTypeOK' /\ TriggersComeLate' /\ RowsAreOwned' /\ ReversedExist'
  BY <1>1, <1>3 DEF DB!SchemaTypeOK, TriggersComeLate, RowsAreOwned, ReversedExist, DB!Row
<1>6. EntriesHaveParents'
  BY <1>1, <1>3, <1>4 DEF EntriesHaveParents, DB!Row
<1>7. KeysHold' /\ ReversalsAreUnique' /\ BalanceHolds'
  BY <1>1 DEF KeysHold, ReversalsAreUnique, BalanceHolds
<1>8. QED
  BY <1>5, <1>6, <1>7

LEMMA DeleteTransactionKeepsInv ==
  ASSUME DB!SchemaAssumption, SchemaInv, NEW t \in LedgerRows, DB!DeleteTransaction(t)
  PROVE  SchemaInv'
<1>1. /\ ~hardened /\ book[t].count = 0 /\ tx[t] # None
      /\ tx' = [tx EXCEPT ![t] = None]
      /\ hardened' = hardened /\ book' = book /\ work' = work /\ examined' = examined
      /\ legacy' = legacy
  BY DEF DB!DeleteTransaction, DB!Rewritable
<1>2. /\ \A s \in Sessions : work[s].book[t].count = 0
      /\ \A u \in LedgerRows : /\ u # t /\ tx[u] # None => tx[u].reverses # t
                        /\ \A s \in Sessions : work[s].tx[u] # None => work[s].tx[u].reverses # t
  BY DEF DB!DeleteTransaction
<1>3. /\ tx'[t] = None /\ \A u \in LedgerRows \ {t} : tx'[u] = tx[u]
      /\ tx' \in [LedgerRows -> DB!Rows \cup {None}]
  BY <1>1 DEF SchemaInv, DB!SchemaTypeOK
<1>4. \A s \in Sessions, u \in LedgerRows \ {t} : DB!Row(s, u)' = DB!Row(s, u)
  BY <1>1, <1>3 DEF DB!Row
<1> USE DEF SchemaInv
<1>5. DB!SchemaTypeOK' /\ TriggersComeLate' /\ RowsAreOwned'
  BY <1>1, <1>3 DEF DB!SchemaTypeOK, TriggersComeLate, RowsAreOwned
<1>6. EntriesHaveParents'
  BY <1>1, <1>2, <1>3, <1>4 DEF EntriesHaveParents
<1>7. ReversedExist'
  <2>1. ASSUME NEW u \in LedgerRows, tx'[u] # None, tx'[u].reverses # None
        PROVE  tx'[tx'[u].reverses] # None
    BY <1>2, <1>3, <2>1 DEF ReversedExist, DB!SchemaTypeOK, DB!Rows
  <2>2. ASSUME NEW u \in LedgerRows, NEW s \in Sessions, NEW v \in LedgerRows,
               work[s].tx[u] # None, work[s].tx[u].reverses = v
        PROVE  DB!Row(s, v)' # None
    BY <1>2, <1>4, <2>2 DEF ReversedExist, DB!SchemaAssumption
  <2>3. \A u \in LedgerRows, s \in Sessions : work[s].tx[u] # None
          /\ work[s].tx[u].reverses # None =>
          work[s].tx[u].reverses \in LedgerRows
    BY DEF DB!SchemaTypeOK, DB!Rows
  <2>4. QED
    BY <1>1, <2>1, <2>2, <2>3 DEF ReversedExist
<1>8. KeysHold' /\ ReversalsAreUnique' /\ BalanceHolds'
  BY <1>1 DEF KeysHold, ReversalsAreUnique, BalanceHolds
<1>9. QED
  BY <1>5, <1>6, <1>7, <1>8

(* The migration examines the keys of the rows that are there.             *)
LEMMA UpgradeKeepsInv ==
  ASSUME DB!SchemaAssumption, SchemaInv, DB!Upgrade
  PROVE  SchemaInv'
<1>1. /\ ~hardened /\ DB!RowsSatisfyKeys /\ hardened' = TRUE
      /\ legacy' = {t \in LedgerRows : tx[t] # None /\ ~DB!Balanced(book[t])}
      /\ tx' = tx /\ book' = book /\ work' = work /\ examined' = examined
  BY DEF DB!Upgrade
<1>2. \A s \in Sessions, u \in LedgerRows : work[s].tx[u] = None /\ work[s].book[u] = DB!NoEntries
  BY DEF DB!Upgrade, DB!NoWork
<1>3. \A s \in Sessions, u \in LedgerRows : DB!Row(s, u)' = DB!Row(s, u) /\ DB!Row(s, u) = tx[u]
  BY <1>1, <1>2 DEF DB!Row
<1> USE DEF SchemaInv
<1>4. DB!SchemaTypeOK' /\ TriggersComeLate' /\ RowsAreOwned'
  BY <1>1 DEF DB!SchemaTypeOK, TriggersComeLate, RowsAreOwned
<1>5. EntriesHaveParents' /\ ReversedExist'
  <2>1. EntriesHaveParents'
    BY <1>1, <1>3 DEF EntriesHaveParents
  <2>2. ReversedExist'
    BY <1>1, <1>2 DEF ReversedExist
  <2>3. QED
    BY <2>1, <2>2
<1>6. KeysHold'
  BY <1>1, <1>2, <1>3 DEF KeysHold, DB!RowsSatisfyKeys, DB!NoEntries
<1>7. ReversalsAreUnique'
  BY <1>1, <1>2 DEF ReversalsAreUnique, DB!RowsSatisfyKeys
<1>8. BalanceHolds'
  <2>1. examined' = {}
    BY <1>1 DEF TriggersComeLate
  <2>2. QED
    BY <1>1, <2>1 DEF BalanceHolds
<1>9. QED
  BY <1>4, <1>5, <1>6, <1>7, <1>8

LEMMA SchemaInitInv ==
  ASSUME DB!SchemaAssumption, DB!Init
  PROVE  SchemaInv
<1>1. DB!NoEntries \in DB!Entries /\ DB!NoEntries.count = 0
  BY DEF DB!NoEntries, DB!Entries
<1>2. \A s \in Sessions, u \in LedgerRows : /\ work[s].tx[u] = None
        /\ work[s].book[u] = DB!NoEntries
                                     /\ tx[u] = None /\ book[u] = DB!NoEntries
  BY DEF DB!Init, DB!NoWork
<1>3. DB!SchemaTypeOK
  BY <1>1 DEF DB!Init, DB!NoWork, DB!SchemaTypeOK
<1>4. ~hardened /\ examined = {}
  BY DEF DB!Init
<1>5. RowsAreOwned /\ EntriesHaveParents /\ ReversedExist
  <2>1. RowsAreOwned
    BY <1>2 DEF RowsAreOwned
  <2>2. ASSUME NEW u \in LedgerRows
        PROVE  /\ book[u].count = 0 /\ book[u] = DB!NoEntries /\ tx[u] = None
               /\ \A s \in Sessions : /\ work[s].book[u].count = 0
                    /\ work[s].book[u] = DB!NoEntries
                                     /\ work[s].tx[u] = None
    <3>1. book[u] = DB!NoEntries /\ tx[u] = None
      BY DEF DB!Init
    <3>2. QED
      BY <1>1, <1>2, <3>1
  <2>3. EntriesHaveParents
    BY <2>2, Zenon DEF EntriesHaveParents
  <2>4. ReversedExist
    BY <2>2, Zenon DEF ReversedExist
  <2>5. QED
    BY <2>1, <2>3, <2>4
<1>6. QED
  BY <1>3, <1>4, <1>5 DEF SchemaInv, KeysHold, ReversalsAreUnique, BalanceHolds,
                          TriggersComeLate

LEMMA StepKeepsInv ==
  ASSUME DB!SchemaAssumption, SchemaInv, [DB!Next]_(DB!vars)
  PROVE  SchemaInv'
<1>1. CASE UNCHANGED DB!vars
  <2>1. /\ hardened' = hardened /\ tx' = tx /\ book' = book /\ work' = work
        /\ examined' = examined /\ legacy' = legacy
    BY <1>1 DEF DB!vars
  <2>2. DB!SchemaTypeOK' /\ RowsAreOwned' /\ TriggersComeLate' /\ ReversalsAreUnique'
    BY <2>1 DEF SchemaInv, DB!SchemaTypeOK, RowsAreOwned, TriggersComeLate, ReversalsAreUnique
  <2>3. EntriesHaveParents' /\ ReversedExist' /\ KeysHold' /\ BalanceHolds'
    BY <2>1 DEF SchemaInv, EntriesHaveParents, ReversedExist, KeysHold, BalanceHolds, DB!Row,
                DB!Examined
  <2>4. QED
    BY <2>2, <2>3 DEF SchemaInv
<1>2. CASE DB!Next
  BY <1>2, InsertTransactionKeepsInv, InsertEntryKeepsInv, ExamineKeepsInv, CommitKeepsInv,
     RollbackKeepsInv, UpdateEntryKeepsInv, DeleteTransactionKeepsInv, UpgradeKeepsInv
     DEF DB!Next
<1>3. QED
  BY <1>1, <1>2

(* What the invariant says of the committed books.                         *)
LEMMA InvMeansSound ==
  ASSUME SchemaInv
  PROVE  DB!HardenedLedgerIsSound
<1> SUFFICES ASSUME hardened, NEW t \in LedgerRows, tx[t] # None
             PROVE  /\ t \notin legacy => DB!Balanced(book[t])
                    /\ book[t].owners \subseteq {tx[t].chama}
                    /\ tx[t].reverses # None =>
                         /\ tx[tx[t].reverses] # None /\ tx[tx[t].reverses].chama = tx[t].chama
                         /\ \A u \in LedgerRows \ {t} : tx[u] # None =>
                              tx[u].reverses # tx[t].reverses
  BY DEF DB!HardenedLedgerIsSound
<1> USE DEF SchemaInv
<1>1. t \notin legacy => DB!Balanced(book[t])
  BY DEF BalanceHolds
<1>2. book[t].owners \subseteq {tx[t].chama}
  BY DEF KeysHold
<1>3. tx[t].reverses # None => tx[tx[t].reverses] # None /\ tx[tx[t].reverses].chama = tx[t].chama
  BY DEF ReversedExist, KeysHold
<1>4. tx[t].reverses # None => \A u \in LedgerRows \ {t} : tx[u] # None =>
        tx[u].reverses # tx[t].reverses
  BY DEF ReversalsAreUnique
<1>5. QED
  BY <1>1, <1>2, <1>3, <1>4

(* The inductive invariant holds of every behaviour.                       *)
THEOREM SchemaInvariance ==
  ASSUME DB!SchemaAssumption
  PROVE  DB!Spec => []SchemaInv
<1>1. DB!Init => SchemaInv
  BY SchemaInitInv
<1>2. SchemaInv /\ [DB!Next]_(DB!vars) => SchemaInv'
  BY StepKeepsInv
<1>3. QED
  BY <1>1, <1>2, PTL DEF DB!Spec

(* Type correctness.                                                       *)
THEOREM SchemaTypeCorrect ==
  ASSUME DB!SchemaAssumption
  PROVE  DB!Spec => []DB!SchemaTypeOK
<1>1. SchemaInv => DB!SchemaTypeOK
  BY DEF SchemaInv
<1>2. QED
  BY <1>1, SchemaInvariance, PTL

(* Whatever the writers of the tables do, once the migration is applied    *)
(* (d1e2f3a4b5c6) the committed books are sound: the guard triggers of     *)
(* ledger_guards.py, each of which sees only what is committed and what    *)
(* its writer adds, are enough for writers who commit one after the other. *)
THEOREM SchemaHardenedLedgerSound ==
  ASSUME DB!SchemaAssumption
  PROVE  DB!Spec => []DB!HardenedLedgerIsSound
<1>1. SchemaInv => DB!HardenedLedgerIsSound
  BY InvMeansSound
<1>2. QED
  BY <1>1, SchemaInvariance, PTL

-----------------------------------------------------------------------------
(* An instance has operators of its own: those of the library are the same.*)
LEMMA ReadingSum ==
  ASSUME NEW f
  PROVE  Reading!SumFunction(f) = SumFunction(f)
  BY DEF SumFunction, SumFunctionOnSet, FoldFunctionOnSet, MapThenFoldSet, Reading!SumFunction,
         Reading!SumFunctionOnSet, Reading!FoldFunctionOnSet, Reading!MapThenFoldSet

LEMMA ReadingCardinality ==
  ASSUME NEW S
  PROVE  Reading!Cardinality(S) = Cardinality(S) /\ (Reading!IsFiniteSet(S) <=> IsFiniteSet(S))
  BY DEF Cardinality, Reading!Cardinality, IsFiniteSet, Reading!IsFiniteSet

(* No two rows have the same id.                                           *)
Distinct(S) == \A r, q \in S : r.id = q.id => r = q

Later(S, r) == {q \in S : Reading!Earlier(r, q)}
Before(S, r) == {q \in S : Reading!Earlier(q, r)}

(* Rows are ordered by time and id, strictly and totally.                  *)
LEMMA EarlierOrders ==
  ASSUME Reading!ReadsAssumption, NEW r \in Reading!Rows, NEW q \in Reading!Rows
  PROVE  /\ ~ Reading!Earlier(r, r)
         /\ Reading!Earlier(r, q) => ~ Reading!Earlier(q, r)
         /\ r.id # q.id => Reading!Earlier(r, q) \/ Reading!Earlier(q, r)
         /\ \A p \in Reading!Rows : Reading!Earlier(r, q) /\ Reading!Earlier(q, p) =>
              Reading!Earlier(r, p)
<1>1. \A p \in Reading!Rows : p.at \in Nat /\ p.id \in Nat
  <2>1. \A p \in Reading!Rows : p.at \in 0..MaxTime /\ p.id \in Numbers
    BY DEF Reading!Rows
  <2>2. Numbers \subseteq Nat /\ 0..MaxTime \subseteq Nat
    BY DEF Reading!ReadsAssumption
  <2>3. QED
    BY <2>1, <2>2
<1>2. r.at \in Nat /\ r.id \in Nat /\ q.at \in Nat /\ q.id \in Nat
  BY <1>1
<1>3. /\ ~ Reading!Earlier(r, r)
      /\ Reading!Earlier(r, q) => ~ Reading!Earlier(q, r)
      /\ r.id # q.id => Reading!Earlier(r, q) \/ Reading!Earlier(q, r)
  BY <1>2 DEF Reading!Earlier
<1>4. ASSUME NEW p \in Reading!Rows, Reading!Earlier(r, q), Reading!Earlier(q, p)
      PROVE  Reading!Earlier(r, p)
  <2>1. p.at \in Nat /\ p.id \in Nat
    BY <1>1
  <2>2. QED
    BY <1>2, <1>4, <2>1 DEF Reading!Earlier
<1>5. QED
  BY <1>3, <1>4

LEMMA RowsBeside ==
  ASSUME Reading!ReadsAssumption, NEW S \in SUBSET Reading!Rows, IsFiniteSet(S), NEW r \in S
  PROVE  /\ Later(S, r) \subseteq S /\ IsFiniteSet(Later(S, r))
         /\ Before(S, r) \subseteq S /\ IsFiniteSet(Before(S, r))
         /\ Cardinality(Later(S, r)) \in Nat /\ Cardinality(Before(S, r)) \in Nat
<1>1. Later(S, r) \subseteq S /\ Before(S, r) \subseteq S
  BY DEF Later, Before
<1>2. QED
  BY <1>1, FS_Subset, FS_CardinalityType

LEMMA FewerLater ==
  ASSUME Reading!ReadsAssumption, NEW S \in SUBSET Reading!Rows, IsFiniteSet(S), NEW r \in S,
         NEW q \in S,
         Reading!Earlier(r, q)
  PROVE  /\ Later(S, q) \subseteq Later(S, r) /\ Later(S, q) # Later(S, r)
         /\ Cardinality(Later(S, q)) < Cardinality(Later(S, r))
<1>1. Later(S, q) \subseteq Later(S, r)
  BY EarlierOrders DEF Later
<1>2. q \in Later(S, r) /\ q \notin Later(S, q)
  BY EarlierOrders DEF Later
<1>3. /\ Cardinality(Later(S, q)) <= Cardinality(Later(S, r))
      /\ Cardinality(Later(S, q)) # Cardinality(Later(S, r))
  BY <1>1, <1>2, RowsBeside, FS_Subset
<1>4. QED
  BY <1>1, <1>2, <1>3, RowsBeside

LEMMA FewerBefore ==
  ASSUME Reading!ReadsAssumption, NEW S \in SUBSET Reading!Rows, IsFiniteSet(S), NEW r \in S,
         NEW q \in S,
         Reading!Earlier(r, q)
  PROVE  Before(S, r) \subseteq Before(S, q) /\ Before(S, r) # Before(S, q)
<1>1. Before(S, r) \subseteq Before(S, q)
  BY EarlierOrders DEF Before
<1>2. r \in Before(S, q) /\ r \notin Before(S, r)
  BY EarlierOrders DEF Before
<1>3. QED
  BY <1>1, <1>2

(* Among subsets of a finite set one has no smaller one beside it.         *)
LEMMA SmallestSubset ==
  ASSUME NEW S, IsFiniteSet(S), NEW W \in SUBSET (SUBSET S), W # {}
  PROVE  \E U \in W : \A V \in W : V \subseteq U => V = U
<1>1. IsWellFoundedOn(StrictSubsetOrdering(S), SUBSET S)
  BY FS_StrictSubsetOrderingWellFounded, FS_FiniteSubsetsOfFinite
<1>2. PICK U \in W : \A V \in W : <<V, U>> \notin StrictSubsetOrdering(S)
  BY <1>1, WFMin
<1>3. QED
  BY <1>2 DEF StrictSubsetOrdering

(* A set of rows has a latest one within a part of it, and an oldest.      *)
LEMMA LatestOfPart ==
  ASSUME Reading!ReadsAssumption, NEW S \in SUBSET Reading!Rows, IsFiniteSet(S),
         NEW T \in SUBSET S, T # {}
  PROVE  \E r \in T : \A q \in T : ~ Reading!Earlier(r, q)
<1> DEFINE W == {Later(S, r) : r \in T}
<1>1. W \in SUBSET (SUBSET S) /\ W # {}
  BY RowsBeside
<1> HIDE DEF W
<1>2. PICK U \in W : \A V \in W : V \subseteq U => V = U
  BY <1>1, SmallestSubset
<1> USE DEF W
<1>3. PICK r \in T : U = Later(S, r)
  BY <1>2
<1>4. \A q \in T : Later(S, q) \subseteq Later(S, r) => Later(S, q) = Later(S, r)
  BY <1>2, <1>3
<1>5. QED
  BY <1>4, FewerLater

LEMMA OldestIsOldest ==
  ASSUME Reading!ReadsAssumption, NEW S \in SUBSET Reading!Rows, IsFiniteSet(S), Distinct(S),
         S # {}
  PROVE  Reading!Oldest(S) \in S /\ \A q \in S \ {Reading!Oldest(S)} :
           Reading!Earlier(Reading!Oldest(S), q)
<1> DEFINE W == {Before(S, r) : r \in S}
<1>1. W \in SUBSET (SUBSET S) /\ W # {}
  BY RowsBeside
<1> HIDE DEF W
<1>2. PICK U \in W : \A V \in W : V \subseteq U => V = U
  BY <1>1, SmallestSubset
<1> USE DEF W
<1>3. PICK r \in S : U = Before(S, r)
  BY <1>2
<1>4. \A q \in S : Before(S, q) \subseteq Before(S, r) => Before(S, q) = Before(S, r)
  BY <1>2, <1>3
<1>5. ASSUME NEW q \in S \ {r} PROVE Reading!Earlier(r, q)
  <2>1. ~ Reading!Earlier(q, r)
    BY <1>4, FewerBefore
  <2>2. QED
    BY <1>5, <2>1, EarlierOrders DEF Distinct
<1>6. QED
  BY <1>5 DEF Reading!Oldest

(* A page: its rows come after all that remain; it is no longer than asked *)
(* for; and it is full if a longer one would not be the same.              *)
LEMMA PageIsLatest ==
  ASSUME Reading!ReadsAssumption, NEW S \in SUBSET Reading!Rows, IsFiniteSet(S), Distinct(S),
         NEW n \in Nat \ {0}
  PROVE  /\ Reading!Latest(S, n) \subseteq S /\ IsFiniteSet(Reading!Latest(S, n))
         /\ \A q \in Reading!Latest(S, n), r \in S \ Reading!Latest(S, n) : Reading!Earlier(r, q)
         /\ Cardinality(Reading!Latest(S, n)) \in Nat /\ Cardinality(Reading!Latest(S, n)) <= n
<1> DEFINE P == Reading!Latest(S, n)
<1>1. P = {r \in S : Cardinality(Later(S, r)) < n}
  BY ReadingCardinality DEF Reading!Latest, Later
<1>2. P \in SUBSET S /\ IsFiniteSet(P) /\ Cardinality(P) \in Nat
  BY <1>1, FS_Subset, FS_CardinalityType
<1>3. ASSUME NEW q \in P, NEW r \in S \ P PROVE Reading!Earlier(r, q)
  <2>1. Cardinality(Later(S, q)) < n /\ ~ Cardinality(Later(S, r)) < n
    BY <1>1
  <2>2. ~ Reading!Earlier(q, r)
    BY <2>1, <1>2, RowsBeside, FewerLater
  <2>3. QED
    BY <1>2, <2>2, EarlierOrders DEF Distinct
<1>4. Cardinality(P) <= n
  <2>1. CASE P = {}
    BY <2>1, FS_EmptySet
  <2>2. CASE P # {}
    <3> DEFINE y == Reading!Oldest(P)
    <3>1. y \in P /\ \A q \in P \ {y} : Reading!Earlier(y, q)
      BY <1>2, <2>2, OldestIsOldest DEF Distinct
    <3> HIDE DEF y, P
    <3>2. P \ {y} \subseteq Later(S, y)
      BY <1>2, <3>1 DEF Later
    <3>3. Cardinality(P \ {y}) <= Cardinality(Later(S, y)) /\ Cardinality(Later(S, y)) \in Nat
      BY <1>2, <3>1, <3>2, RowsBeside, FS_Subset
    <3>4. Cardinality(Later(S, y)) < n
      BY <1>1, <3>1
    <3>5. Cardinality(P \ {y}) = Cardinality(P) - 1
      BY <1>2, <3>1, FS_RemoveElement
    <3>6. QED
      BY <1>2, <3>3, <3>4, <3>5
  <2>3. QED
    BY <2>1, <2>2
<1>5. QED
  BY <1>2, <1>3, <1>4

LEMMA PageIsFull ==
  ASSUME Reading!ReadsAssumption, NEW S \in SUBSET Reading!Rows, IsFiniteSet(S), Distinct(S),
         NEW n \in Nat \ {0}
  PROVE  /\ Cardinality(Reading!Latest(S, n + 1)) > n => Reading!Latest(S, n) # {}
         /\ ~ Cardinality(Reading!Latest(S, n + 1)) > n => Reading!Latest(S, n) = S
<1>1. \A m \in Nat : Reading!Latest(S, m) = {r \in S : Cardinality(Later(S, r)) < m}
  BY ReadingCardinality DEF Reading!Latest, Later
<1>2. ASSUME Cardinality(Reading!Latest(S, n + 1)) > n PROVE Reading!Latest(S, n) # {}
  <2>1. S # {}
    <3>1. CASE S = {}
      <4>1. Reading!Latest(S, n + 1) = {}
        BY <1>1, <3>1
      <4>2. QED
        BY <1>2, <4>1, FS_EmptySet
    <3>2. QED
      BY <3>1
  <2>2. PICK r \in S : \A q \in S : ~ Reading!Earlier(r, q)
    BY <2>1, LatestOfPart
  <2>3. Later(S, r) = {}
    BY <2>2 DEF Later
  <2>4. Cardinality(Later(S, r)) < n
    BY <2>3, FS_EmptySet
  <2>5. QED
    BY <1>1, <2>4
<1>3. ASSUME Reading!Latest(S, n) # S PROVE Cardinality(Reading!Latest(S, n + 1)) > n
  <2> DEFINE T == S \ Reading!Latest(S, n)
             L(r) == Cardinality(Later(S, r))
  <2>1. T \in SUBSET S /\ T # {}
    BY <1>3, PageIsLatest
  <2>2. PICK r \in T : \A q \in T : ~ Reading!Earlier(r, q)
    BY <2>1, LatestOfPart
  <2>3. Later(S, r) \subseteq Reading!Latest(S, n)
    BY <2>2 DEF Later
  <2>4. IsFiniteSet(Reading!Latest(S, n)) /\ Cardinality(Reading!Latest(S, n)) <= n
          /\ Cardinality(Reading!Latest(S, n)) \in Nat
    BY PageIsLatest
  <2>5. L(r) <= n /\ L(r) \in Nat
    BY <2>3, <2>4, RowsBeside, FS_Subset
  <2>6. ~ L(r) < n
    BY <1>1, <2>2
  <2>7. r \in Reading!Latest(S, n + 1) /\ Later(S, r) \subseteq Reading!Latest(S, n + 1)
    <3>1. L(r) < n + 1
      BY <2>5
    <3>2. \A q \in Reading!Latest(S, n) : q \in S /\ L(q) < n /\ L(q) \in Nat
      BY <1>1, RowsBeside
    <3>3. \A q \in Reading!Latest(S, n) : q \in S /\ L(q) < n + 1
      BY <3>2
    <3>4. Reading!Latest(S, n + 1) = {q \in S : L(q) < n + 1}
      BY <1>1
    <3>5. QED
      BY <3>1, <3>3, <3>4, <2>3
  <2>8. r \notin Later(S, r)
    BY EarlierOrders DEF Later
  <2>9. IsFiniteSet(Later(S, r))
    BY RowsBeside
  <2>10. Cardinality(Later(S, r) \cup {r}) = L(r) + 1
    BY <2>8, <2>9, FS_AddElement
  <2>11. /\ IsFiniteSet(Reading!Latest(S, n + 1)) /\ Cardinality(Reading!Latest(S, n + 1)) \in Nat
    BY PageIsLatest
  <2>12. Later(S, r) \cup {r} \subseteq Reading!Latest(S, n + 1)
    BY <2>7
  <2>13. L(r) + 1 <= Cardinality(Reading!Latest(S, n + 1))
    BY <2>10, <2>11, <2>12, FS_Subset
  <2>14. QED
    BY <2>5, <2>6, <2>11, <2>13
<1>4. QED
  BY <1>2, <1>3
-----------------------------------------------------------------------------
(* The sums of the figures over a set of rows S in the place of posted.    *)
RowsOf(S, m) == {r \in S : ReaderOf[r.of] = m}
RowsIn(S, m, month) == {r \in RowsOf(S, m) : Reading!MonthOf(r.at) = month}
FlowOf(S, m, month) == SumFunction([r \in RowsIn(S, m, month) |-> Reading!CashOf(r)])
CollectedOf(S, m) == SumFunction([month \in Reading!Months |-> FlowOf(S, m, month)])
CashPosted(S) == SumFunction([r \in S |-> Reading!CashOf(r)])

LEMMA MonthsFinite ==
  ASSUME Reading!ReadsAssumption
  PROVE  IsFiniteSet(Reading!Months)
<1> DEFINE f == [time \in 0..MaxTime |-> Reading!MonthOf(time)]
<1>1. IsFiniteSet(0..MaxTime)
  BY FS_Interval DEF Reading!ReadsAssumption
<1>2. f \in Surjection(0..MaxTime, Reading!Months)
  BY DEF Surjection, Reading!Months
<1>3. QED
  BY <1>1, <1>2, FS_Surjection

LEMMA CashType ==
  ASSUME Reading!ReadsAssumption, NEW r \in Reading!Rows
  PROVE  /\ Reading!CashOf(r) \in Int /\ PaidAmount[r.of] \in Nat
         /\ ReaderOf[r.of] \in Readers /\ Reading!MonthOf(r.at) \in Reading!Months
  BY DEF Reading!ReadsAssumption, Reading!Rows, Reading!CashOf, Reading!Months

LEMMA SumsType ==
  ASSUME Reading!ReadsAssumption, NEW S \in SUBSET Reading!Rows, IsFiniteSet(S), NEW m
  PROVE  /\ \A month : IsFiniteSet(RowsIn(S, m, month)) /\ FlowOf(S, m, month) \in Int
         /\ CollectedOf(S, m) \in Int
         /\ CashPosted(S) \in Int
<1>1. ASSUME NEW month
      PROVE  IsFiniteSet(RowsIn(S, m, month)) /\ FlowOf(S, m, month) \in Int
  <2> DEFINE f == [r \in RowsIn(S, m, month) |-> Reading!CashOf(r)]
  <2>1. RowsIn(S, m, month) \in SUBSET S
    BY DEF RowsIn, RowsOf
  <2>2. IsFiniteSet(RowsIn(S, m, month)) /\ \A r \in RowsIn(S, m, month) :
          Reading!CashOf(r) \in Int
    BY <2>1, FS_Subset, CashType
  <2>3. DOMAIN f = RowsIn(S, m, month) /\ \A r \in DOMAIN f : f[r] \in Int
    BY <2>2
  <2> HIDE DEF f
  <2>4. SumFunction(f) \in Int
    BY <2>2, <2>3, TotalType
  <2>5. QED
    BY <2>2, <2>4 DEF FlowOf, f
<1>2. CollectedOf(S, m) \in Int
  <2> DEFINE f == [month \in Reading!Months |-> FlowOf(S, m, month)]
  <2>1. DOMAIN f = Reading!Months /\ \A month \in DOMAIN f : f[month] \in Int
    BY <1>1
  <2> HIDE DEF f
  <2>2. SumFunction(f) \in Int
    BY <2>1, MonthsFinite, TotalType
  <2>3. QED
    BY <2>2 DEF CollectedOf, f
<1>3. CashPosted(S) \in Int
  <2> DEFINE f == [r \in S |-> Reading!CashOf(r)]
  <2>1. DOMAIN f = S /\ \A r \in DOMAIN f : f[r] \in Int
    BY CashType
  <2> HIDE DEF f
  <2>2. SumFunction(f) \in Int
    BY <2>1, TotalType
  <2>3. QED
    BY <2>2 DEF CashPosted, f
<1>4. QED
  BY <1>1, <1>2, <1>3

(* One more row adds its cash to one month of one member ...               *)
LEMMA FlowGrows ==
  ASSUME Reading!ReadsAssumption, NEW S \in SUBSET Reading!Rows, IsFiniteSet(S),
         NEW r \in Reading!Rows, r \notin S,
         NEW m, NEW month
  PROVE  FlowOf(S \cup {r}, m, month) =
           IF m = ReaderOf[r.of] /\ month = Reading!MonthOf(r.at)
           THEN FlowOf(S, m, month) + Reading!CashOf(r)
           ELSE FlowOf(S, m, month)
<1> DEFINE T == S \cup {r}
           f == [q \in RowsIn(S, m, month) |-> Reading!CashOf(q)]
           g == [q \in RowsIn(T, m, month) |-> Reading!CashOf(q)]
<1>1. CASE m = ReaderOf[r.of] /\ month = Reading!MonthOf(r.at)
  <2>1. RowsIn(T, m, month) = RowsIn(S, m, month) \cup {r} /\ r \notin RowsIn(S, m, month)
    BY <1>1 DEF RowsIn, RowsOf
  <2>2. \A q \in RowsIn(S, m, month) : Reading!CashOf(q) \in Int
    BY CashType DEF RowsIn, RowsOf
  <2>3. /\ DOMAIN f = RowsIn(S, m, month) /\ DOMAIN g = DOMAIN f \cup {r} /\ r \notin DOMAIN f
        /\ \A q \in DOMAIN f : f[q] \in Int /\ g[q] = f[q]
        /\ g[r] = Reading!CashOf(r) /\ g[r] \in Int
    BY <2>1, <2>2, CashType
  <2>4. IsFiniteSet(DOMAIN f)
    BY <2>3, SumsType
  <2> HIDE DEF f, g
  <2>5. SumFunction(g) = SumFunction(f) + g[r]
    BY <2>3, <2>4, TotalAdds
  <2>6. QED
    BY <1>1, <2>3, <2>5 DEF f, g, FlowOf
<1>2. CASE ~ (m = ReaderOf[r.of] /\ month = Reading!MonthOf(r.at))
  <2>1. RowsIn(T, m, month) = RowsIn(S, m, month)
    BY <1>2 DEF RowsIn, RowsOf
  <2>2. QED
    BY <1>2, <2>1 DEF FlowOf
<1>3. QED
  BY <1>1, <1>2

LEMMA CollectedGrows ==
  ASSUME Reading!ReadsAssumption, NEW S \in SUBSET Reading!Rows, IsFiniteSet(S),
         NEW r \in Reading!Rows, r \notin S, NEW m
  PROVE  CollectedOf(S \cup {r}, m) =
           IF m = ReaderOf[r.of] THEN CollectedOf(S, m) + Reading!CashOf(r) ELSE CollectedOf(S, m)
<1> DEFINE f == [month \in Reading!Months |-> FlowOf(S, m, month)]
           g == [month \in Reading!Months |-> FlowOf(S \cup {r}, m, month)]
<1>1. /\ DOMAIN f = Reading!Months /\ DOMAIN g = Reading!Months /\ IsFiniteSet(Reading!Months)
      /\ \A month \in Reading!Months : f[month] = FlowOf(S, m, month) /\ f[month] \in Int
                              /\ g[month] = FlowOf(S \cup {r}, m, month)
  BY MonthsFinite, SumsType
<1>2. CollectedOf(S, m) = SumFunction(f) /\ CollectedOf(S \cup {r}, m) = SumFunction(g)
  BY DEF CollectedOf
<1>3. Reading!MonthOf(r.at) \in Reading!Months /\ Reading!CashOf(r) \in Int
  BY CashType
<1> HIDE DEF f, g
<1>4. CASE m = ReaderOf[r.of]
  <2>1. \A x \in DOMAIN f : f[x] \in Int /\ g[x] = IF x = Reading!MonthOf(r.at)
                                                   THEN f[x] + Reading!CashOf(r) ELSE f[x]
    <3>1. ASSUME NEW x \in Reading!Months
          PROVE  g[x] = IF x = Reading!MonthOf(r.at) THEN f[x] + Reading!CashOf(r) ELSE f[x]
      <4>1. FlowOf(S \cup {r}, m, x) = IF m = ReaderOf[r.of] /\ x = Reading!MonthOf(r.at)
                                       THEN FlowOf(S, m, x) + Reading!CashOf(r)
                                       ELSE FlowOf(S, m, x)
        BY FlowGrows
      <4>2. f[x] = FlowOf(S, m, x) /\ g[x] = FlowOf(S \cup {r}, m, x)
        BY <1>1
      <4>3. QED
        BY <1>4, <4>1, <4>2
    <3>2. QED
      BY <1>1, <3>1
  <2>2. SumFunction(g) = SumFunction(f) + Reading!CashOf(r)
    BY <1>1, <1>3, <2>1, TotalChanges
  <2>3. QED
    BY <1>2, <1>4, <2>2
<1>5. CASE m # ReaderOf[r.of]
  <2>1. ASSUME NEW x \in Reading!Months PROVE f[x] = g[x]
    <3>1. FlowOf(S \cup {r}, m, x) = FlowOf(S, m, x)
      BY <1>5, FlowGrows
    <3>2. QED
      BY <1>1, <3>1
  <2>2. SumFunction(f) = SumFunction(g)
    BY <1>1, <2>1, TotalAgrees
  <2>3. QED
    BY <1>2, <1>5, <2>2
<1>6. QED
  BY <1>4, <1>5

(* ... to the sum over the members, and to the cash lines.                 *)
LEMMA TotalsGrow ==
  ASSUME Reading!ReadsAssumption, NEW S \in SUBSET Reading!Rows, IsFiniteSet(S),
         NEW r \in Reading!Rows, r \notin S
  PROVE  /\ SumFunction([m \in Readers |-> CollectedOf(S \cup {r}, m)]) =
              SumFunction([m \in Readers |-> CollectedOf(S, m)]) + Reading!CashOf(r)
         /\ CashPosted(S \cup {r}) = CashPosted(S) + Reading!CashOf(r)
<1>1. SumFunction([m \in Readers |-> CollectedOf(S \cup {r}, m)]) =
        SumFunction([m \in Readers |-> CollectedOf(S, m)]) + Reading!CashOf(r)
  <2> DEFINE f == [m \in Readers |-> CollectedOf(S, m)]
             g == [m \in Readers |-> CollectedOf(S \cup {r}, m)]
  <2>1. /\ DOMAIN f = Readers /\ DOMAIN g = Readers /\ IsFiniteSet(Readers)
        /\ ReaderOf[r.of] \in Readers /\ Reading!CashOf(r) \in Int
        /\ \A m \in Readers : f[m] = CollectedOf(S, m) /\ f[m] \in Int
                               /\ g[m] = CollectedOf(S \cup {r}, m)
    BY CashType, SumsType, ReadingCardinality DEF Reading!ReadsAssumption
  <2> HIDE DEF f, g
  <2>2. \A x \in DOMAIN f : f[x] \in Int /\ g[x] = IF x = ReaderOf[r.of]
                                                   THEN f[x] + Reading!CashOf(r) ELSE f[x]
    <3>1. ASSUME NEW x \in Readers
          PROVE  g[x] = IF x = ReaderOf[r.of] THEN f[x] + Reading!CashOf(r) ELSE f[x]
      <4>1. CollectedOf(S \cup {r}, x) =
              IF x = ReaderOf[r.of] THEN CollectedOf(S, x) + Reading!CashOf(r)
              ELSE CollectedOf(S, x)
        BY CollectedGrows
      <4>2. f[x] = CollectedOf(S, x) /\ g[x] = CollectedOf(S \cup {r}, x)
        BY <2>1
      <4>3. QED
        BY <4>1, <4>2
    <3>2. QED
      BY <2>1, <3>1
  <2>3. SumFunction(g) = SumFunction(f) + Reading!CashOf(r)
    <3>1. IsFiniteSet(DOMAIN f) /\ DOMAIN g = DOMAIN f /\ ReaderOf[r.of] \in DOMAIN f
      BY <2>1
    <3>2. QED
      BY <2>1, <2>2, <3>1, TotalChanges
  <2>4. QED
    BY <2>3 DEF f, g
<1>2. CashPosted(S \cup {r}) = CashPosted(S) + Reading!CashOf(r)
  <2> DEFINE f == [q \in S |-> Reading!CashOf(q)]
             g == [q \in S \cup {r} |-> Reading!CashOf(q)]
  <2>1. /\ DOMAIN f = S /\ DOMAIN g = DOMAIN f \cup {r}
        /\ \A q \in DOMAIN f : f[q] \in Int /\ g[q] = f[q]
        /\ g[r] = Reading!CashOf(r) /\ g[r] \in Int
    BY CashType
  <2> HIDE DEF f, g
  <2>2. SumFunction(g) = SumFunction(f) + g[r]
    BY <2>1, TotalAdds
  <2>3. QED
    BY <2>1, <2>2 DEF f, g, CashPosted
<1>3. QED
  BY <1>1, <1>2
-----------------------------------------------------------------------------
(* What is posted and what is under way: an id is used once, a             *)
(* contribution has one request at a time, which finds it as it must be.   *)
RowsAreSound ==
  /\ IsFiniteSet(posted)
  /\ IsFiniteSet({c \in Paid : status[c] = "CONFIRMED"})
  /\ Distinct(open \cup posted) /\ open \cap posted = {}
  /\ \A r, q \in open : r.of = q.of => r = q
  /\ \A r \in open : status[r.of] = IF r.kind = "CONFIRMATION" THEN "PENDING" ELSE "CONFIRMED"

(* Where a reader stands: it has been given what was there and is not      *)
(* earlier than its cursor, and nothing that is.                           *)
WalkIsSound ==
  /\ began \subseteq posted
  /\ \A i \in 1..Len(pages) : pages[i] \subseteq posted
  /\ cursor = None => pages = <<>>
  /\ cursor \in Reading!Rows =>
       /\ cursor \in posted
       /\ \A i \in 1..Len(pages) : \A r \in pages[i] : r = cursor \/ Reading!Earlier(cursor, r)
       /\ \A r \in began : Reading!Earlier(r, cursor) \/ \E i \in 1..Len(pages) : r \in pages[i]

SeenInv == Reading!ReadsTypeOK /\ RowsAreSound /\ WalkIsSound /\ Reading!ReadersSeeTheBooks

LinesOf(m) == SumFunction([c \in Reading!ContributionLines(m, 0, MaxTime) |-> PaidAmount[c]])

(* The amounts of CollectionsMatchBooks, in these words.                   *)
LEMMA FiguresAre ==
  ASSUME Reading!ReadsTypeOK, Reading!ReadsAssumption
  PROVE  /\ \A m : Reading!Collections(m) = CollectedOf(posted, m)
         /\ SumFunction([r \in Reading!CashLines(0, MaxTime) |-> Reading!CashOf(r)]) =
              CashPosted(posted)
         /\ \A m : Reading!ContributionLines(m, 0, MaxTime) =
                     {c \in Paid : ReaderOf[c] = m /\ status[c] = "CONFIRMED"}
<1>1. ASSUME NEW m
      PROVE  Reading!Collections(m) = CollectedOf(posted, m)
  <2>1. \A month : Reading!MonthlyCashFlow(m, month) = FlowOf(posted, m, month)
    BY ReadingSum DEF Reading!MonthlyCashFlow, Reading!Sources, FlowOf, RowsIn, RowsOf
  <2>2. [month \in Reading!Months |-> Reading!MonthlyCashFlow(m, month)] =
        [month \in Reading!Months |-> FlowOf(posted, m, month)]
    BY <2>1
  <2>3. QED
    BY <2>2, ReadingSum DEF Reading!Collections, CollectedOf
<1>2. Reading!CashLines(0, MaxTime) = posted
  <2>1. \A r \in posted : r.at \in 0..MaxTime
    BY DEF Reading!ReadsTypeOK, Reading!Rows
  <2>2. QED
    BY <2>1 DEF Reading!CashLines, Reading!ReadsAssumption
<1>3. \A c \in Paid : 0 <= confirmedAt[c] /\ confirmedAt[c] <= MaxTime
  BY DEF Reading!ReadsTypeOK, Reading!ReadsAssumption
<1>4. QED
  BY <1>1, <1>2, <1>3 DEF CashPosted, Reading!ContributionLines

LEMMA BooksMean ==
  ASSUME Reading!ReadsTypeOK, Reading!ReadsAssumption
  PROVE  Reading!CollectionsMatchBooks <=>
           /\ \A m \in Readers : CollectedOf(posted, m) = LinesOf(m)
           /\ SumFunction([m \in Readers |-> CollectedOf(posted, m)]) = CashPosted(posted)
<1>1. \A m : Reading!Collections(m) = CollectedOf(posted, m)
  BY FiguresAre
<1>2. [m \in Readers |-> Reading!Collections(m)] = [m \in Readers |-> CollectedOf(posted, m)]
  BY <1>1
<1>3. SumFunction([r \in Reading!CashLines(0, MaxTime) |-> Reading!CashOf(r)]) =
        CashPosted(posted)
  BY FiguresAre
<1>4. QED
  BY <1>1, <1>2, <1>3, ReadingSum DEF Reading!CollectionsMatchBooks, LinesOf

LEMMA ReadsInitInv ==
  ASSUME Reading!ReadsAssumption
  PROVE  Reading!Init => SeenInv
<1> SUFFICES ASSUME Reading!Init PROVE SeenInv
  OBVIOUS
<1>1. Reading!ReadsTypeOK
  BY DEF Reading!Init, Reading!ReadsTypeOK, Reading!ReadsAssumption
<1>2. RowsAreSound
  <2>1. {c \in Paid : status[c] = "CONFIRMED"} = {}
    BY DEF Reading!Init
  <2>2. QED
    BY <2>1, FS_EmptySet DEF Reading!Init, RowsAreSound, Distinct
<1>3. WalkIsSound
  BY DEF Reading!Init, WalkIsSound, Reading!ReadsAssumption
<1>4. Reading!WalkIsComplete
  BY DEF Reading!Init, Reading!WalkIsComplete, Reading!ReadsAssumption
<1>5. Reading!CollectionsMatchBooks
  <2>1. posted = {} /\ \A m : Reading!ContributionLines(m, 0, MaxTime) = {}
    BY DEF Reading!Init, Reading!ContributionLines
  <2>2. \A f : DOMAIN f = {} => SumFunction(f) = 0
    BY TotalOfNothing
  <2>3. CashPosted(posted) = 0 /\ \A m : LinesOf(m) = 0
    BY <2>1, <2>2 DEF CashPosted, LinesOf
  <2>4. ASSUME NEW f, IsFiniteSet(DOMAIN f), \A x \in DOMAIN f : f[x] = 0
        PROVE  SumFunction(f) = 0
    BY <2>4, TotalOfZeros
  <2>5. \A m, month : RowsIn(posted, m, month) = {}
    BY <2>1 DEF RowsIn, RowsOf
  <2>6. \A m, month : FlowOf(posted, m, month) = 0
    BY <2>2, <2>5 DEF FlowOf
  <2>7. ASSUME NEW m PROVE CollectedOf(posted, m) = 0
    <3> DEFINE f == [month \in Reading!Months |-> FlowOf(posted, m, month)]
    <3>1. DOMAIN f = Reading!Months /\ \A x \in DOMAIN f : f[x] = 0
      BY <2>6
    <3> HIDE DEF f
    <3>2. SumFunction(f) = 0
      BY <2>4, <3>1, MonthsFinite
    <3>3. QED
      BY <3>2 DEF CollectedOf, f
  <2>8. SumFunction([m \in Readers |-> CollectedOf(posted, m)]) = 0
    <3> DEFINE f == [m \in Readers |-> CollectedOf(posted, m)]
    <3>1. DOMAIN f = Readers /\ \A x \in DOMAIN f : f[x] = 0
      BY <2>7
    <3> HIDE DEF f
    <3>2. SumFunction(f) = 0
      BY <2>4, <3>1, ReadingCardinality DEF Reading!ReadsAssumption
    <3>3. QED
      BY <3>2 DEF f
  <2>9. QED
    BY <1>1, <2>3, <2>7, <2>8, BooksMean
<1>6. QED
  BY <1>1, <1>2, <1>3, <1>4, <1>5 DEF SeenInv, Reading!ReadersSeeTheBooks

-----------------------------------------------------------------------------
(* A step that leaves the committed rows and the statuses leaves the books.*)
LEMMA BooksKept ==
  ASSUME Reading!ReadsAssumption, SeenInv, Reading!ReadsTypeOK', UNCHANGED <<posted, status>>
  PROVE  Reading!CollectionsMatchBooks'
<1>1. \A m : Reading!ContributionLines(m, 0, MaxTime) = {c \in Paid : ReaderOf[c] = m
        /\ status[c] = "CONFIRMED"}
  BY FiguresAre DEF SeenInv
<1>2. \A m : Reading!ContributionLines(m, 0, MaxTime)' = {c \in Paid : ReaderOf[c] = m
        /\ status[c]' = "CONFIRMED"}
  <2>1. \A c \in Paid : 0 <= confirmedAt'[c] /\ confirmedAt'[c] <= MaxTime
    BY DEF Reading!ReadsTypeOK, Reading!ReadsAssumption
  <2>2. QED
    BY <2>1 DEF Reading!ContributionLines
<1>3. \A m : (Reading!Collections(m))' = Reading!Collections(m)
  BY DEF Reading!Collections, Reading!MonthlyCashFlow, Reading!Sources
<1>4. Reading!CashLines(0, MaxTime)' = Reading!CashLines(0, MaxTime)
  BY DEF Reading!CashLines
<1>5. \A m : Reading!ContributionLines(m, 0, MaxTime)' = Reading!ContributionLines(m, 0, MaxTime)
  BY <1>1, <1>2
<1>6. QED
  BY <1>3, <1>4, <1>5 DEF SeenInv, Reading!ReadersSeeTheBooks, Reading!CollectionsMatchBooks

LEMMA TickKeepsInv ==
  ASSUME Reading!ReadsAssumption, SeenInv, Reading!Tick
  PROVE  SeenInv'
<1>1. Reading!ReadsTypeOK'
  BY DEF SeenInv, Reading!Tick, Reading!ReadsTypeOK, Reading!ReadsAssumption, Reading!walk
<1>2. RowsAreSound' /\ WalkIsSound' /\ Reading!WalkIsComplete'
  BY DEF SeenInv, Reading!Tick, Reading!walk, RowsAreSound, WalkIsSound,
         Reading!ReadersSeeTheBooks, Reading!WalkIsComplete
<1>3. Reading!CollectionsMatchBooks'
  BY <1>1, BooksKept DEF Reading!Tick
<1>4. QED
  BY <1>1, <1>2, <1>3 DEF SeenInv, Reading!ReadersSeeTheBooks

LEMMA BeginPostingKeepsInv ==
  ASSUME Reading!ReadsAssumption, SeenInv, NEW c \in Paid, NEW kind \in Reading!Kinds,
         NEW id \in Numbers,
         Reading!BeginPosting(c, kind, id)
  PROVE  SeenInv'
<1> DEFINE r == [id |-> id, at |-> now, kind |-> kind, of |-> c]
<1>1. r \in Reading!Rows /\ open' = open \cup {r}
  BY DEF Reading!BeginPosting, SeenInv, Reading!ReadsTypeOK, Reading!Rows
<1>2. UNCHANGED <<now, posted, status, confirmedAt, pages, cursor, began>>
  BY DEF Reading!BeginPosting, Reading!walk
<1>3. r.id = id /\ r.of = c /\ r.kind = kind
  OBVIOUS
<1>4. /\ \A q \in open : q.of # r.of
      /\ \A q \in open \cup posted : q.id # r.id
      /\ status[r.of] = IF r.kind = "CONFIRMATION" THEN "PENDING" ELSE "CONFIRMED"
  BY <1>3 DEF Reading!BeginPosting
<1> HIDE DEF r
<1>5. Reading!ReadsTypeOK'
  BY <1>1, <1>2 DEF SeenInv, Reading!ReadsTypeOK
<1>6. RowsAreSound'
  BY <1>1, <1>2, <1>4 DEF SeenInv, RowsAreSound, Distinct
<1>7. WalkIsSound' /\ Reading!WalkIsComplete'
  BY <1>2 DEF SeenInv, WalkIsSound, Reading!ReadersSeeTheBooks, Reading!WalkIsComplete
<1>8. Reading!CollectionsMatchBooks'
  BY <1>2, <1>5, BooksKept
<1>9. QED
  BY <1>5, <1>6, <1>7, <1>8 DEF SeenInv, Reading!ReadersSeeTheBooks

LEMMA AbortPostingKeepsInv ==
  ASSUME Reading!ReadsAssumption, SeenInv, NEW r \in open, Reading!AbortPosting(r)
  PROVE  SeenInv'
<1>1. open' = open \ {r} /\ UNCHANGED <<now, posted, status, confirmedAt, pages, cursor, began>>
  BY DEF Reading!AbortPosting, Reading!walk
<1>2. Reading!ReadsTypeOK'
  BY <1>1 DEF SeenInv, Reading!ReadsTypeOK
<1>3. RowsAreSound'
  BY <1>1 DEF SeenInv, RowsAreSound, Distinct
<1>4. WalkIsSound' /\ Reading!WalkIsComplete'
  BY <1>1 DEF SeenInv, WalkIsSound, Reading!ReadersSeeTheBooks, Reading!WalkIsComplete
<1>5. Reading!CollectionsMatchBooks'
  BY <1>1, <1>2, BooksKept
<1>6. QED
  BY <1>2, <1>3, <1>4, <1>5 DEF SeenInv, Reading!ReadersSeeTheBooks

(* What a commit does to the lines of the statements.                      *)
LEMMA LinesFollow ==
  ASSUME Reading!ReadsAssumption, SeenInv, Reading!ReadsTypeOK', NEW r \in open,
         NEW time \in 0..MaxTime,
         Reading!CommitPosting(r, time), NEW m
  PROVE  (LinesOf(m))' = IF m = ReaderOf[r.of] THEN LinesOf(m) + Reading!CashOf(r) ELSE LinesOf(m)
<1> DEFINE c == r.of
           L == Reading!ContributionLines(m, 0, MaxTime)
           K == Reading!ContributionLines(m, 0, MaxTime)'
           f == [x \in L |-> PaidAmount[x]]
           g == [x \in K |-> PaidAmount[x]]
<1>1. L = {x \in Paid : ReaderOf[x] = m /\ status[x] = "CONFIRMED"}
  BY FiguresAre DEF SeenInv
<1>2. K = {x \in Paid : ReaderOf[x] = m /\ status'[x] = "CONFIRMED"}
  <2>1. \A x \in Paid : 0 <= confirmedAt'[x] /\ confirmedAt'[x] <= MaxTime
    BY DEF Reading!ReadsTypeOK, Reading!ReadsAssumption
  <2>2. QED
    BY <2>1 DEF Reading!ContributionLines
<1>3. LinesOf(m) = SumFunction(f) /\ (LinesOf(m))' = SumFunction(g)
  BY DEF LinesOf
<1>4. /\ r \in Reading!Rows /\ c \in Paid /\ r.kind \in Reading!Kinds
      /\ status \in [Paid -> {"PENDING", "CONFIRMED", "REVERSED"}]
  BY DEF SeenInv, Reading!ReadsTypeOK, Reading!Rows
<1>5. /\ \A x \in Paid \ {c} : status'[x] = status[x]
      /\ r.kind = "CONFIRMATION" => status[c] = "PENDING" /\ status'[c] = "CONFIRMED"
      /\ r.kind = "REVERSAL" => status[c] = "CONFIRMED" /\ status'[c] = "REVERSED"
  BY <1>4 DEF Reading!CommitPosting, SeenInv, RowsAreSound
<1>6. IsFiniteSet(L)
  <2>1. L \in SUBSET {x \in Paid : status[x] = "CONFIRMED"}
    BY <1>1
  <2>2. QED
    BY <2>1, FS_Subset DEF SeenInv, RowsAreSound
<1>7. /\ DOMAIN f = L /\ DOMAIN g = K
      /\ \A x \in L : f[x] = PaidAmount[x] /\ f[x] \in Nat
      /\ \A x \in K : g[x] = PaidAmount[x] /\ g[x] \in Nat
  <2>1. L \subseteq Paid /\ K \subseteq Paid
    BY <1>1, <1>2
  <2> HIDE DEF L, K
  <2>2. QED
    BY <2>1 DEF Reading!ReadsAssumption
<1> HIDE DEF L, K, f, g
<1>8. CASE m # ReaderOf[c]
  <2>1. K = L
    BY <1>1, <1>2, <1>5, <1>8
  <2>2. SumFunction(f) = SumFunction(g)
    BY <1>6, <1>7, <2>1, TotalAgrees
  <2>3. QED
    BY <1>3, <1>8, <2>2
<1>9. CASE m = ReaderOf[c] /\ r.kind = "CONFIRMATION"
  <2>1. c \notin L /\ K = L \cup {c}
    BY <1>1, <1>2, <1>4, <1>5, <1>9
  <2>2. /\ c \notin DOMAIN f /\ DOMAIN g = DOMAIN f \cup {c} /\ g[c] = PaidAmount[c]
        /\ g[c] \in Int
        /\ \A x \in DOMAIN f : f[x] \in Int /\ g[x] = f[x]
        /\ IsFiniteSet(DOMAIN f)
    BY <1>6, <1>7, <2>1
  <2>3. SumFunction(g) = SumFunction(f) + g[c]
    BY <2>2, TotalAdds
  <2>4. Reading!CashOf(r) = g[c]
    BY <1>9, <2>2 DEF Reading!CashOf
  <2>5. QED
    BY <1>3, <1>9, <2>3, <2>4
<1>10. CASE m = ReaderOf[c] /\ r.kind = "REVERSAL"
  <2>1. c \in L /\ K = L \ {c} /\ L = K \cup {c} /\ c \notin K
    BY <1>1, <1>2, <1>4, <1>5, <1>10
  <2>2. IsFiniteSet(K)
    BY <1>6, <2>1, FS_Subset
  <2>3. /\ c \notin DOMAIN g /\ DOMAIN f = DOMAIN g \cup {c} /\ f[c] = PaidAmount[c]
        /\ f[c] \in Int
        /\ \A x \in DOMAIN g : g[x] \in Int /\ f[x] = g[x]
        /\ IsFiniteSet(DOMAIN g)
    BY <1>7, <2>1, <2>2
  <2>4. SumFunction(f) = SumFunction(g) + f[c] /\ SumFunction(g) \in Int
    BY <2>3, TotalAdds, TotalType
  <2>5. Reading!CashOf(r) = 0 - f[c]
    BY <1>10, <2>3 DEF Reading!CashOf
  <2>6. SumFunction(g) = SumFunction(f) + Reading!CashOf(r)
    BY <2>3, <2>4, <2>5
  <2>7. QED
    BY <1>3, <1>10, <2>6
<1>11. QED
  BY <1>4, <1>8, <1>9, <1>10 DEF Reading!Kinds

LEMMA CommitPostingKeepsInv ==
  ASSUME Reading!ReadsAssumption, SeenInv, NEW r \in open, NEW time \in r.at..now,
         Reading!CommitPosting(r, time)
  PROVE  SeenInv'
<1>1. /\ r \in Reading!Rows /\ r \notin posted /\ r.of \in Paid /\ r.kind \in Reading!Kinds
      /\ time \in 0..MaxTime
  <2>1. r \in Reading!Rows /\ r \notin posted /\ now \in 0..MaxTime
    BY DEF SeenInv, Reading!ReadsTypeOK, RowsAreSound
  <2>2. r.of \in Paid /\ r.kind \in Reading!Kinds /\ r.at \in 0..MaxTime
    BY <2>1 DEF Reading!Rows
  <2>3. QED
    BY <2>1, <2>2 DEF Reading!ReadsAssumption
<1>2. /\ open' = open \ {r} /\ posted' = posted \cup {r}
      /\ UNCHANGED <<now, pages, cursor, began>>
  BY DEF Reading!CommitPosting, Reading!walk
<1>3. Reading!ReadsTypeOK'
  <2>1. status' \in [Paid -> {"PENDING", "CONFIRMED", "REVERSED"}]
    BY <1>1 DEF SeenInv, Reading!ReadsTypeOK, Reading!CommitPosting
  <2>2. confirmedAt' \in [Paid -> 0..MaxTime]
    BY <1>1 DEF SeenInv, Reading!ReadsTypeOK, Reading!CommitPosting
  <2>3. QED
    BY <1>1, <1>2, <2>1, <2>2 DEF SeenInv, Reading!ReadsTypeOK
<1>4. RowsAreSound'
  <2>1. IsFiniteSet(posted')
    BY <1>2, FS_AddElement DEF SeenInv, RowsAreSound
  <2>2. IsFiniteSet({c \in Paid : status'[c] = "CONFIRMED"})
    <3> DEFINE C == {c \in Paid : status[c] = "CONFIRMED"}
    <3>1. {c \in Paid : status'[c] = "CONFIRMED"} \in SUBSET (C \cup {r.of})
      BY <1>1 DEF SeenInv, Reading!ReadsTypeOK, Reading!CommitPosting
    <3>2. IsFiniteSet(C \cup {r.of})
      BY FS_AddElement DEF SeenInv, RowsAreSound
    <3>3. QED
      BY <3>1, <3>2, FS_Subset
  <2>3. Distinct(open' \cup posted') /\ open' \cap posted' = {}
    BY <1>2 DEF SeenInv, RowsAreSound, Distinct
  <2>4. \A p, q \in open' : p.of = q.of => p = q
    BY <1>2 DEF SeenInv, RowsAreSound
  <2>5. \A q \in open' : status'[q.of] = IF q.kind = "CONFIRMATION" THEN "PENDING"
                                         ELSE "CONFIRMED"
    <3>1. ASSUME NEW q \in open' PROVE status'[q.of] = status[q.of] /\ q \in open
      <4>1. q \in open /\ q.of # r.of
        BY <1>2 DEF SeenInv, RowsAreSound
      <4>2. q.of \in Paid
        BY <4>1 DEF SeenInv, Reading!ReadsTypeOK, Reading!Rows
      <4>3. QED
        BY <4>1, <4>2 DEF Reading!CommitPosting, SeenInv, Reading!ReadsTypeOK
    <3>2. QED
      BY <3>1 DEF SeenInv, RowsAreSound
  <2>6. QED
    BY <2>1, <2>2, <2>3, <2>4, <2>5 DEF RowsAreSound
<1>5. WalkIsSound' /\ Reading!WalkIsComplete'
  BY <1>2 DEF SeenInv, WalkIsSound, Reading!ReadersSeeTheBooks, Reading!WalkIsComplete
<1>6. Reading!CollectionsMatchBooks'
  <2>1. /\ posted \in SUBSET Reading!Rows /\ IsFiniteSet(posted)
        /\ \A m \in Readers : CollectedOf(posted, m) = LinesOf(m)
        /\ SumFunction([m \in Readers |-> CollectedOf(posted, m)]) = CashPosted(posted)
    BY BooksMean DEF SeenInv, Reading!ReadsTypeOK, RowsAreSound, Reading!ReadersSeeTheBooks
  <2>2. ASSUME NEW m \in Readers PROVE CollectedOf(posted', m) = (LinesOf(m))'
    <3>1. CollectedOf(posted', m) =
            IF m = ReaderOf[r.of] THEN CollectedOf(posted, m) + Reading!CashOf(r)
            ELSE CollectedOf(posted, m)
      BY <1>1, <1>2, <2>1, CollectedGrows
    <3>2. (LinesOf(m))' = IF m = ReaderOf[r.of] THEN LinesOf(m) + Reading!CashOf(r)
                          ELSE LinesOf(m)
      BY <1>1, <1>3, LinesFollow
    <3>3. CollectedOf(posted, m) = LinesOf(m)
      BY <2>1
    <3>4. QED
      BY <3>1, <3>2, <3>3
  <2>3. SumFunction([m \in Readers |-> CollectedOf(posted', m)]) = CashPosted(posted')
    BY <1>1, <1>2, <2>1, TotalsGrow
  <2>4. (\A m \in Readers : CollectedOf(posted, m) = LinesOf(m))'
    BY <2>2
  <2>5. (SumFunction([m \in Readers |-> CollectedOf(posted, m)]) = CashPosted(posted))'
    BY <2>3
  <2>6. (Reading!ReadsTypeOK /\ Reading!ReadsAssumption => (Reading!CollectionsMatchBooks <=>
           /\ \A m \in Readers : CollectedOf(posted, m) = LinesOf(m)
           /\ SumFunction([m \in Readers |-> CollectedOf(posted, m)]) = CashPosted(posted)))'
    BY BooksMean, PTL
  <2>7. QED
    BY <1>3, <2>4, <2>5, <2>6
<1>7. QED
  BY <1>3, <1>4, <1>5, <1>6 DEF SeenInv, Reading!ReadersSeeTheBooks

LEMMA NextPageKeepsInv ==
  ASSUME Reading!ReadsAssumption, SeenInv, Reading!NextPage
  PROVE  SeenInv'
<1> DEFINE S == Reading!Remaining
           items == Reading!Latest(S, PageSize)
           n == Len(pages)
<1>1. /\ cursor # End /\ pages' = Append(pages, items)
      /\ cursor' = IF Cardinality(Reading!Latest(S, PageSize + 1)) > PageSize
                   THEN Reading!Oldest(items) ELSE End
      /\ began' = IF cursor = None THEN posted ELSE began
      /\ UNCHANGED <<now, open, posted, status, confirmedAt>>
  BY ReadingCardinality DEF Reading!NextPage
<1>2. /\ posted \subseteq Reading!Rows /\ IsFiniteSet(posted) /\ Distinct(posted)
      /\ pages \in Seq(SUBSET Reading!Rows) /\ cursor \in Reading!Rows \cup {None, End}
  BY DEF SeenInv, Reading!ReadsTypeOK, RowsAreSound, Distinct
<1>3. /\ S \in SUBSET posted /\ S \in SUBSET Reading!Rows
      /\ cursor = None => S = posted
      /\ cursor # None => S = {r \in posted : Reading!Earlier(r, cursor)}
  BY <1>2 DEF Reading!Remaining
<1>4. IsFiniteSet(S) /\ Distinct(S)
  BY <1>2, <1>3, FS_Subset DEF Distinct
<1>5. PageSize \in Nat \ {0}
  BY DEF Reading!ReadsAssumption
<1> HIDE DEF S
<1>6. /\ items \subseteq S /\ IsFiniteSet(items)
      /\ \A q \in items, r \in S \ items : Reading!Earlier(r, q)
  BY <1>3, <1>4, <1>5, PageIsLatest
<1>7. /\ Cardinality(Reading!Latest(S, PageSize + 1)) > PageSize => items # {}
      /\ ~ Cardinality(Reading!Latest(S, PageSize + 1)) > PageSize => items = S
  BY <1>3, <1>4, <1>5, PageIsFull
<1>8. items # {} => Reading!Oldest(items) \in items /\ \A q \in items \ {Reading!Oldest(items)} :
        Reading!Earlier(Reading!Oldest(items), q)
  <2>1. items \in SUBSET Reading!Rows /\ Distinct(items)
    BY <1>3, <1>4, <1>6 DEF Distinct
  <2> HIDE DEF items
  <2>2. QED
    BY <1>6, <2>1, OldestIsOldest
<1> HIDE DEF items
<1>9. \/ cursor' = End /\ items = S
      \/ /\ cursor' \in items /\ cursor' \in posted /\ cursor' \in Reading!Rows
         /\ \A q \in items \ {cursor'} : Reading!Earlier(cursor', q)
  BY <1>1, <1>3, <1>6, <1>7, <1>8
<1>10. /\ n \in Nat /\ Len(pages') = n + 1 /\ pages'[n + 1] = items
       /\ \A i \in 1..n : pages'[i] = pages[i] /\ pages[i] \subseteq posted
       /\ pages' \in Seq(SUBSET Reading!Rows)
  <2>1. items \in SUBSET Reading!Rows
    BY <1>3, <1>6
  <2>2. n \in Nat /\ Len(pages') = n + 1 /\ pages'[n + 1] = items
          /\ pages' \in Seq(SUBSET Reading!Rows)
    BY <1>1, <1>2, <2>1
  <2>3. \A i \in 1..n : pages'[i] = pages[i]
    BY <1>1, <1>2, <2>1
  <2>4. \A i \in 1..n : pages[i] \subseteq posted
    BY DEF SeenInv, WalkIsSound
  <2>5. QED
    BY <2>2, <2>3, <2>4
<1> HIDE DEF n
<1>11. /\ began \subseteq posted /\ began' \subseteq posted
       /\ cursor = None => n = 0
  <2>1. began \subseteq posted /\ (cursor = None => pages = <<>>)
    BY DEF SeenInv, WalkIsSound
  <2>2. QED
    BY <1>1, <2>1 DEF n
<1>12. cursor # None =>
        /\ cursor \in Reading!Rows /\ cursor \in posted
        /\ \A i \in 1..n : \A r \in pages[i] : r = cursor \/ Reading!Earlier(cursor, r)
        /\ \A r \in began : Reading!Earlier(r, cursor) \/ \E i \in 1..n : r \in pages[i]
  BY <1>1, <1>2 DEF SeenInv, WalkIsSound, n
(* The page is earlier than all that were given before.                    *)
<1>13. \A i \in 1..n : \A r \in pages[i], q \in items : Reading!Earlier(q, r)
  <2>1. SUFFICES ASSUME NEW i \in 1..n, NEW r \in pages[i], NEW q \in items
                 PROVE  Reading!Earlier(q, r)
    OBVIOUS
  <2>2. cursor # None
    BY <1>10, <1>11
  <2>3. Reading!Earlier(q, cursor) /\ q \in Reading!Rows
    BY <1>3, <1>6, <2>2
  <2>4. cursor \in Reading!Rows /\ (r = cursor \/ Reading!Earlier(cursor, r))
    BY <1>12, <2>2
  <2>5. r \in Reading!Rows
    BY <1>2, <1>10
  <2>6. QED
    BY <2>3, <2>4, <2>5, EarlierOrders
<1>14. Reading!ReadsTypeOK'
  BY <1>1, <1>2, <1>3, <1>6, <1>9, <1>10, <1>11 DEF SeenInv, Reading!ReadsTypeOK
<1>15. RowsAreSound'
  BY <1>1 DEF SeenInv, RowsAreSound
(* What there was when it began and has not been given is before the page. *)
<1>16. \A r \in began' : r \in S \/ \E i \in 1..n : r \in pages[i]
  BY <1>1, <1>3, <1>11, <1>12
<1>17. WalkIsSound'
  <2>1. \A i \in 1..Len(pages') : pages'[i] \subseteq posted'
    BY <1>1, <1>3, <1>6, <1>10
  <2>2. cursor' # None
    <3>1. None # End /\ None \notin Reading!Rows
      BY DEF Reading!ReadsAssumption
    <3>2. QED
      BY <1>9, <3>1
  <2>3. ASSUME cursor' \in Reading!Rows
        PROVE  /\ cursor' \in posted'
               /\ \A i \in 1..Len(pages') : \A r \in pages'[i] : r = cursor'
                    \/ Reading!Earlier(cursor', r)
               /\ \A r \in began' : Reading!Earlier(r, cursor') \/ \E i \in 1..Len(pages') :
                    r \in pages'[i]
    <3>1. /\ cursor' \in items /\ cursor' \in posted
          /\ \A q \in items \ {cursor'} : Reading!Earlier(cursor', q)
      BY <1>9, <2>3 DEF Reading!ReadsAssumption
    <3>2. ASSUME NEW i \in 1..Len(pages'), NEW r \in pages'[i]
          PROVE  r = cursor' \/ Reading!Earlier(cursor', r)
      <4>1. CASE i = n + 1
        BY <1>10, <3>1, <3>2, <4>1
      <4>2. CASE i # n + 1
        <5>1. i \in 1..n /\ r \in pages[i]
          BY <1>10, <3>2, <4>2
        <5>2. QED
          BY <1>13, <3>1, <5>1
      <4>3. QED
        BY <4>1, <4>2
    <3>3. ASSUME NEW r \in began'
          PROVE  Reading!Earlier(r, cursor') \/ \E i \in 1..Len(pages') : r \in pages'[i]
      <4>1. CASE r \in S \ items
        BY <1>6, <3>1, <4>1
      <4>2. CASE r \in items
        <5>1. n + 1 \in 1..Len(pages') /\ r \in pages'[n + 1]
          BY <1>10, <4>2
        <5>2. QED
          BY <5>1
      <4>3. CASE r \notin S
        <5>1. PICK i \in 1..n : r \in pages[i]
          BY <1>16, <3>3, <4>3
        <5>2. i \in 1..Len(pages') /\ r \in pages'[i]
          BY <1>10, <5>1
        <5>3. QED
          BY <5>2
      <4>4. QED
        BY <4>1, <4>2, <4>3
    <3>4. QED
      BY <1>1, <3>1, <3>2, <3>3
  <2>4. QED
    BY <1>1, <1>11, <2>1, <2>2, <2>3 DEF WalkIsSound
<1>18. Reading!WalkIsComplete'
  <2>1. ASSUME NEW i \in 1..Len(pages'), NEW j \in 1..Len(pages'), i < j,
               NEW r \in pages'[i], NEW q \in pages'[j]
        PROVE  Reading!Earlier(q, r)
    <3>1. i \in 1..n /\ r \in pages[i]
      BY <1>10, <2>1
    <3>2. CASE j = n + 1
      BY <1>10, <1>13, <2>1, <3>1, <3>2
    <3>3. CASE j # n + 1
      <4>1. j \in 1..n /\ q \in pages[j]
        BY <1>10, <2>1, <3>3
      <4>2. \A k, l \in 1..n : k < l => \A x \in pages[k], y \in pages[l] : Reading!Earlier(y, x)
        BY DEF SeenInv, Reading!ReadersSeeTheBooks, Reading!WalkIsComplete, n
      <4>3. QED
        BY <2>1, <3>1, <4>1, <4>2
    <3>4. QED
      BY <3>2, <3>3
  <2>2. ASSUME cursor' = End, NEW r \in began'
        PROVE  \E i \in 1..Len(pages') : r \in pages'[i]
    <3>1. items = S
      BY <1>3, <1>9, <2>2 DEF Reading!ReadsAssumption
    <3>2. CASE r \in S
      <4>1. n + 1 \in 1..Len(pages') /\ r \in pages'[n + 1]
        BY <1>10, <3>1, <3>2
      <4>2. QED
        BY <4>1
    <3>3. CASE r \notin S
      <4>1. PICK i \in 1..n : r \in pages[i]
        BY <1>16, <2>2, <3>3
      <4>2. i \in 1..Len(pages') /\ r \in pages'[i]
        BY <1>10, <4>1
      <4>3. QED
        BY <4>2
    <3>4. QED
      BY <3>2, <3>3
  <2>3. cursor' = End => began' \subseteq UNION {pages'[i] : i \in 1..Len(pages')}
    BY <2>2
  <2>4. \A i, j \in 1..Len(pages') : i < j => \A r \in pages'[i], q \in pages'[j] :
          Reading!Earlier(q, r)
    BY <2>1
  <2>5. QED
    BY <2>3, <2>4 DEF Reading!WalkIsComplete
<1>19. Reading!CollectionsMatchBooks'
  BY <1>1, <1>14, BooksKept
<1>20. QED
  BY <1>14, <1>15, <1>17, <1>18, <1>19 DEF SeenInv, Reading!ReadersSeeTheBooks

LEMMA ReadsKeepInv ==
  ASSUME Reading!ReadsAssumption, SeenInv, [Reading!Next]_(Reading!vars)
  PROVE  SeenInv'
<1>1. CASE Reading!Tick
  BY <1>1, TickKeepsInv
<1>2. CASE \E c \in Paid, kind \in Reading!Kinds, id \in Numbers :
        Reading!BeginPosting(c, kind, id)
  BY <1>2, BeginPostingKeepsInv
<1>3. ASSUME NEW r \in open, NEW time \in r.at..now, Reading!CommitPosting(r, time)
      PROVE  SeenInv'
  BY <1>3, CommitPostingKeepsInv
<1>4. ASSUME NEW r \in open, Reading!AbortPosting(r)
      PROVE  SeenInv'
  BY <1>4, AbortPostingKeepsInv
<1>5. CASE Reading!NextPage
  BY <1>5, NextPageKeepsInv
<1>6. CASE UNCHANGED Reading!vars
  <2>1. UNCHANGED <<now, open, posted, status, confirmedAt, pages, cursor, began>>
    BY <1>6 DEF Reading!vars
  <2>2. Reading!ReadsTypeOK' /\ RowsAreSound' /\ WalkIsSound' /\ Reading!WalkIsComplete'
    BY <2>1 DEF SeenInv, Reading!ReadsTypeOK, RowsAreSound, WalkIsSound,
                Reading!ReadersSeeTheBooks, Reading!WalkIsComplete
  <2>3. Reading!CollectionsMatchBooks'
    BY <2>1, <2>2, BooksKept
  <2>4. QED
    BY <2>2, <2>3 DEF SeenInv, Reading!ReadersSeeTheBooks
<1>7. QED
  BY <1>1, <1>2, <1>3, <1>4, <1>5, <1>6 DEF Reading!Next

(* The inductive invariant holds of every behaviour of the readers.        *)
THEOREM ReadsInvariance ==
  ASSUME Reading!ReadsAssumption
  PROVE  Reading!Spec => []SeenInv
<1>1. Reading!Init => SeenInv
  BY ReadsInitInv
<1>2. SeenInv /\ [Reading!Next]_(Reading!vars) => SeenInv'
  BY ReadsKeepInv
<1>3. QED
  BY <1>1, <1>2, PTL DEF Reading!Spec

THEOREM ReadsTypeCorrect ==
  ASSUME Reading!ReadsAssumption
  PROVE  Reading!Spec => []Reading!ReadsTypeOK
<1>1. SeenInv => Reading!ReadsTypeOK
  BY DEF SeenInv
<1>2. QED
  BY <1>1, ReadsInvariance, PTL

(* A reader who follows the cursors of list_ledger is given every row that *)
(* was there when it began, each once and newest first; and the analytics, *)
(* the statements and the Cash account come to the same amounts            *)
(* (app/repositories/ledger.py, app/services/analytics.py, statement.py).  *)
THEOREM ReadersSound ==
  ASSUME Reading!ReadsAssumption
  PROVE  Reading!Spec => []Reading!ReadersSeeTheBooks
<1>1. SeenInv => Reading!ReadersSeeTheBooks
  BY DEF SeenInv
<1>2. QED
  BY <1>1, ReadsInvariance, PTL

-----------------------------------------------------------------------------
(* A behavior of the composition is one of each part: the parts that are   *)
(* not chosen stutter.                                                     *)
THEOREM PartsAreKept == PartsSpec => Spec /\ DB!Spec /\ Reading!Spec
<1>1. PartsInit => Init /\ DB!Init /\ Reading!Init
  BY DEF PartsInit
<1>2. [ServiceNext \/ SchemaNext \/ ReadsNext]_partsVars =>
        [Next]_vars /\ [DB!Next]_(DB!vars) /\ [Reading!Next]_(Reading!vars)
  BY DEF ServiceNext, SchemaNext, ReadsNext, partsVars, vars, schemaVars, readVars, DB!vars,
         Reading!vars
<1>3. QED
  BY <1>1, <1>2, PTL DEF PartsSpec, Spec, DB!Spec, Reading!Spec

(* Whatever the writers of the tables do, once the migration is applied    *)
(* (d1e2f3a4b5c6) the committed books are sound: the guard triggers of     *)
(* ledger_guards.py, each of which sees only what is committed and what    *)
(* its writer adds, are enough for writers who commit one after the other. *)
THEOREM HardenedLedgerSound == PartsSpec => []HardenedLedgerIsSound
<1>1. DB!HardenedLedgerIsSound => HardenedLedgerIsSound
  BY DEF HardenedLedgerIsSound
<1>2. QED
  BY <1>1, PartsAreKept, SchemaHardenedLedgerSound, PartsAssumption, PTL

(* The part that moves is of its type: the requests and rows of the        *)
(* service, the work of the writers, or what the readers have been given.  *)
THEOREM TypesCorrect == PartsSpec => []TypesOK
<1> DEFINE PartOK == part \in {"service", "schema", "reads"}
<1>1. PartsSpec => []PartOK
  <2>1. PartsInit => PartOK
    BY DEF PartsInit
  <2>2. PartOK /\ [ServiceNext \/ SchemaNext \/ ReadsNext]_partsVars => PartOK'
    BY DEF ServiceNext, SchemaNext, ReadsNext, partsVars
  <2>3. QED
    BY <2>1, <2>2, PTL DEF PartsSpec
<1>2. PartOK /\ TypeOK /\ DB!SchemaTypeOK /\ Reading!ReadsTypeOK => TypesOK
  BY DEF TypesOK
<1>3. QED
  BY <1>1, <1>2, PartsAreKept, TypeCorrect, SchemaTypeCorrect, ReadsTypeCorrect, PartsAssumption,
     PTL

(* A reader who follows the cursors of list_ledger is given every row that *)
(* was there when it began, each once and newest first, whatever commits   *)
(* late; and the analytics, the statements and the Cash account come to    *)
(* the same amounts, for each member and in all.                           *)
THEOREM ReadersAlwaysSeeTheBooks == PartsSpec => []ReadersSeeTheBooks
<1>1. Reading!ReadersSeeTheBooks => ReadersSeeTheBooks
  BY DEF ReadersSeeTheBooks
<1>2. QED
  BY <1>1, PartsAreKept, ReadersSound, PartsAssumption, PTL
=============================================================================
