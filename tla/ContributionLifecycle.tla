----------------------- MODULE ContributionLifecycle -----------------------
(***************************************************************************)
(* What the books promise of one contribution after another (ADR-009,      *)
(* ADR-014), without requests: a contribution is recorded while its slot   *)
(* is free, confirmed, and reversed, in this order and each at most once;  *)
(* the share and the two ledger postings change in the same step as the    *)
(* status.                                                                 *)
(***************************************************************************)
CONSTANTS
  Contributions,
  Slots,         \* a (membership, period) pair
  None

VARIABLES
  slot,          \* slot[c]: what contribution c was recorded for, or None
  row            \* row[c]: its status, share and postings

Row(status, share, postings) ==
  [status |-> status, share |-> share, postings |-> postings]

Absent    == Row("ABSENT", "NONE", {})
Pending   == Row("PENDING", "NONE", {})
Confirmed == Row("CONFIRMED", "ACTIVE", {"CONFIRMATION"})
Reversed  == Row("REVERSED", "REVERSED", {"CONFIRMATION", "REVERSAL"})

Init ==
  /\ slot = [c \in Contributions |-> None]
  /\ row = [c \in Contributions |-> Absent]

Free(s) == \A c \in Contributions : slot[c] = s => row[c] = Reversed

Record(c) ==
  \E s \in Slots :
    /\ row[c] = Absent
    /\ Free(s)
    /\ slot' = [slot EXCEPT ![c] = s]
    /\ row' = [row EXCEPT ![c] = Pending]

Confirm(c) ==
  /\ row[c] = Pending
  /\ row' = [row EXCEPT ![c] = Confirmed]
  /\ UNCHANGED slot

Reverse(c) ==
  /\ row[c] = Confirmed
  /\ row' = [row EXCEPT ![c] = Reversed]
  /\ UNCHANGED slot

Next == \E c \in Contributions : Record(c) \/ Confirm(c) \/ Reverse(c)

Spec == Init /\ [][Next]_<<slot, row>>
=============================================================================
