------------------------------ MODULE MCLedger ------------------------------
(* TLC instance of Ledger: two Chamas, one business record and three       *)
(* concurrent requests; two sessions that write two rows past the service; *)
(* a reader of four transactions of two contributions.                     *)
EXTENDS Ledger

CONSTANTS s1, home, away, p1, p2
ChamasDef == {home, away}
DescriptionsDef == {"posting", "other"}
AccountsDef == [c \in ChamasDef |->
  IF c = home THEN {"cash", "capital"} ELSE {"cash2", "capital2"}]

(* Amounts are tenths of a cent.                                           *)
DoubleEntry(c, debit, credit) ==
  <<Line(IF c = home THEN "cash" ELSE "cash2", debit, 0),
    Line(IF c = home THEN "capital" ELSE "capital2", 0, credit)>>

Exact     == DoubleEntry(home, 1000, 1000)
SubCent   == DoubleEntry(home, 1004, 996)     \* rounds to Exact
Larger    == DoubleEntry(home, 2000, 2000)
Abroad    == DoubleEntry(away, 1000, 1000)
HalfCents == <<Line("cash", 5, 0), Line("cash", 5, 0), Line("capital", 0, 10)>>

Business(chama, lines) ==
  [source |-> [type |-> "BUSINESS", id |-> s1], chama |-> chama,
   description |-> "posting", lines |-> lines, reverses |-> None]

(* Direct reversals name an arbitrary source id.                           *)
DirectReversal(r, chama) ==
  [source |-> [type |-> "LEDGER_REVERSAL", id |-> s1], chama |-> chama,
   description |-> "other",
   lines |-> IF chama = home THEN Mirror(Exact) ELSE Mirror(Abroad), reverses |-> r]

CallsDef ==
  {Business(home, lines) : lines \in {Exact, SubCent, Larger, HalfCents}}
  \cup {Business(away, Abroad), Business(away, Exact)}
  \cup {DirectReversal(r, c) : r \in Requests \cup {None}, c \in ChamasDef}

ReaderDef == p1 :> 1 @@ p2 :> 2
PaidAmountDef == p1 :> 5 @@ p2 :> 7

Symmetry ==
  Permutations(Requests) \cup Permutations(Sessions) \cup Permutations(LedgerRows)
=============================================================================
