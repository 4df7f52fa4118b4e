------------------------------- MODULE Money -------------------------------
(***************************************************************************)
(* Ledger amounts and ledger lines, translated from the line handling of   *)
(* LedgerService (app/services/ledger.py).                                 *)
(*                                                                         *)
(* An amount is an integer count of tenths of a cent.  That is one digit   *)
(* finer than the NUMERIC(18, 2) columns, so that the rounding the service *)
(* applies before it validates is visible.                                 *)
(***************************************************************************)
EXTENDS Integers, Sequences, SequencesExt

Cent == 10

(* Decimal.quantize(CENT, ROUND_HALF_UP): to the nearest cent, a half goes *)
(* away from zero.                                                         *)
Quantize(x) ==
  IF x >= 0 THEN ((x + Cent \div 2) \div Cent) * Cent
            ELSE -(((Cent \div 2 - x) \div Cent) * Cent)

Line(account, debit, credit) ==
  [account |-> account, debit |-> debit, credit |-> credit]

LinesOn(accounts) == [account : accounts, debit : Int, credit : Int]

(* _normalize_lines: every amount is quantized first.                      *)
NormalizeLines(lines) ==
  [i \in DOMAIN lines |->
     Line(lines[i].account, Quantize(lines[i].debit), Quantize(lines[i].credit))]

(* The lines reverse_transaction posts: debit and credit change places.    *)
Mirror(lines) ==
  [i \in DOMAIN lines |->
     Line(lines[i].account, lines[i].credit, lines[i].debit)]

SumOf(lines) ==
  FoldLeft(LAMBDA total, line : total + line.debit - line.credit, 0, lines)

Balanced(lines) == SumOf(lines) = 0

(* One line is acceptable in a Chama that owns `accounts`.                 *)
ValidLine(line, accounts) ==
  /\ line.debit >= 0
  /\ line.credit >= 0
  /\ (line.debit > 0) # (line.credit > 0)
  /\ line.account \in accounts

(* _validate_lines                                                         *)
ValidLines(lines, accounts) ==
  /\ lines # <<>>
  /\ \A i \in DOMAIN lines : ValidLine(lines[i], accounts)
  /\ \E i \in DOMAIN lines : lines[i].debit > 0
  /\ \E i \in DOMAIN lines : lines[i].credit > 0
  /\ Balanced(lines)

(* The comparison of _resolve_idempotent_retry: the sorted lists of lines  *)
(* are equal, so the order of the lines does not matter and their          *)
(* multiplicity does.                                                      *)
SameLines(lines1, lines2) == ToBag(lines1) = ToBag(lines2)
=============================================================================
