------------------------------ MODULE Journal ------------------------------
(***************************************************************************)
(* The abstract ledger: a journal of immutable transactions (ADR-011,      *)
(* ADR-012).  A step records one transaction that is new under its source  *)
(* and, if it is a reversal, reverses a transaction of the same Chama that *)
(* is itself no reversal and has none yet.  Nothing is ever taken back or  *)
(* rewritten.                                                              *)
(***************************************************************************)
CONSTANTS
  None,
  Balanced(_)   \* do the lines of a transaction balance?
VARIABLE journal

Acceptable(t) ==
  /\ Balanced(t.lines)
  /\ \A u \in journal : u.source # t.source /\ u.id # t.id
  /\ t.reverses # None =>
       /\ \E u \in journal : u.id = t.reverses /\ u.chama = t.chama /\ u.reverses = None
       /\ \A u \in journal : u.reverses # t.reverses

Init == journal = {}

Record ==
  \E t \in journal' :
    /\ Acceptable(t)
    /\ journal' = journal \cup {t}

Spec == Init /\ [][Record]_journal
=============================================================================
