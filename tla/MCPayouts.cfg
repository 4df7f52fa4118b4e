SPECIFICATION Spec
CONSTANTS
  Sessions = {s1, s2}
  Payouts = {p1, p2}
  alice = alice
  bob = bob
  None = None
  Members <- MembersDef
  OwnerOf <- OwnerDef
  AmountOf <- AmountDef
  ShareValueOf <- ShareValueDef
  OpeningCash = 3
SYMMETRY Symmetry
INVARIANTS
  TypeOK
  CashNeverOverdrawn
  StatusIsBacked
  NothingPaidWithoutApproval
