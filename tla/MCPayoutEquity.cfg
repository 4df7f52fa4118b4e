SPECIFICATION Spec
CONSTANTS
  Sessions = {s1, s2}
  alice = alice
  bob = bob
  None = None
  Members <- MembersDef
  OwnerOf <- OwnerDef
  AmountOf <- AmountDef
  ShareValueOf <- ShareValueDef
  Payouts = {p1, p2}
  OpeningCash = 5
SYMMETRY Symmetry
INVARIANT NeverMoreThanContributed
