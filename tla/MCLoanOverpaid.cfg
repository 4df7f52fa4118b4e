SPECIFICATION Spec
CONSTANTS
  alice = alice
  bob = bob
  None = None
  Members <- MembersDef
  BorrowerOf <- BorrowerDef
  PrincipalOf <- PrincipalDef
  ShareValueOf <- ShareValueDef
  OpeningCash = 30
  Sessions = {s1, s2}
  Loans = {l1}
  Repayments = {i1, i2}
  Amounts = {21}
SYMMETRY Symmetry
INVARIANT NeverOverpaid
