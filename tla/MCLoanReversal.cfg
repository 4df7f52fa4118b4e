SPECIFICATION Spec
CONSTANTS
  alice = alice
  bob = bob
  None = None
  Members <- MembersDef
  BorrowerOf <- BorrowerDef
  PrincipalOf <- PrincipalDef
  ShareValueOf <- ShareValueDef
  OpeningCash = 30
  Sessions = {s1}
  Loans = {l1}
  Repayments = {i1}
  Amounts = {21}
INVARIANT StatusFollowsRepayments
