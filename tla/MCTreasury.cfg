SPECIFICATION MCSpec
CONSTANTS
  LoanSessions = {s1, s3}
  PayoutSessions = {s2}
  s1 = s1
  s2 = s2
  s3 = s3
  alice = alice
  bob = bob
  l1 = l1
  p1 = p1
  c1 = c1
  c2 = c2
  None = None
  Loans = {l1}
  Repayments = {i1}
  Amounts = {21}
  Payouts = {p1}
  Contributions = {c1, c2}
  Members <- MembersDef
  BorrowerOf <- BorrowerDef
  PrincipalOf <- PrincipalDef
  OwnerOf <- OwnerDef
  AmountOf <- AmountDef
  ContributionAmountOf <- ContributionDef
  ShareValueOf <- ShareValueDef
CHECK_DEADLOCK FALSE
INVARIANTS
  TypeOK
  CashIsTheBalance
PROPERTIES
  AdmissionsAreCovered
  RequestsEnd
