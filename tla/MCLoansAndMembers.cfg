SPECIFICATION PartsSpec
CONSTANTS
  alice = alice
  bob = bob
  None = None
  Members <- MembersDef
  BorrowerOf <- BorrowerDef
  PrincipalOf <- PrincipalDef
  ShareValueOf <- ShareValueDef
  OpeningCash = 30
  Sessions = {s1, s2}
  Loans = {l1, l2}
  Repayments = {i1, i2}
  People = {m1, m2, m3}
  f1 = f1
  f2 = f2
  Leadership = {"CHAIRPERSON", "TREASURER"}
  MaxRetries = 2
  FeeRows = {f1, f2}
  FeePayments = {p1, p2, p3}
  FeeAmountOf <- FeeAmountDef
  Amounts = {11, 21}
  Holders = {anna}
  Tokens = {n1, n2, n3}
  MaxPassword = 2
  Users = {anna, ben, cara}
  Persons = {dora}
  Root = anna
SYMMETRY Symmetry
INVARIANTS
  TypesOK
  BooksAreBacked
  NothingLentWithoutApproval
  InterestIsPaidFirst
  MembershipsAreSound
  FeesMatchLedger
  SessionsAreSound
  AdministratorsAreSound
PROPERTY DissolvedIsTerminal
CHECK_DEADLOCK FALSE
