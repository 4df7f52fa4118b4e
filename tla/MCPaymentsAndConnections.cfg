SPECIFICATION PartsSpec
CONSTANTS
  Sessions = {s1, s2}
  Intents = {i1}
  Charges = {q1, q2}
  Provider = "DARAJA"
  MaxAttempts = 2
  Contents = {"SUCCEEDED", "FAILED"}
  None = None
  k = k
  right = right
  anna = anna
  t1 = t1
  t2 = t2
  b1 = b1
  b2 = b2
  b3 = b3
  ConnectionIds = {connection}
  Slots = {daraja, jenga}
  Caching = {daraja}
  ConsumerKeys = {k}
  Secrets = {right, wrong}
  Genuine <- GenuineDef
  MaxVersion = 2
  MaxKey = 2
  Gone = Gone
  Keys = {anna, ben}
  MaxRequests = 2
  Window = 2
  MaxTime = 4
  Trans = {t1, t2}
  Bodies = {b1, b2, b3}
  TransOf <- TransDef
  PayerOf <- PayerDef
  PaidBy <- PaidDef
  Callbacks <- CallbacksDef
  Payers = {anna}
  Records = {c1, c2}
INVARIANTS
  PaymentTypesOK
  SuccessIsPaid
  SuccessIsSettled
  OnlyLastAttemptIsOpen
  ConnectionsAreSound
  ActiveIsTested
  BudgetIsKept
  PaybillIsCredited
CHECK_DEADLOCK FALSE
SYMMETRY PartsSymmetry
