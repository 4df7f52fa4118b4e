SPECIFICATION Spec
CONSTANTS
  Sessions = {s1, s2}
  Intents = {i1}
  Charges = {q1, q2}
  Provider = "DARAJA"
  MaxAttempts = 2
  Contents = {"SUCCEEDED", "FAILED"}
  None = None
INVARIANT NoDuplicateCharge
CHECK_DEADLOCK FALSE
