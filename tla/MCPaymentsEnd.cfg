SPECIFICATION FairSpec
CONSTANTS
  Sessions = {s1, s2}
  Intents = {i1}
  Charges = {q1}
  Provider = "JENGA"
  MaxAttempts = 1
  Contents = {"SUCCEEDED", "FAILED", "MISMATCHED", "PENDING"}
  None = None
PROPERTY StoredSuccessIsSettled
CHECK_DEADLOCK FALSE
