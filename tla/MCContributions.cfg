SPECIFICATION Spec
CONSTANTS
  Requests = {r1, r2, r3, r4, r5}
  Slots = {sep, oct}
  None = None
SYMMETRY Symmetry
CHECK_DEADLOCK FALSE
INVARIANTS
  TypeOK
  BooksAgree
  OneOpenPerSlot
  SuccessMeansPosted
PROPERTY ImplementsLifecycle
