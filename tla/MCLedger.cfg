SPECIFICATION PartsSpec
CONSTANTS
  Requests = {r1, r2, r3}
  SourceIds = {s1}
  s1 = s1
  home = home
  away = away
  None = None
  End = End
  Sessions = {x1, x2}
  LedgerRows = {l1, l2}
  p1 = p1
  p2 = p2
  Chamas <- ChamasDef
  Descriptions <- DescriptionsDef
  AccountsOf <- AccountsDef
  Amounts = {1}
  MaxEntries = 4
  Numbers = {1, 2, 3, 4}
  Paid = {p1, p2}
  Readers = {1, 2}
  ReaderOf <- ReaderDef
  PaidAmount <- PaidAmountDef
  PageSize = 1
  MonthLength = 2
  MaxTime = 2
  Calls <- CallsDef
SYMMETRY Symmetry
CHECK_DEADLOCK FALSE
INVARIANTS
  TypesOK
  EveryPostingIsWellFormed
  AnswerIsThePostingAskedFor
  NoChangeWithoutPosting
  ReversalsAreSound
  HardenedLedgerIsSound
  ReadersSeeTheBooks
PROPERTY ImplementsJournal
