CONSTANTS
  Payloads = {p1, p2}
  Keyrings <- MCKeyrings
  MaxSignatures = 3
  None = None
  MaxTransactions = 3
  MaxEdits = 1
  Unit = Unit
  Nil = Nil
SPECIFICATION Spec
INVARIANTS AuthorisedIsMeant SentIsAuthorised StatesKept OutcomeTold
CHECK_DEADLOCK FALSE
