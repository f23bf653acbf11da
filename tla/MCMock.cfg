SPECIFICATION Spec
CONSTANTS
  i1 = i1
  i2 = i2
  t1 = t1
  t2 = t2
  None = None
  Ids <- MCIds
  Tokens <- MCTokens
  SETTLE_AFTER_SECS = 2
  MaxNow = 5
  MaxRestarts = 1
INVARIANTS AnswersKept
PROPERTY KeepsInvoiceLife
