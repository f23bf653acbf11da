SPECIFICATION Spec
CONSTANTS
  m1 = m1
  m2 = m2
  None = None
  NoMemo = NoMemo
  Memos <- OneMemo
  Bodies <- DefaultBodies
  Transfers <- GoodOnly
  Destination = "venue"
  Upper <- MCUpper
  Listed <- MCListed
  TooLongForQr = {}
  RequestTtl = 2
  TokenTtl = 1
  Window = 2
  StableKey = TRUE
  MaxNow = 3
  MaxPayments = 2
  MaxRestarts = 0
INVARIANT QrPaymentMatches
