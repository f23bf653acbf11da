SPECIFICATION FairSpec
CONSTANTS
  m1 = m1
  m2 = m2
  None = None
  NoMemo = NoMemo
  Memos <- MCMemos
  Bodies <- HugeBodies
  Transfers <- GoodOnly
  Destination = "venue"
  Upper <- MCUpper
  Listed <- MCListed
  TooLongForQr = {"very long"}
  RequestTtl = 2
  TokenTtl = 1
  Window = 1
  StableKey = TRUE
  MaxNow = 2
  MaxPayments = 2
  MaxRestarts = 1
PROPERTY PaidSessionSettles
