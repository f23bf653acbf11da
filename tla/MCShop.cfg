SPECIFICATION ShopSpec
CONSTANTS
  m1 = m1
  m2 = m2
  None = None
  NoMemo = NoMemo
  Memos <- MCMemos
  Bodies <- MCBodies
  Transfers <- MCTransfers
  Destination = "venue"
  Upper <- MCUpper
  TooLongForQr = {}
  RequestTtl = 1
  TokenTtl = 2
  Window = 1
  StableKey = FALSE
  MaxNow = 1
  MaxPayments = 1
  MaxRestarts = 1
  MaxDrift = 0
  MaxLoads = 2
INVARIANTS PassOnScreenIsPaid ReloadDropsOldPasses ShopInv
PROPERTY KeepsPage
