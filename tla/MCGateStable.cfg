SPECIFICATION GateSpec
CONSTANTS
  m1 = m1
  m2 = m2
  None = None
  NoMemo = NoMemo
  Memos <- MCMemos
  Bodies <- MCBodies
  Transfers <- MCTransfers
  Destination = "venue"
  Upper <- MCUpper
  TooLongForQr = {}
  RequestTtl = 2
  TokenTtl = 2
  Window = 2
  StableKey = TRUE
  MaxNow = 3
  MaxPayments = 2
  MaxRestarts = 1
  MaxDrift = 1
SYMMETRY MemoSymmetry
INVARIANTS EntryIsPaid DownloadedPassOpens
