SPECIFICATION Spec
CONSTANTS
  m1 = m1
  m2 = m2
  None = None
  NoMemo = NoMemo
  Memos <- MCMemos
  Bodies <- MCBodies
  Transfers <- MCTransfers
  Destination = "venue"
  Upper <- MCUpper
  Listed <- MCListed
  TooLongForQr = {}
  RequestTtl = 1
  TokenTtl = 1
  Window = 2
  StableKey = TRUE
  MaxNow = 2
  MaxPayments = 3
  MaxRestarts = 1
SYMMETRY MemoSymmetry
INVARIANTS SnapshotIsCurrent PassBackedByPayment OnePass StoreShowsIssuedPass IndInv
PROPERTIES PassIsFinal RoundsProgress ExpiredOutOfFlightIsFinal KeepsPromise KeepsLife
