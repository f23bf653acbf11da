SPECIFICATION FairSpec
CONSTANTS
  h1 = h1
  h2 = h2
  i1 = i1
  i2 = i2
  None = None
  Hashes <- MCHashes
  Ids <- MCIds
  InvoiceExpiry = 1
  MaxNow = 3
  MaxNotices = 2
  MaxRestarts = 1
INVARIANTS NoPaymentLost DisclosedIsReachable SettledIsPaid PassOpensWhilePayable ServerInv
PROPERTIES PaidInvoiceSettles ServerStarts KeepsInvoiceLife
CHECK_DEADLOCK FALSE
