SPECIFICATION FairSpec
CONSTANTS
  m1 = m1
  m2 = m2
  None = None
  Memos <- MCMemos
  MaxLoads = 3
INVARIANTS PassShownIsSigned StoredIsShown AlwaysAsking StrictBuildHangs RecoveryInv
PROPERTIES PaidPageShowsPass ForgottenOnAnswer ShownPassStays
CHECK_DEADLOCK FALSE
