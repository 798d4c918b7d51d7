CONSTANTS
  HostTotal = 3
  DepositDue = 1
  VendorPayout = 2
  NoRef = NoRef
  Refs <- MCRefs
  NoRow = NoRow
  Workers = {w1, w2}
  Ops = {"fund", "balance", "webhook", "transition"}
  DepositIntents = {pi_deposit1, pi_deposit2}
  BalanceIntent = pi_balance
  Named <- MCIntents
  ReleaseTransfer = tr_release
  DisputeTransfer = tr_dispute
  CancelRefund = re_cancel
  DisputeRefund = re_dispute
  EventHours = {10}
  Splits <- FewSplits
  MaxEntries = 0
  MaxCrashes = 0
SPECIFICATION Spec
SYMMETRY WorkerSymmetry
INVARIANTS LockedIsFunded DepositChargedOnce
CHECK_DEADLOCK FALSE
