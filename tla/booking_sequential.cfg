CONSTANTS
  HostTotal = 3
  DepositDue = 1
  VendorPayout = 2
  NoRef = NoRef
  Refs <- MCRefs
  NoRow = NoRow
  Workers = {w1}
  Ops = {"fund", "balance", "webhook", "release", "sweep", "cancel", "dispute", "resolve", "transition"}
  DepositIntents = {pi_deposit1, pi_deposit2}
  BalanceIntent = pi_balance
  Named <- AllButOneDeposit
  ReleaseTransfer = tr_release
  DisputeTransfer = tr_dispute
  CancelRefund = re_cancel
  DisputeRefund = re_dispute
  EventHours = {10, 400}
  Splits <- AllSplits
  MaxEntries = 3
  MaxCrashes = 1
SPECIFICATION FairSpec
INVARIANTS StoredLedgerBalances PayoutIsCovered AckedIsBooked
PROPERTY DepositLocksBooking
CHECK_DEADLOCK FALSE
