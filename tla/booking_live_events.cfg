CONSTANTS
  HostTotal = 3
  DepositDue = 1
  VendorPayout = 2
  NoRef = NoRef
  Refs <- MCRefs
  NoRow = NoRow
  Workers = {w1}
  Ops = {"fund", "balance", "webhook"}
  DepositIntents = {pi_deposit}
  BalanceIntent = pi_balance
  Named <- NoIntent
  ReleaseTransfer = tr_release
  DisputeTransfer = tr_dispute
  CancelRefund = re_cancel
  DisputeRefund = re_dispute
  EventHours = {10}
  Splits <- FewSplits
  MaxEntries = 0
  MaxCrashes = 0
SPECIFICATION Spec
INVARIANT AckedIsRecorded
CHECK_DEADLOCK FALSE
