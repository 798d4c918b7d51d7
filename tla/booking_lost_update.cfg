CONSTANTS
  HostTotal = 3
  DepositDue = 1
  VendorPayout = 2
  NoRef = NoRef
  Refs <- MCRefs
  NoRow = NoRow
  Workers = {w1, w2}
  Ops = {"release", "dispute", "cancel"}
  DepositIntents = {pi_deposit}
  BalanceIntent = pi_balance
  Named <- MCIntents
  ReleaseTransfer = tr_release
  DisputeTransfer = tr_dispute
  CancelRefund = re_cancel
  DisputeRefund = re_dispute
  EventHours = {200}
  Splits <- FewSplits
  MaxEntries = 3
  MaxCrashes = 0
SPECIFICATION FundedSpec
INVARIANT StoredLedgerBalances
CHECK_DEADLOCK FALSE
