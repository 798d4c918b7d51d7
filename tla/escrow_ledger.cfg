CONSTANTS
  HostTotal = 5
  DepositDue = 2
  VendorPayout = 4
  Intents = {pi1, pi2}
  Refunds = {re1, re2}
  Payouts = {tr1}
  Rulings = {ru1, ru2}
  Refs <- MCRefs
  NoRef = NoRef
  MaxEntries = 5
SPECIFICATION Spec
INVARIANTS TypeOK LedgerBalances RefsBookedOnce ReleaseIsWhole
PROPERTIES ClosedIsFinal KeepsVault
CHECK_DEADLOCK FALSE
