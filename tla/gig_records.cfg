CONSTANTS
  Workers = {w1, w2}
  Vendors = {v1, v2}
  Nobody = Nobody
  Targets = {"Open", "EscrowLocked", "Cancelled"}
  MaxHistory = 3
  MaxCrashes = 1
SPECIFICATION Spec
SYMMETRY RecordsSymmetry
INVARIANTS HistoryExplainsGig CountNeverInvents OfferIsAccepted EscrowPaysAccepted LockedIsBooked
PROPERTY TerminalIsFinal
CHECK_DEADLOCK FALSE
