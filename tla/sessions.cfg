CONSTANTS
  Workers = {w1, w2}
  NoRow = NoRow
  Registrations <- MCRegistrations
  Languages = {"telugu"}
  MaxFailed = 2
  LockTime = 1
  OtpTime = 0
  MaxTime = 1
  MaxCodes = 2
  MaxCrashes = 1
SPECIFICATION Spec
SYMMETRY WorkerSymmetry
INVARIANTS TypeOK OneCodeOneUse MfaMeansVerified
PROPERTIES LockHolds NeverMovedDown
CHECK_DEADLOCK FALSE
