CONSTANTS
  gig = gig
  payment = payment
  notify = notify
  audit = audit
  Requests <- MCRequests
  Inside = {gig}
  Count <- MCCount
  Pods = {p1, p2}
  BatchSize = 2
  Subscribers <- MCSubscribers
  Deaf <- MCDeaf
  MaxFaults = 2
SPECIFICATION FairSpec
INVARIANTS UnitIsWhole PublishedIsSeen SeenOnce InOrder
PROPERTY KeepsPromise
CHECK_DEADLOCK FALSE
