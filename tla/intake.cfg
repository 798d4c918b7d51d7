CONSTANTS
  Workers = {w1, w2}
  Pods = {"pod"}
  PodOf <- MCPodOf
  Policies = {"default", "enquiry"}
  Capacity <- MCCapacity
  Cost <- MCCost
  Refill <- MCRefill
  NoBucket = NoBucket
  MaxTime = 2
  MaxFaults = 1
  Metros <- MCMetros
  EventGroups <- MCEventGroups
  RelatedTags = {}
  NotSaid = NotSaid
  Addresses = {"hall", "club", "frisco"}
  Vague = {"frisco"}
  Census <- MCCensus
  CacheTtl = 1
  CacheMax = 1
  Timeout = 1
  Lineups <- MCLineups
  GigBrief <- MCBrief
  Notices = {72, 73}
  Absent = Absent
  Forms <- MCForms
  Bodies <- MCBodies
  MaxRequests = 3
  Nothing = Nothing
SPECIFICATION Spec
SYMMETRY WorkerSymmetry
INVARIANTS BudgetHolds DraftIsRecent EnquiryIsTold
PROPERTIES WavesFollowRank
CHECK_DEADLOCK FALSE
