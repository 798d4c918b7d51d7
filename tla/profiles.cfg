CONSTANTS
  EventGroups <- MCEventGroups
  RelatedTags = {}
  NotSaid = NotSaid
  Vendors <- MCVendors
  NoRow = NoRow
  Slugs = {"anjali"}
  NoSlug = NoSlug
  NoAccount = NoAccount
  Bodies <- MCBodies
  Specialties = {"mua", "dj"}
  Tags = {"tamil", "telugu"}
  Fit <- MCFit
  Brief <- MCBrief
  Workers = {w1, w2}
  MaxRequests = 4
SPECIFICATION Spec
SYMMETRY WorkerSymmetry
INVARIANTS VisitorSeesPublic PublishedAsDecided 
PROPERTIES StoresAgree
CHECK_DEADLOCK FALSE
