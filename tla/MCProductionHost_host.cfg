SPECIFICATION HostSpec
CONSTANTS
  b0 = b0  b1 = b1  r1 = r1  r2 = r2  db = db  h = h  None = None
  Builds = {b0, b1}
  Ids = {r1, r2}
  Scripts = {r2}
  Helpers = {h}
  Requests <- Written
  Files = {}
  MaxWrites = 2
INVARIANTS
  AuditIsTruthful
PROPERTIES
  ImplementsReviewedOnce DriftNeedsOrphan MovesAsReviewed LockIsFreed
CHECK_DEADLOCK FALSE
