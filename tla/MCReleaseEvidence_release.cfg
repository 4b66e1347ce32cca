SPECIFICATION Spec
CONSTANTS
  c1 = c1
  c2 = c2
  l1 = l1
  l2 = l2
  Commits <- TwoCommits
  Lock <- LockOf
  Literals <- TwoLists
  Leaks <- OneLeak
  LocalKinds <- OneLocal
  Policy <- ShortPolicy
  MaxChanges = 1
  MaxStarts = 2
  None = None
INVARIANTS
  ReadyIsEarned
  CloneEvidenceHolds
CHECK_DEADLOCK FALSE
