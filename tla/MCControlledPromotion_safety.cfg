SPECIFICATION ControlledSpec
CONSTANTS
  None = None
  b0 = b0
  b1 = b1
  b2 = b2
  Builds = {b0, b1, b2}
  Tree <- WholeTree
  Identities <- People
  Executor = "root"
  Verifier = "root"
  Submitted <- Chain
  Manifests <- ChainManifests
  Approvers = {"alice"}
  Ids = {a1, a2}
  Operators = {p1}
SYMMETRY Symmetry
INVARIANTS
  ResultsAreJournaled
  ReleaseIsApproved
  ControlPlaneIsFrozen
PROPERTIES
  ImplementsPromotion
  MovesAreJournaled
  SplitFreezes
