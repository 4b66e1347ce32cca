SPECIFICATION Spec
CONSTANTS
  c1 = c1
  c2 = c2
  conversation = conversation
  None = None
  Candidates = {c1, c2}
  Fields = {"plain", "other"}
  Sources = {conversation}
  EvidenceOf <- PairEvidence
  MaxWrites = 4
  Clients = {k1, k2}
  Decisions = {"approved"}
  AssistantCandidates = {c1, c2}
  ConflictingSelections <- WarnedSelections
SYMMETRY ClientSymmetry
CONSTRAINT SmallRaces
INVARIANTS
  MarksAreBacked
  ReplayIsBacked
  TokenAppliedOnce
  StateUsedOnce
  MergedHasRecord
  MarkIsLatest
PROPERTY
  ImplementsAtomicMerge
