SPECIFICATION ImportSpec
CONSTANTS
  c1 = c1
  c2 = c2
  conversation = conversation
  first = first
  edited = edited
  None = None
  Candidates = {c1, c2}
  Fields = {f1}
  Sources = {}
  EvidenceOf <- NoEvidence
  AssistantCandidates = {}
  ConflictingSelections <- NoSelections
  Conversations = {conversation}
  ConversationOf <- OneConversation
  Covers <- CoversAll
  Extracts <- ExtractsOf
  MaxWrites = 3
  Clients = {k1}
  Decisions = {"approved"}
  Importers = {i1, i2}
  Exports = {first, edited}
CONSTRAINTS
  AtMostTwo
  OneExport
  FewSubjects
SYMMETRY ImporterSymmetry
INVARIANTS
  NoQuietLoss
PROPERTY
  CommitsStayAtomic
