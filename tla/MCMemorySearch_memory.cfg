SPECIFICATION MemorySpec
CONSTANTS
  message = message
  None = None
  Chunks = {k1, k2}
  MessageOf <- OneMessage
  Conversation = conversation
  Writers = {w1, w2}
  Given = {"up", "down", "saved"}
  MaxRatings = 3
  MaxTombstones = 1
  Promoters = {w1}
  Readers = {r1}
  Limit = 1
  RowLimit = 1
SYMMETRY ChunkSymmetry
INVARIANTS
  RatingsAreCounted
  SearchHonoursTombstones
  DanglingIsFlagged
