SPECIFICATION ServerSpec
CONSTANTS
  None = None
  Domains <- TheDomains
  Adjacent <- NextTo
  MaxAge <- AgeOf
  PerMessage = 1
  PerConversation = 2
  Queries <- TheQueries
  Corpora <- TheCorpora
  Callers = {t1, t2}
  Titles = {bread}
  Bodies <- TheBodies
  MaxCalls = 4
  MaxCrashes = 1
CHECK_DEADLOCK FALSE
INVARIANTS
  AdviceNeedsAuthority
  RiskyItemsAreEvidence
  BestAreReturned
  PacketKeepsOrder
  NotesAreKept
