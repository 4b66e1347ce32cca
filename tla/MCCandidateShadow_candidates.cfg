SPECIFICATION ShadowSpec
CONSTANTS
  Domains <- TheDomains
  HighRisk <- TheRisks
  SubjectName <- TheSubjectName
  Threshold = 78
  Ratio <- TheRatio
  DomainTerms <- TheTerms
  SubjectDomains <- TheSubjectDomains
  Subjects <- TheSubjects
  NamedBy <- TheNames
  Fallback <- TheFallback
  CookingSubjects = {"recipes", "baking log"}
  Cooking = "cooking_baking"
  FetchLimit <- TheFetchLimit
  Rows <- TheRows
  Queues <- TheQueues
  Ties <- TheTies
  Decisions = {"rejected"}
  Filters <- TheFilters
  BatchSize = 2
  PerSource = 3
  CandidateLimit = 3
  SubjectLimit = 1
  QueueLimit = 2
  MaxWrites = 1
INVARIANTS
  AllAreAccounted
  GroupsAreSound
  SummaryCountsTheQueue
