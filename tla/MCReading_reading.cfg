SPECIFICATION MCSpec
CONSTANTS
  m1 = m1
  m2 = m2
  Topics <- MCTopics
  MaxSymbols = 4
  MaxCount = 15
  Filings <- MCFilings
  PointOf <- MCPointOf
  Cosine <- MCCosine
  Prototypes <- MCPrototypes
  MaxPool = 3
  MaxRelated = 3
  MaxPriorities = 2
  MaxRoutes = 2
  News <- MCNews
  Summaries <- MCSummaries
  NoSummary <- MCNoSummary
  MaxFacts = 5
  Filed <- MCFiled
  Answers <- MCAnswers
  Garbage <- MCGarbage
  MaxEntities = 1
  Texts <- MCImports
  Pack <- MCPack
  Reports = {"r1"}
  EmbeddingModels = {m1, m2}
  SentenceLen <- MCSentenceLen
  Relevance <- MCRelevance
  ChunkChars = 8
  ChunkOverlap = 1
  TopK = 2
  Replies <- MCReplies
  Malformed <- MCMalformed
  PartOfWord <- MCPartOfWord
INVARIANTS
  
  
  PoolIsOnePicture
  ReviewHolds
  KnowledgeIsFindable
  AnswersAreGrounded
CHECK_DEADLOCK FALSE
