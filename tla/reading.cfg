SPECIFICATION Spec
CONSTANTS
  Relations <- MCRelations
  SeedSets <- MCSeedSets
  MaxHops = 3
  Scoreds <- MCScoreds
  Rankeds <- MCRankeds
  ChunkLists <- MCChunkLists
  UnitSets <- MCUnitSets
  Budgets = {0, 3, 5, 8, 11}
  ChunkPercents = {0, 40}
  MemoryPercent = 40
  TopK = 2
  RowLists <- MCRowLists
  ChunkLimit = 2
  MessageLists <- MCMessageLists
  EventLists <- MCEventLists
  HistoryLimit = 2
  WindowSets <- MCWindowSets
  Documents <- MCDocuments
  TokenLimits = {0, 2}
  DistillUnits <- MCDistillUnits
  Assets <- MCAssets
  Texts <- MCTexts
  CacheSize = 2
  BatchSize = 2
INVARIANTS
  TraversalFaithful
  RankMonotone
  AnswerPacked
  ChunksChosen
  HistoryTop
  ExcerptApart
  ChunksWhole
  GroupsAreClasses
  GateSteady
  CacheServes
CHECK_DEADLOCK FALSE
