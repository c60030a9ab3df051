SPECIFICATION ChatSpec
CONSTANTS
  t1 = t1
  t2 = t2
  c1 = c1
  c2 = c2
  u1 = u1
  u2 = u2
  j1 = j1
  j2 = j2
  Chats <- MCChats
  MaxEntries = 1
  MaxCuts = 1
  Requesters <- MCRequesters
  Traces <- MCChats
  Jobs <- MCJobs
  NoUser = NoUser
  NoChat = NoChat
  ClientLimit = 1
  GlobalLimit = 1
  MaxStarts = 3
  MaxDays = 2
  MaxRestarts = 1
  Chunks <- MCChunks
  DocumentOf <- MCDocumentOf
  Tokens <- MCTokens
  Stale <- MCStale
  ChunkLists <- MCChunkLists
  DocumentLists <- MCDocumentLists
  Neighbors <- MCNeighbors
  FusedLimit = 3
  FusedPerDocument = 2
  InputLimit = 3
  LocalLimit = 2
  ReturnLimit = 2
  FinalLimit = 2
  MaxTokens = 2
  PerDocument = 1
  Configured = {"openrouter", "nvidia"}
  RrfK = 60
  Matches <- MCMatches
  Settings <- MCSettings
  k1 = k1
  k2 = k2
  r1 = r1
  r2 = r2
  r3 = r3
  Rerankers = {k1, k2}
  Rerankings <- MCRerankings
  RerankerOf <- MCRerankerOf
  ModesOf <- MCModesOf
  Sizes = {2}
  RerankLimit = 1
  RerankRetries = 2
  CircuitFailures = 1
  MaxStaged = 3
  MaxTries = 2
  MaxLosses = 1
SYMMETRY Symmetry
INVARIANTS
  OneOutcome
  JudgeBudget
  EvidenceBounded
  FailuresShow
  StagingApart
PROPERTIES
  RowsKept
CHECK_DEADLOCK FALSE
