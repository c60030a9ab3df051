SPECIFICATION OfflineSpec
CONSTANTS
  p1 = p1
  p2 = p2
  c1 = c1
  c2 = c2
  q1 = q1
  q2 = q2
  NoText = NoText
  Processes <- TwoProcessSet
  Callers <- OneCaller
  Questions <- OneQuestion
  ProcessOf <- OneProcess
  Slots <- TwoSlots
  BatchSize = 2
  MaxAttempts = 1
  MaxRounds = 1
  MaxResets = 1
  o1 = o1
  o2 = o2
  x = x
  y = y
  law = law
  commit = commit
  NoPlan = NoPlan
  Operators <- MCOperators
  Plans <- MCPlans
  Records <- MCRecords
  CorpusOf <- MCCorpus
  ProbeOf <- MCProbe
  Sources <- MCSources
  BodyBytes = 600
  MetadataBytes = 400
  DiskBytes = 20000
  ExistingBytes = 5000
  MaxCommands = 7
  Golds <- MCGolds
  Candidates <- MCCandidates
  Canonical <- MCCanonical
  Tokens = {"a", "b", "c"}
  MaxRank = 3
  MaxTokens = 3
  r1 = r1
  r2 = r2
  r3 = r3
  NoRun = NoRun
  Runs <- MCRuns
  KindOf <- MCKindOf
  Cases <- MCCases
  Versions = {"v1", "v2"}
  QuestionOf <- MCQuestionOf
  Sidecars = {"first", "second"}
  LabelsOf <- MCLabelsOf
  Retrieved <- MCRetrieved
  FinalLimit = 1
  SourceLimit = 2
  MaxEdits = 1
  Suites <- MCOperators
  Golden <- MCGolden
  Groups <- MCGroups
  Counts <- MCCounts
  Configurations <- MCConfigurations
  Observed = {"rag_error", "Generated: pass", "Ragas skipped"}
  Judges = 1
  MaxSuiteRuns = 2
  reviewer = reviewer
  Adjudicators = {reviewer}
  Evidence = {"e1", "e2"}
  GoldCases <- MCCases
  CaseOf <- MCCaseOf
  LevelOf <- MCLevelOf
  KindOfCase <- MCKindOfCase
  Digest <- MCKindOfCase
  LegalTypeOf <- MCLegalTypeOf
  AnchorLevel <- MCAnchorLevel
  Tiers <- MCTiers
  FtsHits <- MCFtsHits
  CandidateLimit = 2
  Editions = {"v1", "v2"}
  RootLabels <- MCRootLabels
  BatchCases = 1
  MaxQueues = 2
  MaxPreviews = 2
  MaxPromotions = 2
  Migrators <- MCOperators
  Ledgers = {"file1", "file2"}
  Invocations <- MCInvocations
  ByType <- MCByType
  ChunksOf <- MCChunksOf
  Flawed = {4}
  VertexBatch = 2
  MaxMigrations = 3
  MaxDrops = 1
  Builders <- MCOperators
  Revisions = {"v1", "v2", "torn"}
  Snapshots <- MCSnapshots
  ExpectedCount = 3
  IndexBatch = 2
  MaxFiles = 3
  MaxBuilds = 3
SYMMETRY Symmetry
INVARIANTS
  BatchVectorsOwn
  PassedVouches
  MetricsExact
  JudgedOnGatedEvidence
  ReportsOwnRows
  GoldAsReviewed
  MigratedWhole
  ReadyIsWhole
CHECK_DEADLOCK FALSE
