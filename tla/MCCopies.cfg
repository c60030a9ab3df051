SPECIFICATION CopiesSpec
CONSTANTS
  o1 = o1
  o2 = o2
  Copiers <- MCOperators
  Editions = {"old", "new"}
  StoreOf <- MCStoreOf
  Picks <- MCPicks
  Everything = Everything
  MaxUpload = 3
  UploadRows = 2
  PageRows = 2
  Phrases = {"phrase"}
  MaxCopies = 4
  Pilots <- MCOperators
  Corpora = {"c1", "c2"}
  IdsIn <- MCIdsIn
  TextVersions = {"t1", "t2"}
  BatchRecords = 1
  Workers = 2
  Samples = 2
  Canaries = {"question"}
  Ledgers = {"file"}
  MaxPilotCommands = 4
SYMMETRY Symmetry
INVARIANTS
  ListUploaded
  PhraseSearchExact
  VerifiedNamespace
CHECK_DEADLOCK FALSE
