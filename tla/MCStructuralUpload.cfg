SPECIFICATION FairSpec
CONSTANTS
  Procs = {p1, p2}
  NumRecords = 6
  Probe <- MCProbe
  MinBatch = 1
  MaxBatch = 2
  MaxWorkers = 3
  Shards = 2
  MaxTries = 2
  GrowAfter = 1
  MaxPolls = 2
  Outputs = {u1}
  FinalOutputs = {f1, f2}
  NoPath = NoPath
  MaxFaults = 2
INVARIANTS LedgerExact
PROPERTIES ReceiptsKept ActivatedWhole ImplementsLedger EventuallyUploaded
CHECK_DEADLOCK FALSE
