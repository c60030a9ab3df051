SPECIFICATION FairSpec
CONSTANTS
  NumDocs = 5
  Sizes <- MCSizes
  Concurrency = 2
  MaxFaults = 3
INVARIANTS CompletedDurable AuditExact
PROPERTIES ReportSound ImplementsLedger EventuallyReported
