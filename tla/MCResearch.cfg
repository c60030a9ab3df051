SPECIFICATION ResearchSpec
CONSTANTS
  p = p
  q = q
  x = x
  y = y
  law = law
  b1 = b1
  b2 = b2
  fp = fp
  Requests <- MCRequests
  Earlier = Earlier
  Documents <- MCDocuments
  LawSources <- MCLaw
  NoDocument = NoDocument
  Batches <- MCBatches
  Fingerprints <- MCFingerprints
  MaxDocuments = 2
  MaxEvidence = 1
  MaxAnalyses = 1
  MaxInputs = 1
  MaxHistory = 1
  Rulings <- MCRulings
  Events <- MCEvents
  Days <- MCDays
SYMMETRY Symmetry
INVARIANTS
  AnalysesHaveDocuments
  LogTellsSave
  ViewAgrees
PROPERTIES
  EditsKept
CHECK_DEADLOCK FALSE
