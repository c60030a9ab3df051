SPECIFICATION StagingSpec
CONSTANTS
  p1 = p1
  p2 = p2
  c1 = c1
  c2 = c2
  q1 = q1
  q2 = q2
  NoText = NoText
  Processes <- TwoProcessSet
  Callers <- TwoCallers
  Questions <- TwoQuestions
  ProcessOf <- TwoProcesses
  Slots <- OneSlot
  BatchSize = 1
  MaxAttempts = 2
  MaxRounds = 0
  MaxResets = 1
INVARIANT SerializedVectorOwn
CHECK_DEADLOCK FALSE
