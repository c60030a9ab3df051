SPECIFICATION FairSpec
CONSTANTS
  p1 = p1
  c1 = c1
  c2 = c2
  q1 = q1
  q2 = q2
  r1 = r1
  r2 = r2
  NoText = NoText
  NoEntry = NoEntry
  Processes <- MCProcesses
  Callers <- MCCallers
  Questions <- MCQuestions
  Revisions <- MCRevisions
  ProcessOf <- MCProcessOf
  Slots <- MCSlots
  BatchSize = 1
  MaxAttempts = 2
  MaxRounds = 0
  MaxResets = 1
  MaxDeploys = 1
INVARIANTS SerializedVectorOwn HitAnswersQuestion
PROPERTY EveryQuestionAnswered
CHECK_DEADLOCK FALSE
