CONSTANTS
  k1 = k1
  Keys <- MCKeys
  MaxEvents = 3
  BatchSize = 2
  QueueSize = 1
  Retries = 1
  Answers = {"ok", "refused", "lost"}
SPECIFICATION FairSpec
INVARIANTS
  RunnerTypeOK
  NothingLost
  NothingTwice
  OneBatchInDoubt
  CleanReturnComplete
  SourceFailureReported
PROPERTIES
  StopsWhenTold
  HighUploaded
CHECK_DEADLOCK FALSE
