CONSTANTS
  k1 = k1
  Keys <- MCKeys
  MaxEvents = 2
  BatchSize = 2
  QueueSize = 1
  Retries = 1
  Answers = {"ok"}
SPECIFICATION Spec
INVARIANT
  ExitZeroMeansUploaded
CHECK_DEADLOCK FALSE
