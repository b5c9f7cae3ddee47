CONSTANTS
  shell = shell
  run = run
  noise = noise
  bad = bad
  host = host
  Handlers = {h1, h2}
  Events <- MCEvents
  Batches <- MCBatches
  Codes <- MCCodes
  TimeOf <- MCTimeOf
  ScopeOf <- MCScopeOf
  Filtered = {noise}
  Invalid = {bad}
  Pattern = {"B001", "B006"}
  FingerprintLife = 2
  Outcomes = {"ok", "failed", "unknown"}
  MaxRequests = 3
  MaxFaults = 1
  MaxRestarts = 1
SPECIFICATION Spec
SYMMETRY HandlerSymmetry
INVARIANTS
  IngestTypeOK
  EvidenceBacked
  BehaviorsBacked
  AckedAccountedFor
  AckedAlertsKept
  MarksMatchStore
CHECK_DEADLOCK FALSE
