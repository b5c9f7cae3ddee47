CONSTANTS
  shell = shell
  run = run
  noise = noise
  bad = bad
  host = host
  Handlers = {h1, h2}
  Events <- MCEvents
  Batches <- MCCollectorBatches
  Codes <- MCCodes
  TimeOf <- MCTimeOf
  ScopeOf <- MCScopeOf
  Filtered = {noise}
  Invalid = {}
  Pattern = {"B001", "B006"}
  FingerprintLife = 2
  Outcomes = {"ok", "unknown"}
  MaxRequests = 2
  MaxFaults = 1
  MaxRestarts = 1
SPECIFICATION Spec
INVARIANTS
  OneAlertPerKey
CHECK_DEADLOCK FALSE
