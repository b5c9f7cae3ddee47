CONSTANTS
  shell = shell
  run = run
  noise = noise
  bad = bad
  host = host
  Handlers = {h1, h2}
  Events <- MCEvents
  Batches <- MCCollectorBatches
  Codes <- MCCodes
  TimeOf <- MCTimeOf
  ScopeOf <- MCScopeOf
  Filtered = {noise}
  Invalid = {}
  Pattern = {"B001", "B006"}
  FingerprintLife = 2
  Outcomes = {"ok"}
  MaxRequests = 2
  MaxFaults = 0
  MaxRestarts = 0
SPECIFICATION Spec
INVARIANTS
  BehaviorsCurrent
CHECK_DEADLOCK FALSE
