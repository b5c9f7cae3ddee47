CONSTANTS
  e1 = e1
  e2 = e2
  e3 = e3
  e4 = e4
  e5 = e5
  n1 = n1
  MadeUp = madeUp
  Candidates <- MCCandidates
  Queries <- MCQueries
  Configured <- MCConfigured
  Health <- MCHealth
  Available <- MCAvailable
  Proposals <- MCProposals
  Malformed = {n1}
  ChunkSize = 2
  ScanCap = 4
  MaxToolCalls = 5
  MaxDecisions = 4
  MaxLimit = 2
SPECIFICATION FairSpec
INVARIANTS
  AgentTypeOK
  WholeQueries
  Grounded
  EvidenceAudited
  StatusesHonest
PROPERTIES
  Ends
