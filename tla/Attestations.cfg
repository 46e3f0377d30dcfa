SPECIFICATION Spec
CONSTANTS
  Humans = {h1}
  Clients = {c1}
  Operators = {c1}
  Registry = Registry
  Self = Self
  NoOne = NoOne
  AgentKeySet = {k1}
  MaxIssued = 1
  LimitValues = {}
  Documents = {d1}
  NoDocument = NoDocument
  Weights = {1}
  Values = {2}
  Decimals = {0, 1}
  RequestHashes <- MCRequestHashes
  Responses = {50}
  ProofAge = 2
  Day = 2
  Thresholds = {1}
  MaxCalls = 3
  MaxTime = 4
INVARIANTS
  HumanProofRecorded
  SummariesExact
  LatestFreshnessWasTrue
CHECK_DEADLOCK FALSE
