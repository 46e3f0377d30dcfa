SPECIFICATION Spec
CONSTANTS
  k1 = k1
  k2 = k2
  h1 = h1
  h2 = h2
  p1 = p1
  p2 = p2
  c1 = c1
  c2 = c2
  Calls = {c1, c2}
  Requests <- AllRequests
  NoRequest = NoRequest
  AgentKeySet = {k1, k2}
  Humans = {h1, h2}
  NoHuman = NoHuman
  Providers = {p1, p2}
  NoProvider = NoProvider
  MaxIssued = 2
  LimitValues = {2}
  ProofAge = 1
  ProviderTtlFactor = 2
  RpcTimeout = 1
  MaxTime = 4
  Services <- AllServices
INVARIANT ValidWasTrue
INVARIANT RateHolds
INVARIANT RememberedUnlessFull
INVARIANT ProviderWasSelf
SYMMETRY Symmetry
CHECK_DEADLOCK FALSE
