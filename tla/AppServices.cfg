SPECIFICATION Spec
CONSTANTS
  p1 = p1
  p2 = p2
  c1 = c1
  c2 = c2
  k1 = k1
  k2 = k2
  b1 = b1
  Processes = {p1, p2}
  ReplayKeys <- AllRequests
  CounterKeys <- AllCounters
  Window = 2
  MaxTime = 4
  Calls = {c1, c2}
  Requests <- AllRequests
  NoRequest = NoRequest
  Humans = {h1}
  NoHuman = NoHuman
  AgentKeySet = {k1, k2}
  MaxIssued = 2
  LimitValues = {2}
  DemoKey = k2
  Clients = {b1}
  MaxAge = 2
  RelayLimit = 1
  RelayHour = 2
  Quota = 2
  TokenTtl = 1
  MaxSent = 2
  Scenes <- AllScenes
INVARIANT VerifiedOnce
INVARIANT PassedOncePerStore
INVARIANT QuotaHolds
PROPERTY SameHumanIsTrue
SYMMETRY Symmetry
CHECK_DEADLOCK FALSE
