SPECIFICATION Spec
CONSTANTS
  k1 = k1
  k2 = k2
  h1 = h1
  h2 = h2
  p1 = p1
  p2 = p2
  Humans = {h1, h2}
  Nobody = Nobody
  AgentKeySet = {k1, k2}
  NoKey = NoKey
  Providers = {p1, p2}
  NoProvider = NoProvider
  MaxIssued = 2
  LimitValues = {2}
  ProofAges = {1}
  Kinds = {"verifyAgent", "getInfo", "handleVerifyAgent", "info", "verify", "agents"}
  MaxTime = 2
INVARIANT LookupWasTrue
SYMMETRY Symmetry
CHECK_DEADLOCK FALSE
