SPECIFICATION Spec
CONSTANTS
  a1 = a1
  a2 = a2
  e1 = e1
  e2 = e2
  x1 = x1
  x2 = x2
  Addresses = {a1, a2}
  Ed25519Keys = {e1, e2}
  DerivedAddress <- MCDerivedAddress
  ZeroAddress = ZeroAddress
  ZeroKey = ZeroKey
  Nullifiers = {n1}
  ZeroNullifier = ZeroNullifier
  Providers = {p1}
  HubProviders = {}
  Configs = {c1}
  NoConfig = NoConfig
  Wallets = {}
  Texts = {}
  NoText = NoText
  DocExpiries = {0}
  Limits = {0}
  ProofAges = {1}
  DefaultProofAge = 1
  MaxAgentId = 3
  MaxTime = 1
  MaxSignatures = 2
INVARIANT ChallengeSpentPerKey
PROPERTY IdentityFixedForLife
SYMMETRY ConsentSymmetry
CHECK_DEADLOCK FALSE
