SPECIFICATION Spec
CONSTANTS
  a1 = a1
  a2 = a2
  e1 = e1
  e2 = e2
  x1 = x1
  x2 = x2
  Addresses = {a1}
  Ed25519Keys = {e1, e2}
  DerivedAddress <- MCDerivedAddress
  ZeroAddress = ZeroAddress
  ZeroKey = ZeroKey
  Nullifiers = {n1, n2}
  ZeroNullifier = ZeroNullifier
  Providers = {p1}
  HubProviders = {}
  Configs = {c1}
  NoConfig = NoConfig
  Wallets = {}
  Texts = {}
  NoText = NoText
  DocExpiries = {0}
  Limits = {0, 2}
  ProofAges = {1}
  DefaultProofAge = 1
  MaxAgentId = 4
  MaxTime = 1
  MaxSignatures = 0
SYMMETRY Symmetry
INVARIANT TypeOK
INVARIANT NullifierIndexExact
INVARIANT KeysIdentifyAgents
PROPERTY ImplementsLedger
CHECK_DEADLOCK FALSE
