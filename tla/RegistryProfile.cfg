SPECIFICATION Spec
CONSTANTS
  a1 = a1
  a2 = a2
  e1 = e1
  e2 = e2
  x1 = x1
  x2 = x2
  Addresses = {a1, a2}
  Ed25519Keys = {}
  DerivedAddress <- MCDerivedAddress
  ZeroAddress = ZeroAddress
  ZeroKey = ZeroKey
  Nullifiers = {n1}
  ZeroNullifier = ZeroNullifier
  Providers = {p1}
  HubProviders = {}
  Configs = {c1, c2}
  NoConfig = NoConfig
  Wallets = {a1}
  Texts = {t1}
  NoText = NoText
  DocExpiries = {0, 2}
  Limits = {}
  ProofAges = {1, 2}
  DefaultProofAge = 1
  MaxAgentId = 1
  MaxTime = 3
  MaxSignatures = 1
INVARIANT NoResidue
INVARIANT FreshOnlyWhileDocumentValid
INVARIANT WalletConsented
CHECK_DEADLOCK FALSE
