SPECIFICATION Spec
CONSTANTS
  n1 = n1
  n2 = n2
  k1 = k1
  k2 = k2
  k3 = k3
  e1 = e1
  w1 = w1
  v1 = v1
  s1 = s1
  h1 = h1
  h2 = h2
  EvmKeys = {k1, k2, k3}
  EdKeys = {e1}
  Wallets = {w1}
  SocialWallets = {v1}
  SmartWallets = {s1}
  Humans = {h1, h2}
  None = None
  NoJob = NoJob
  Slots = {n1, n2}
  Scenes <- AllScenes
INVARIANT RegisteredKeyKept
INVARIANT SuccessWasReal
INVARIANT ListIsTrue
INVARIANT InfoIsTrue
INVARIANT ShownAgentSigns
 
SYMMETRY Symmetry
CHECK_DEADLOCK FALSE
