SPECIFICATION Spec
CONSTANTS
  p1 = p1
  p2 = p2
  c1 = c1
  c2 = c2
  w1 = w1
  w2 = w2
  e1 = e1
  h1 = h1
  h2 = h2
  Processes = {p1, p2}
  Calls = {c1, c2}
  Humans = {h1, h2}
  NoHuman = NoHuman
  WalletKeys = {w1, w2}
  Ed25519Keys = {e1}
  NoKey = NoKey
  MaxIssued = 2
  LimitValues = {2}
  ProofAges = {1, 2}
  SessionTtl = 1
  NoCall = NoCall
  MaxTasks = 4
  MaxTime = 5
  Scenes <- AllScenes
INVARIANT AnswersWereTrue
INVARIANT RegistrationReported
INVARIANT PolledToTheEnd
SYMMETRY Symmetry
CHECK_DEADLOCK FALSE
