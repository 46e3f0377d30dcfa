SPECIFICATION Spec
CONSTANTS
  c1 = c1
  c2 = c2
  b1 = b1
  b2 = b2
  w1 = w1
  w2 = w2
  Commands = {c1, c2}
  Pages = {b1, b2}
  Wallets = {w1, w2}
  HumanAddr = HumanAddr
  NoAddr = NoAddr
  NoOne = NoOne
  Ttl = 1
  Interval = 1
  MaxTime = 5
  MaxIssued = 3
  Scenes <- Unread
INVARIANT DeregistrationWasReal
CHECK_DEADLOCK FALSE
