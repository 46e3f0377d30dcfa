SPECIFICATION Spec
CONSTANTS
    h1 = h1
    h2 = h2
    w = w
    e = e
    Humans <- MCHumans
    NoHuman = NoHuman
    WalletKeys <- MCWalletKeys
    Ed25519Keys <- MCEd25519Keys
    NoKey = NoKey
    MaxIssued = 2
    LimitValues = {1}
    ProofAges = {1, 2}
    Kinds = {"register", "deregister", "refresh", "identify"}
    Modes = {"generated", "ed25519"}
    AllowLegacyQueryToken = TRUE
    SessionTtl = 3
    Timeout = 2
    Interval = 1
    RouteTimeout = 1
    Buffer = 1
    MaxIdentified = 2
    MaxTime = 7
INVARIANTS
    RegistrationWasReal
    DeregistrationIsFinal
    RefreshHappened
    NoMissedCompletion
PROPERTIES
    CompletedIsFinal
    EveryWaitEnds
CHECK_DEADLOCK FALSE
