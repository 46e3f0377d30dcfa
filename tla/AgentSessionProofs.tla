--------------------------- MODULE AgentSessionProofs ---------------------------
(***************************************************************************)
(* What a session of the agent API tells its client, for every number of   *)
(* agents, events and instants: what was called complete happened, stays   *)
(* complete, and was not overlooked.                                       *)
(***************************************************************************)
EXTENDS AgentSession, TLAPS

-----------------------------------------------------------------------------
(* The invariant.                                                          *)

Sessions ==
    [kind : {"register", "deregister", "refresh", "identify"}, human : Humans \cup {NoHuman},
     key : AgentKeySet \cup {NoKey}, mode : Modes \cup {"none"}, nonce : Nat,
     agentId : Numbers, originalProofExpiry : Nat, created : Nat]

Tokens ==
    [stage : {"pending", "qr-ready", "proof-received", "completed", "failed"},
     agentId : Numbers, proofExpiresAt : Nat, found : Humans \cup {NoHuman}]

Waits ==
    [pc : {"off"} \cup Polling \cup Ended, deadline : Nat, since : Nat, sent : Tokens,
     from : Nat, to : Nat]

ChainTypeOK ==
    /\ expiresAt \in [Numbers -> Nat]
    /\ nonce \in [AgentKeySet -> Nat]
    /\ identified \in Seq([human : Humans, at : Nat])
    /\ now \in Nat \ {0}
    /\ refreshed \in BOOLEAN

ClientTypeOK ==
    /\ session \in Sessions
    /\ token \in Tokens
    /\ exported \in BOOLEAN
    /\ wait \in Waits

\* The live agents are in order, and history forgets none of them.
ChainOK ==
    /\ Registry!LedgerOK
    /\ ledger \subseteq ever

\* What a session is about: an agent's key, an agent that had its number, an agent
\* whose expiry does not move unless it is refreshed.
SessionOK ==
    /\ session.created <= now
    /\ ~ Opened => token = NoToken /\ wait = NoWait /\ ~ exported
    /\ Opened => session.human \in Humans
    /\ Opened /\ session.kind \in {"register", "deregister"} => session.key \in AgentKeySet
    /\ Opened /\ session.kind \in {"deregister", "refresh"} => session.agentId \in 1 .. issued
    /\ Opened /\ session.kind = "deregister" =>
          \A a \in ledger : a.number = session.agentId => a.key = session.key
    /\ Opened /\ session.kind = "refresh" =>
          (expiresAt[session.agentId] > session.originalProofExpiry => refreshed)

Underway == wait.pc \in {"asked", "named"}

\* A request is under way for a session that is not complete, and not for longer than
\* a request takes; the first answer for a key said that the key has an agent.
WaitOK ==
    /\ wait.since <= now
    /\ Underway =>
          /\ wait.sent.stage \notin {"completed", "failed"}
          /\ token.stage # "completed"
          /\ now <= wait.since + RouteTimeout
    /\ wait.pc = "named" /\ session.kind = "register" => \E a \in ever : a.key = session.key
    /\ wait.pc = "named" /\ session.kind = "identify" =>
          wait.from <= session.created /\ wait.to <= Len(identified)

\* What is awaited is so since a time that is not before the first answer that missed
\* it; when no event is in the range asked for, all that count came later.
DoneOK ==
    /\ doneSince \in Nat
    /\ doneSince <= now
    /\ doneSince = 0 <=> ~ Done
    /\ wait.pc = "named" /\ session.kind = "deregister" =>
          doneSince = 0 \/ doneSince >= wait.since
    /\ /\ wait.pc = "named" /\ session.kind = "identify"
       /\ \A i \in 1 .. wait.to : identified[i].at < wait.from
       => doneSince = 0 \/ doneSince >= wait.since

SessionInv ==
    /\ ChainTypeOK /\ ClientTypeOK
    /\ ChainOK
    /\ SessionOK
    /\ WaitOK
    /\ DoneOK
    /\ RegistrationWasReal
    /\ DeregistrationIsFinal
    /\ RefreshHappened
    /\ NoMissedCompletion

-----------------------------------------------------------------------------
(* The ledger of the registry stays in order.                              *)

\* The empty ledger is in order.
LEMMA InitLedgerOK ==
  ASSUME MaxIssued \in Nat, Registry!Init
  PROVE  Registry!LedgerOK
BY DEF Registry!Init, Registry!LedgerOK

\* An agent is admitted under the next number and a key that no live agent has.
LEMMA AdmitLedgerOK ==
  ASSUME MaxIssued \in Nat, Registry!LedgerOK, NEW h \in Humans, NEW k \in AgentKeySet,
         Registry!Admit(h, k)
  PROVE  Registry!LedgerOK'
BY DEF Registry!Admit, Registry!LedgerOK, Registry!Entries

\* A removal leaves the rest as it is.
LEMMA RemoveLedgerOK ==
  ASSUME Registry!LedgerOK, NEW a, Registry!Remove(a)
  PROVE  Registry!LedgerOK'
BY DEF Registry!Remove, Registry!LedgerOK

\* What leaves the agents and the count alone leaves them in order.
LEMMA StutterLedgerOK ==
  ASSUME Registry!LedgerOK, UNCHANGED <<ledger, issued>>
  PROVE  Registry!LedgerOK'
BY DEF Registry!LedgerOK

-----------------------------------------------------------------------------
(* Views.                                                                  *)

\* A number is read for a key exactly when a live agent has the key, and is its number.
LEMMA IdOfKey ==
  ASSUME ChainOK, NEW key
  PROVE  /\ IdOf(key) \in Numbers
         /\ IdOf(key) # 0 => \E a \in ledger : a.key = key /\ a.number = IdOf(key)
         /\ IdOf(key) = 0 => \A a \in ledger : a.key # key
<1>1. \A a \in ledger : a.number \in 1 .. MaxIssued
  BY DEF ChainOK, Registry!LedgerOK, Registry!Entries
<1>2. MaxIssued \in Nat
  BY SessionAssumption
<1>3. CASE \E a \in ledger : a.key = key
  <2> DEFINE b == CHOOSE a \in ledger : a.key = key
  <2>1. b \in ledger /\ b.key = key
    BY <1>3
  <2>2. IdOf(key) = b.number
    BY <1>3 DEF IdOf
  <2> HIDE DEF b
  <2> QED
    BY <2>1, <2>2, <1>1, <1>2 DEF Numbers
<1>4. CASE ~ \E a \in ledger : a.key = key
  BY <1>4, <1>2 DEF IdOf, Numbers
<1> QED
  BY <1>3, <1>4

\* What a session waits for is on the chain: its client does not change it.
LEMMA ClientUnmoved ==
  ASSUME UNCHANGED elsewhere, UNCHANGED session
  PROVE  Done' = Done
<1>1. UNCHANGED <<ledger, expiresAt, identified, session>>
  BY DEF elsewhere, chainVars
<1>2. IdOf(session.key)' = IdOf(session.key)
  BY <1>1 DEF IdOf
<1> QED
  BY <1>1, <1>2 DEF Done, Opened

-----------------------------------------------------------------------------
(* Steps of the chain.                                                     *)

Moved ==
    \/ \E human \in Humans, key \in AgentKeySet, age \in ProofAges : Register(human, key, age)
    \/ \E a \in ledger : Revoke(a)
    \/ \E a \in ledger, age \in ProofAges : Refresh(a, age)
    \/ \E human \in Humans : Identify(human)

\* What the session's human does to the chain is what anyone might do.
LEMMA ChainShape ==
  ASSUME SessionInv, Scan \/ Others
  PROVE  Moved
<1>1. CASE Scan
  <2>1. Opened => session.human \in Humans
    BY DEF SessionInv, SessionOK
  <2>2. Opened /\ session.kind = "register" => session.key \in AgentKeySet
    BY DEF SessionInv, SessionOK
  <2> QED
    BY <1>1, <2>1, <2>2 DEF Scan, Moved
<1>2. CASE Others
  BY <1>2 DEF Others, Moved
<1> QED
  BY <1>1, <1>2

\* The chain moves without the client, and time only forwards.
LEMMA ChainLeavesClient ==
  ASSUME SessionInv, Moved \/ Tick
  PROVE  /\ UNCHANGED clientVars
         /\ Observe
         /\ now' \in Nat /\ now <= now'
         /\ ever \subseteq ever'
         /\ refreshed => refreshed'
         /\ issued' \in Int /\ issued <= issued'
<1>1. now \in Nat /\ issued \in Int
  BY DEF SessionInv, ChainTypeOK, ChainOK, Registry!LedgerOK
<1> USE <1>1
<1>2. CASE \E human \in Humans, key \in AgentKeySet, age \in ProofAges : Register(human, key, age)
  BY <1>2 DEF Register, Registry!Admit
<1>3. CASE \E a \in ledger : Revoke(a)
  BY <1>3 DEF Revoke, Registry!Remove
<1>4. CASE \E a \in ledger, age \in ProofAges : Refresh(a, age)
  <2>1. refreshed => refreshed'
    BY <1>4, Zenon DEF Refresh
  <2>2. UNCHANGED <<clientVars, issued, now, ever>> /\ Observe
    BY <1>4 DEF Refresh
  <2> QED
    BY <2>1, <2>2
<1>5. CASE \E human \in Humans : Identify(human)
  BY <1>5 DEF Identify
<1>6. CASE Tick
  BY <1>6 DEF Tick
<1> QED
  BY <1>2, <1>3, <1>4, <1>5, <1>6 DEF Moved

\* It stays well typed and in order.
LEMMA ChainKeepsChain ==
  ASSUME SessionInv, Moved \/ Tick
  PROVE  ChainTypeOK' /\ ChainOK'
<1>1. /\ now \in Nat \ {0} /\ refreshed \in BOOLEAN
      /\ expiresAt \in [Numbers -> Nat]
      /\ nonce \in [AgentKeySet -> Nat]
      /\ identified \in Seq([human : Humans, at : Nat])
      /\ Registry!LedgerOK /\ ledger \subseteq ever
      /\ MaxIssued \in Nat /\ ProofAges \subseteq Nat
  BY SessionAssumption DEF SessionInv, ChainTypeOK, ChainOK
<1>2. ASSUME NEW human \in Humans, NEW key \in AgentKeySet, NEW age \in ProofAges,
             Register(human, key, age)
      PROVE  ChainTypeOK' /\ ChainOK'
  <2>1. Registry!Admit(human, key)
    BY <1>2 DEF Register
  <2>2. Registry!LedgerOK'
    BY <1>1, <2>1, AdmitLedgerOK
  <2>3. expiresAt' \in [Numbers -> Nat]
    <3>1. now + age \in Nat
      BY <1>1
    <3> QED
      BY <1>1, <1>2, <3>1 DEF Register, ExpiresAt
  <2>4. nonce' \in [AgentKeySet -> Nat]
    BY <1>1, <1>2 DEF Register
  <2>5. UNCHANGED <<identified, now, refreshed>> /\ ever' = ever \cup ledger'
    BY <1>2 DEF Register
  <2> QED
    BY <1>1, <2>2, <2>3, <2>4, <2>5 DEF ChainTypeOK, ChainOK
<1>3. ASSUME NEW a \in ledger, Revoke(a)
      PROVE  ChainTypeOK' /\ ChainOK'
  <2>1. Registry!Remove(a)
    BY <1>3 DEF Revoke
  <2>2. Registry!LedgerOK'
    BY <1>1, <2>1, RemoveLedgerOK
  <2>3. ledger' \subseteq ledger
    BY <2>1 DEF Registry!Remove
  <2>4. expiresAt' \in [Numbers -> Nat]
    BY <1>1, <1>3 DEF Revoke, ExpiresAt
  <2> QED
    BY <1>1, <1>3, <2>2, <2>3, <2>4 DEF Revoke, ChainTypeOK, ChainOK
<1>4. ASSUME NEW a \in ledger, NEW age \in ProofAges, Refresh(a, age)
      PROVE  ChainTypeOK' /\ ChainOK'
  <2>1. expiresAt' \in [Numbers -> Nat]
    <3>1. now + age \in Nat
      BY <1>1
    <3> QED
      BY <1>1, <1>4, <3>1 DEF Refresh, ExpiresAt
  <2>2. refreshed' \in BOOLEAN
    BY <1>4 DEF Refresh
  <2>3. UNCHANGED <<ledger, issued, nonce, identified, now, ever>>
    BY <1>4 DEF Refresh
  <2>4. Registry!LedgerOK'
    BY <1>1, <2>3, StutterLedgerOK
  <2> QED
    BY <1>1, <2>1, <2>2, <2>3, <2>4 DEF ChainTypeOK, ChainOK
<1>5. ASSUME NEW human \in Humans, Identify(human)
      PROVE  ChainTypeOK' /\ ChainOK'
  <2>1. UNCHANGED <<ledger, issued, expiresAt, nonce, now, ever, refreshed>>
    BY <1>5 DEF Identify
  <2>2. identified' = Append(identified, [human |-> human, at |-> now])
    BY <1>5 DEF Identify
  <2>3. identified' \in Seq([human : Humans, at : Nat])
    BY <1>1, <2>2
  <2>4. Registry!LedgerOK'
    BY <1>1, <2>1, StutterLedgerOK
  <2> QED
    BY <1>1, <2>1, <2>3, <2>4 DEF ChainTypeOK, ChainOK
<1>6. CASE Tick
  <2>1. UNCHANGED <<ledger, issued, expiresAt, nonce, identified, ever, refreshed>>
    BY <1>6 DEF Tick
  <2>2. now' \in Nat \ {0}
    BY <1>1, <1>6 DEF Tick
  <2>3. Registry!LedgerOK'
    BY <1>1, <2>1, StutterLedgerOK
  <2> QED
    BY <1>1, <2>1, <2>2, <2>3 DEF ChainTypeOK, ChainOK
<1> QED
  BY <1>2, <1>3, <1>4, <1>5, <1>6 DEF Moved

\* A number that names an agent of another key, or none, will do so for ever; an
\* expiry gets later only by a refresh.
LEMMA ChainKeepsSession ==
  ASSUME SessionInv, Moved \/ Tick
  PROVE  SessionOK'
<1>1. /\ UNCHANGED <<session, token, exported, wait>>
      /\ now \in Nat /\ now' \in Nat /\ now <= now'
      /\ refreshed => refreshed'
      /\ issued \in Int /\ issued' \in Int /\ issued <= issued'
      /\ session.created \in Nat /\ session.agentId \in Numbers
      /\ SessionOK
  BY ChainLeavesClient DEF clientVars, SessionInv, ChainTypeOK, ClientTypeOK, Sessions, ChainOK,
                           Registry!LedgerOK
<1>2. ASSUME Opened, session.kind = "deregister"
      PROVE  \A a \in ledger' : a.number = session.agentId => a.key = session.key
  <2>1. \A a \in ledger : a.number = session.agentId => a.key = session.key
    BY <1>1, <1>2 DEF SessionOK
  <2>2. session.agentId <= issued
    BY <1>1, <1>2 DEF SessionOK
  <2>3. ASSUME NEW human \in Humans, NEW key \in AgentKeySet, NEW age \in ProofAges,
               Register(human, key, age), NEW a \in ledger', a \notin ledger
        PROVE  a.number # session.agentId
    <3>1. a.number = issued + 1
      BY <2>3 DEF Register, Registry!Admit
    <3> QED
      BY <3>1, <2>2, <1>1 DEF Numbers
  <2>4. CASE \E a \in ledger : Revoke(a)
    BY <2>4, <2>1 DEF Revoke, Registry!Remove
  <2>5. CASE \E a \in ledger, age \in ProofAges : Refresh(a, age)
    BY <2>5, <2>1 DEF Refresh
  <2>6. CASE \E human \in Humans : Identify(human)
    BY <2>6, <2>1 DEF Identify
  <2>7. CASE Tick
    BY <2>7, <2>1 DEF Tick
  <2> QED
    BY <2>1, <2>3, <2>4, <2>5, <2>6, <2>7 DEF Moved
<1>3. ASSUME Opened, session.kind = "refresh",
             expiresAt'[session.agentId] > session.originalProofExpiry
      PROVE  refreshed'
  <2>1. /\ expiresAt[session.agentId] > session.originalProofExpiry => refreshed
        /\ session.agentId \in 1 .. issued
        /\ session.originalProofExpiry \in Nat
        /\ expiresAt \in [Numbers -> Nat]
    BY <1>1, <1>3 DEF SessionOK, SessionInv, ClientTypeOK, ChainTypeOK, Sessions
  <2>2. CASE expiresAt'[session.agentId] = expiresAt[session.agentId]
    BY <1>1, <1>3, <2>1, <2>2
  <2>3. ASSUME NEW human \in Humans, NEW key \in AgentKeySet, NEW age \in ProofAges,
               Register(human, key, age)
        PROVE  FALSE
    <3>1. issued + 1 = session.agentId
      BY <1>3, <2>3 DEF Register, Seen
    <3> QED
      BY <3>1, <2>1, <1>1
  <2>4. ASSUME NEW a \in ledger, Revoke(a)
        PROVE  FALSE
    <3>1. a.number = session.agentId /\ expiresAt' = [expiresAt EXCEPT ![a.number] = 0]
      BY <1>3, <2>4 DEF Revoke, Seen, ExpiresAt
    <3>2. expiresAt'[session.agentId] = 0
      BY <3>1, <2>1, <1>1
    <3> QED
      BY <3>2, <1>3, <2>1
  <2>5. ASSUME NEW a \in ledger, NEW age \in ProofAges, Refresh(a, age)
        PROVE  refreshed'
    <3>1. session.agentId = a.number /\ refreshed' = (refreshed \/ session.agentId = a.number)
      BY <1>3, <2>5 DEF Refresh, Seen
    <3> QED
      BY <3>1, Zenon
  <2>6. CASE \E human \in Humans : Identify(human)
    BY <2>6, <2>2 DEF Identify
  <2>7. CASE Tick
    BY <2>7, <2>2 DEF Tick
  <2> QED
    BY <2>3, <2>4, <2>5, <2>6, <2>7 DEF Moved
<1>4. SessionOK'
  <2>1. /\ session.created <= now
        /\ ~ Opened => token = NoToken /\ wait = NoWait /\ ~ exported
        /\ Opened => session.human \in Humans
        /\ Opened /\ session.kind \in {"register", "deregister"} => session.key \in AgentKeySet
        /\ Opened /\ session.kind \in {"deregister", "refresh"} => session.agentId \in 1 .. issued
    BY <1>1 DEF SessionOK
  <2>2. (Opened)' <=> Opened
    BY <1>1 DEF Opened
  <2>3. session.created <= now'
    BY <2>1, <1>1
  <2>4. session.agentId \in 1 .. issued => session.agentId \in 1 .. issued'
    BY <1>1
  <2> QED
    BY <2>1, <2>2, <2>3, <2>4, <1>1, <1>2, <1>3 DEF SessionOK
<1> QED
  BY <1>4

\* An answer may become late, a request may not.
LEMMA ChainKeepsWait ==
  ASSUME SessionInv, Moved \/ Tick
  PROVE  WaitOK'
<1>1. /\ UNCHANGED <<session, token, wait>>
      /\ now \in Nat /\ now' \in Nat /\ now <= now'
      /\ ever \subseteq ever'
      /\ wait.since \in Nat /\ wait.to \in Nat /\ RouteTimeout \in Nat
      /\ WaitOK
      /\ identified \in Seq([human : Humans, at : Nat])
  BY SessionAssumption, ChainLeavesClient
     DEF clientVars, SessionInv, ChainTypeOK, ClientTypeOK, Waits
<1>2. ASSUME Underway
      PROVE  now' <= wait.since + RouteTimeout
  <2>1. CASE Moved
    <3>1. now' = now
      BY <2>1 DEF Moved, Register, Revoke, Refresh, Identify
    <3> QED
      BY <3>1, <1>1, <1>2 DEF WaitOK
  <2>2. CASE Tick
    BY <2>2, <1>1, <1>2 DEF Tick, Underway
  <2> QED
    BY <2>1, <2>2
<1>3. Len(identified) \in Nat /\ Len(identified') \in Nat /\ Len(identified) <= Len(identified')
  <2>1. CASE \E human \in Humans : Identify(human)
    <3>1. PICK human \in Humans : identified' = Append(identified, [human |-> human, at |-> now])
      BY <2>1 DEF Identify
    <3> QED
      BY <3>1, <1>1
  <2>2. CASE ~ \E human \in Humans : Identify(human)
    <3>1. identified' = identified
      BY <2>2 DEF Moved, Register, Revoke, Refresh, Tick
    <3> QED
      BY <3>1, <1>1
  <2> QED
    BY <2>1, <2>2
<1>4. wait.since <= now'
  BY <1>1 DEF WaitOK
<1>5. (Underway)' <=> Underway
  BY <1>1 DEF Underway
<1>6. wait.to <= Len(identified) => wait.to <= Len(identified')
  BY <1>1, <1>3
<1> QED
  BY <1>1, <1>2, <1>4, <1>5, <1>6 DEF WaitOK

\* What is observed to come about comes about now.
LEMMA ObserveKeepsTime ==
  ASSUME doneSince \in Nat, doneSince <= now, now \in Nat \ {0}, now' \in Nat, now <= now', Observe
  PROVE  /\ doneSince' \in Nat /\ doneSince' <= now'
         /\ doneSince' = 0 <=> ~ Done'
         /\ doneSince' \in {0, now', doneSince}
BY DEF Observe

\* What is awaited may come about, or go again, while a request is under way.
LEMMA ChainKeepsDone ==
  ASSUME SessionInv, Moved \/ Tick
  PROVE  DoneOK'
<1>1. /\ UNCHANGED <<session, token, wait>>
      /\ now \in Nat \ {0} /\ now' \in Nat /\ now <= now'
      /\ Observe /\ DoneOK /\ doneSince \in Nat /\ doneSince <= now
      /\ wait.since \in Nat /\ wait.since <= now /\ wait.to \in Nat
      /\ identified \in Seq([human : Humans, at : Nat])
  BY ChainLeavesClient
     DEF clientVars, SessionInv, ChainTypeOK, ClientTypeOK, Waits, DoneOK, WaitOK
<1>2. /\ doneSince' \in Nat /\ doneSince' <= now'
      /\ doneSince' = 0 <=> ~ Done'
      /\ doneSince' \in {0, now', doneSince}
  BY <1>1, ObserveKeepsTime
<1>3. doneSince = 0 \/ doneSince >= wait.since => doneSince' = 0 \/ doneSince' >= wait.since
  BY <1>1, <1>2
<1>4. \A i \in 1 .. Len(identified) : identified'[i] = identified[i]
  <2>1. CASE \E human \in Humans : Identify(human)
    <3>1. PICK human \in Humans : identified' = Append(identified, [human |-> human, at |-> now])
      BY <2>1 DEF Identify
    <3> QED
      BY <3>1, <1>1
  <2>2. CASE ~ \E human \in Humans : Identify(human)
    BY <2>2 DEF Moved, Register, Revoke, Refresh, Tick
  <2> QED
    BY <2>1, <2>2
<1>5. ASSUME wait.pc = "named", session.kind = "identify",
             \A i \in 1 .. wait.to : identified'[i].at < wait.from
      PROVE  doneSince' = 0 \/ doneSince' >= wait.since
  <2>1. wait.to <= Len(identified)
    BY <1>5 DEF SessionInv, WaitOK
  <2>2. \A i \in 1 .. wait.to : identified'[i] = identified[i]
    BY <1>1, <1>4, <2>1
  <2>3. \A i \in 1 .. wait.to : identified[i].at < wait.from
    BY <1>5, <2>2
  <2> QED
    BY <1>1, <1>3, <1>5, <2>3 DEF DoneOK
<1>6. wait.pc = "named" /\ session.kind = "deregister" =>
         doneSince' = 0 \/ doneSince' >= wait.since
  BY <1>1, <1>3 DEF DoneOK
<1> QED
  BY <1>1, <1>2, <1>5, <1>6 DEF DoneOK

\* What a client was told stays true of a chain that moves on.
LEMMA ChainKeepsTold ==
  ASSUME SessionInv, Moved \/ Tick
  PROVE  (RegistrationWasReal /\ DeregistrationIsFinal /\ RefreshHappened /\ NoMissedCompletion)'
<1>1. /\ UNCHANGED <<session, token, exported, wait>>
      /\ ever \subseteq ever'
      /\ refreshed => refreshed'
      /\ Observe
      /\ now \in Nat \ {0} /\ now' \in Nat /\ now <= now'
  BY ChainLeavesClient DEF clientVars, SessionInv, ChainTypeOK
<1>2. RegistrationWasReal' /\ RefreshHappened'
  BY <1>1 DEF SessionInv, RegistrationWasReal, RefreshHappened
<1>3. DeregistrationIsFinal'
  <2> SUFFICES ASSUME session.kind = "deregister", token.stage = "completed"
               PROVE  \A a \in ledger' : a.number # session.agentId
    BY <1>1 DEF DeregistrationIsFinal
  <2>1. /\ \A a \in ledger : a.number # session.agentId
        /\ session.agentId <= issued /\ issued \in Int /\ session.agentId \in Nat
    <3>1. Opened
      BY DEF SessionInv, SessionOK, NoToken
    <3> QED
      BY <3>1 DEF SessionInv, DeregistrationIsFinal, SessionOK, ChainOK, Registry!LedgerOK
  <2>2. ASSUME NEW human \in Humans, NEW key \in AgentKeySet, NEW age \in ProofAges,
               Register(human, key, age)
        PROVE  \A a \in ledger' : a.number # session.agentId
    BY <2>1, <2>2 DEF Register, Registry!Admit
  <2>3. CASE ~ \E human \in Humans, key \in AgentKeySet, age \in ProofAges :
                   Register(human, key, age)
    <3>1. ledger' \subseteq ledger
      BY <2>3 DEF Moved, Revoke, Refresh, Identify, Tick, Registry!Remove
    <3> QED
      BY <2>1, <3>1
  <2> QED
    BY <2>2, <2>3
<1>4. NoMissedCompletion'
  <2> SUFFICES ASSUME wait.pc = "timeout", session.mode # "ed25519-linked"
               PROVE  doneSince' = 0 \/ doneSince' + RouteTimeout >= wait.since
    BY <1>1 DEF NoMissedCompletion
  <2>1. /\ doneSince = 0 \/ doneSince + RouteTimeout >= wait.since
        /\ wait.since \in Nat /\ wait.since <= now
        /\ doneSince \in Nat /\ doneSince <= now /\ RouteTimeout \in Nat
    BY SessionAssumption DEF SessionInv, NoMissedCompletion, WaitOK, DoneOK, ClientTypeOK, Waits
  <2>2. doneSince' \in {0, now', doneSince}
    BY <1>1, <2>1, ObserveKeepsTime
  <2> QED
    BY <1>1, <2>1, <2>2
<1> QED
  BY <1>2, <1>3, <1>4

\* Whatever moves on the chain keeps the invariant.
LEMMA ChainKeepsInv ==
  ASSUME SessionInv, Moved \/ Tick
  PROVE  SessionInv'
<1>1. ClientTypeOK'
  BY ChainLeavesClient DEF clientVars, SessionInv, ClientTypeOK
<1> QED
  BY <1>1, ChainKeepsChain, ChainKeepsSession, ChainKeepsWait, ChainKeepsDone, ChainKeepsTold
     DEF SessionInv

-----------------------------------------------------------------------------
(* A session opens.                                                        *)

\* A route opens a session about what it found on the chain.
LEMMA OpenShape ==
  ASSUME SessionInv, OpenSession
  PROVE  /\ ~ Opened
         /\ session' \in Sessions /\ session'.kind = session.kind /\ session'.created = now
         /\ session'.human \in Humans
         /\ session.kind \in {"register", "deregister"} => session'.key \in AgentKeySet
         /\ session.kind \in {"deregister", "refresh"} => session'.agentId \in 1 .. issued
         /\ session.kind = "deregister" =>
               \A a \in ledger : a.number = session'.agentId => a.key = session'.key
         /\ session.kind = "refresh" =>
               session'.originalProofExpiry = expiresAt[session'.agentId]
         /\ token' = [NoToken EXCEPT !.stage = "qr-ready", !.agentId = session'.agentId]
         /\ UNCHANGED <<exported, wait, chainVars>>
         /\ Observe
<1>1. /\ now \in Nat /\ session \in Sessions
      /\ nonce \in [AgentKeySet -> Nat] /\ expiresAt \in [Numbers -> Nat]
      /\ issued \in 0 .. MaxIssued /\ MaxIssued \in Nat
      /\ \A a \in ledger : a.number \in 1 .. issued
      /\ \A a, b \in ledger : a.number = b.number \/ a.key = b.key => a = b
  BY SessionAssumption
     DEF SessionInv, ChainTypeOK, ClientTypeOK, ChainOK, Registry!LedgerOK, Registry!Entries
<1>2. ASSUME NEW human \in Humans, NEW key \in AgentKeySet, NEW mode \in Modes,
             OpenRegister(human, key, mode)
      PROVE  /\ Open("register", [session EXCEPT !.human = human, !.key = key, !.mode = mode,
                                   !.nonce = IF mode = "generated" THEN 0 ELSE nonce[key]])
             /\ (IF mode = "generated" THEN 0 ELSE nonce[key]) \in Nat
  BY <1>1, <1>2 DEF OpenRegister
<1>3. ASSUME NEW human \in Humans, NEW key \in WalletKeys, OpenDeregister(human, key)
      PROVE  /\ Open("deregister", [session EXCEPT !.human = human, !.key = key,
                                                   !.agentId = IdOf(key)])
             /\ key \in AgentKeySet
             /\ IdOf(key) \in 1 .. issued
             /\ \A a \in ledger : a.number = IdOf(key) => a.key = key
  <2>1. \E a \in ledger : a.key = key /\ a.number = IdOf(key)
    BY <1>3, IdOfKey DEF OpenDeregister, SessionInv
  <2> QED
    BY <2>1, <1>1, <1>3 DEF OpenDeregister, AgentKeySet
<1>4. ASSUME NEW human \in Humans, NEW a \in ledger, OpenRefresh(human, a)
      PROVE  /\ Open("refresh", [session EXCEPT !.human = human, !.agentId = a.number,
                                  !.originalProofExpiry = expiresAt[a.number]])
             /\ a.number \in 1 .. issued /\ a.number \in Numbers /\ expiresAt[a.number] \in Nat
  BY <1>1, <1>4 DEF OpenRefresh, Numbers
<1>5. ASSUME NEW human \in Humans, OpenIdentify(human)
      PROVE  Open("identify", [session EXCEPT !.human = human])
  BY <1>5 DEF OpenIdentify
<1>6. \A id \in 1 .. issued : id \in Numbers
  BY <1>1 DEF Numbers
<1>7. ASSUME NEW kind, NEW data \in Sessions, Open(kind, data), data.kind = session.kind
      PROVE  /\ ~ Opened
             /\ session.kind = kind
             /\ session' = [data EXCEPT !.created = now]
             /\ session' \in Sessions /\ session'.kind = session.kind /\ session'.created = now
             /\ token' = [NoToken EXCEPT !.stage = "qr-ready", !.agentId = session'.agentId]
             /\ UNCHANGED <<exported, wait, chainVars>>
             /\ Observe
  BY <1>1, <1>7 DEF Open, Sessions
<1>8. CASE \E human \in Humans, key \in AgentKeySet, mode \in Modes : OpenRegister(human, key, mode)
  <2>1. PICK human \in Humans, key \in AgentKeySet, mode \in Modes : OpenRegister(human, key, mode)
    BY <1>8
  <2> DEFINE data == [session EXCEPT !.human = human, !.key = key, !.mode = mode,
                                     !.nonce = IF mode = "generated" THEN 0 ELSE nonce[key]]
  <2>2. data \in Sessions /\ data.kind = session.kind /\ data.human = human /\ data.key = key
    BY <1>1, <1>2, <2>1 DEF Sessions
  <2>3. Open("register", data)
    BY <1>2, <2>1
  <2> HIDE DEF data
  <2> QED
    BY <1>7, <2>2, <2>3 DEF Sessions
<1>9. CASE \E human \in Humans, key \in WalletKeys : OpenDeregister(human, key)
  <2>1. PICK human \in Humans, key \in WalletKeys : OpenDeregister(human, key)
    BY <1>9
  <2> DEFINE data == [session EXCEPT !.human = human, !.key = key, !.agentId = IdOf(key)]
  <2>2. /\ data \in Sessions /\ data.kind = session.kind /\ data.human = human
        /\ data.key = key /\ data.agentId = IdOf(key)
    BY <1>1, <1>3, <1>6, <2>1 DEF Sessions
  <2>3. Open("deregister", data)
    BY <1>3, <2>1
  <2>4. /\ key \in AgentKeySet
        /\ IdOf(key) \in 1 .. issued
        /\ \A a \in ledger : a.number = IdOf(key) => a.key = key
    BY <1>3, <2>1
  <2> HIDE DEF data
  <2>5. /\ session'.human = human /\ session'.key = key /\ session'.agentId = IdOf(key)
        /\ session.kind = "deregister"
    BY <1>7, <2>2, <2>3 DEF Sessions
  <2> QED
    BY <1>7, <2>2, <2>3, <2>4, <2>5
<1>10. CASE \E human \in Humans, a \in ledger : OpenRefresh(human, a)
  <2>1. PICK human \in Humans, a \in ledger : OpenRefresh(human, a)
    BY <1>10
  <2> DEFINE data == [session EXCEPT !.human = human, !.agentId = a.number,
                                     !.originalProofExpiry = expiresAt[a.number]]
  <2>2. /\ data \in Sessions /\ data.kind = session.kind /\ data.human = human
        /\ data.agentId = a.number /\ data.originalProofExpiry = expiresAt[a.number]
    BY <1>1, <1>4, <2>1 DEF Sessions
  <2>3. Open("refresh", data)
    BY <1>4, <2>1
  <2>4. a.number \in 1 .. issued
    BY <1>4, <2>1
  <2> HIDE DEF data
  <2>5. /\ session'.human = human /\ session'.agentId = a.number
        /\ session'.originalProofExpiry = expiresAt[a.number]
        /\ session.kind = "refresh"
    BY <1>7, <2>2, <2>3 DEF Sessions
  <2> QED
    BY <1>7, <2>2, <2>3, <2>4, <2>5
<1>11. CASE \E human \in Humans : OpenIdentify(human)
  <2>1. PICK human \in Humans : OpenIdentify(human)
    BY <1>11
  <2> DEFINE data == [session EXCEPT !.human = human]
  <2>2. data \in Sessions /\ data.kind = session.kind /\ data.human = human
    BY <1>1 DEF Sessions
  <2>3. Open("identify", data)
    BY <1>5, <2>1
  <2> HIDE DEF data
  <2> QED
    BY <1>7, <2>2, <2>3 DEF Sessions
<1> QED
  BY <1>8, <1>9, <1>10, <1>11, Zenon DEF OpenSession

\* A new session has told its client nothing and waits for nothing.
LEMMA OpenKeepsInv ==
  ASSUME SessionInv, OpenSession
  PROVE  SessionInv'
<1>1. /\ token = NoToken /\ wait = NoWait /\ ~ exported
      /\ now \in Nat \ {0}
      /\ issued \in 0 .. MaxIssued /\ MaxIssued \in Nat
      /\ expiresAt \in [Numbers -> Nat]
      /\ doneSince \in Nat /\ doneSince <= now
  BY OpenShape, SessionAssumption
     DEF SessionInv, SessionOK, ChainTypeOK, ChainOK, Registry!LedgerOK, DoneOK
<1>2. /\ UNCHANGED <<ledger, issued, expiresAt, nonce, identified, now, ever, refreshed>>
      /\ UNCHANGED <<exported, wait>>
      /\ Observe
  BY OpenShape DEF chainVars
<1>3. ChainTypeOK' /\ ChainOK'
  BY <1>2, StutterLedgerOK DEF SessionInv, ChainTypeOK, ChainOK
<1>4. token' = [NoToken EXCEPT !.stage = "qr-ready", !.agentId = session'.agentId]
      /\ session' \in Sessions
  BY OpenShape
<1>5. token'.stage = "qr-ready" /\ token' \in Tokens
  BY <1>4 DEF Sessions, Tokens, NoToken
<1>6. ClientTypeOK'
  BY <1>2, <1>4, <1>5 DEF ClientTypeOK, SessionInv
<1>7. /\ (Opened)'
      /\ session'.created <= now'
      /\ wait'.pc = "off" /\ wait'.since = 0
  BY <1>1, <1>2, OpenShape DEF Opened, NoWait
<1>8. SessionOK'
  <2>1. \A id \in 1 .. issued : expiresAt[id] \in Nat
    BY <1>1 DEF Numbers
  <2> QED
    BY <1>2, <1>7, <2>1, OpenShape DEF SessionOK
<1>9. WaitOK'
  BY <1>1, <1>2, <1>7 DEF WaitOK, Underway
<1>10. DoneOK'
  BY <1>1, <1>2, <1>7, ObserveKeepsTime DEF DoneOK
<1>11. (RegistrationWasReal /\ DeregistrationIsFinal /\ RefreshHappened /\ NoMissedCompletion)'
  BY <1>1, <1>2, <1>5, <1>7
     DEF RegistrationWasReal, DeregistrationIsFinal, RefreshHappened, NoMissedCompletion
<1> QED
  BY <1>3, <1>6, <1>8, <1>9, <1>10, <1>11 DEF SessionInv

-----------------------------------------------------------------------------
(* Steps of the client and of the routes, which leave the chain alone.     *)

\* The part of the invariant that is about the chain and the session.
LEMMA ClientKeepsRest ==
  ASSUME SessionInv, UNCHANGED elsewhere, UNCHANGED session
  PROVE  /\ UNCHANGED <<ledger, issued, expiresAt, identified, now, ever, refreshed, doneSince>>
         /\ ChainTypeOK' /\ ChainOK'
         /\ Done' = Done
         /\ (Opened)' <=> Opened
         /\ Opened /\ session \in Sessions /\ token' \in Tokens => SessionOK'
<1>1. /\ UNCHANGED <<ledger, issued, expiresAt, nonce, identified, now, ever, refreshed>>
      /\ UNCHANGED <<doneSince, session>>
  BY DEF elsewhere, chainVars
<1>2. ChainTypeOK' /\ ChainOK'
  BY <1>1, StutterLedgerOK DEF SessionInv, ChainTypeOK, ChainOK
<1>3. (Opened)' <=> Opened
  BY <1>1 DEF Opened
<1>4. Opened => SessionOK'
  BY <1>1, <1>3 DEF SessionInv, SessionOK
<1> QED
  BY <1>1, <1>2, <1>3, <1>4, ClientUnmoved

\* What a token says of a session that it calls complete.
Tells(told) ==
    told.stage = "completed" =>
        /\ session.kind = "register" =>
              \E a \in ever : a.key = session.key /\ told.agentId \in {a.number, 0}
        /\ session.kind = "deregister" => \A a \in ledger : a.number # session.agentId
        /\ session.kind = "refresh" =>
              refreshed /\ told.proofExpiresAt > session.originalProofExpiry

\* A call that ends without an answer has looked in vain for nothing.
LEMMA EndKeepsInv ==
  ASSUME SessionInv, Opened, NEW outcome \in Ended \ {"timeout"}, End(outcome)
  PROVE  SessionInv'
<1>1. wait' = [NoWait EXCEPT !.pc = outcome] /\ UNCHANGED <<session, token, exported>>
      /\ UNCHANGED elsewhere
  BY DEF End
<1>2. wait'.pc = outcome /\ wait'.since = 0 /\ wait' \in Waits
  BY <1>1, SessionAssumption DEF NoWait, NoToken, Waits, Tokens, Numbers
<1>3. outcome \notin {"asked", "named", "timeout"}
  BY DEF Ended
<1>4. ClientTypeOK'
  BY <1>1, <1>2 DEF SessionInv, ClientTypeOK
<1>5. WaitOK'
  BY <1>1, <1>2, <1>3, ClientKeepsRest DEF WaitOK, Underway, SessionInv, ChainTypeOK
<1>6. DoneOK'
  BY <1>1, <1>2, <1>3, ClientKeepsRest DEF DoneOK, SessionInv
<1>7. (RegistrationWasReal /\ DeregistrationIsFinal /\ RefreshHappened /\ NoMissedCompletion)'
  BY <1>1, <1>2, <1>3, ClientKeepsRest
     DEF SessionInv, RegistrationWasReal, DeregistrationIsFinal, RefreshHappened, NoMissedCompletion
<1> QED
  BY <1>1, <1>4, <1>5, <1>6, <1>7, ClientKeepsRest DEF SessionInv, ClientTypeOK

\* An answer may say that the session is complete when it is, and that it is not when
\* what is awaited was not so, or not yet when the request went out.
LEMMA ReceiveKeepsInv ==
  ASSUME SessionInv, wait.pc \in Polling, Opened,
         NEW new \in Tokens, Receive(new), Tells(new),
         new.stage \notin {"completed", "failed"} /\ session.mode # "ed25519-linked" =>
            doneSince = 0 \/ doneSince + RouteTimeout >= now
  PROVE  SessionInv'
<1>1. UNCHANGED <<session, exported>> /\ UNCHANGED elsewhere /\ token' = new
  BY DEF Receive
<1>2. /\ now \in Nat /\ wait \in Waits /\ NoToken \in Tokens /\ NoWait \in Waits
      /\ session \in Sessions
  BY SessionAssumption
     DEF SessionInv, ChainTypeOK, ClientTypeOK, NoToken, Tokens, Numbers, NoWait, Waits
<1>3. /\ wait' \in Waits /\ wait'.since <= now
      /\ wait'.pc \notin {"asked", "named"}
      /\ wait'.pc = "timeout" =>
            wait'.since = now /\ new.stage \notin {"completed", "failed"}
  <2>1. CASE new.stage \in {"completed", "failed"}
    <3>1. wait' = [NoWait EXCEPT !.pc = new.stage]
      BY <2>1 DEF Receive
    <3> QED
      BY <2>1, <3>1, <1>2 DEF NoWait, Waits, Ended
  <2>2. CASE new.stage \notin {"completed", "failed"} /\ now < wait.deadline
    <3>1. wait' = [wait EXCEPT !.pc = "sleep", !.since = now, !.sent = NoToken,
                               !.from = 0, !.to = 0]
      BY <2>2 DEF Receive
    <3>2. wait'.pc = "sleep" /\ wait'.since = now
      BY <3>1, <1>2 DEF Waits
    <3>3. wait' \in Waits
      BY <3>1, <1>2 DEF Waits, Polling
    <3> QED
      BY <3>2, <3>3, <1>2
  <2>3. CASE new.stage \notin {"completed", "failed"} /\ ~ now < wait.deadline
    <3> DEFINE over == [NoWait EXCEPT !.pc = "timeout"]
    <3>1. over \in Waits /\ over.pc = "timeout"
      BY <1>2 DEF Waits, Ended
    <3>2. wait' = [over EXCEPT !.since = now]
      BY <2>3 DEF Receive
    <3> HIDE DEF over
    <3>3. wait'.pc = "timeout" /\ wait'.since = now /\ wait' \in Waits
      BY <1>2, <3>1, <3>2 DEF Waits
    <3> QED
      BY <2>3, <3>3, <1>2
  <2> QED
    BY <2>1, <2>2, <2>3
<1>4. ClientTypeOK'
  BY <1>1, <1>3 DEF SessionInv, ClientTypeOK
<1>5. WaitOK'
  BY <1>1, <1>3, ClientKeepsRest DEF WaitOK, Underway
<1>6. DoneOK'
  BY <1>1, <1>3, ClientKeepsRest DEF DoneOK, SessionInv
<1>7. (RegistrationWasReal /\ DeregistrationIsFinal /\ RefreshHappened)'
  BY <1>1, ClientKeepsRest
     DEF SessionInv, RegistrationWasReal, DeregistrationIsFinal, RefreshHappened, Tells
<1>8. NoMissedCompletion'
  BY <1>1, <1>3, ClientKeepsRest DEF NoMissedCompletion
<1> QED
  BY <1>1, <1>2, <1>4, <1>5, <1>6, <1>7, <1>8, ClientKeepsRest DEF SessionInv, ClientTypeOK

\* A step of the client's call that brings no answer.
LEMMA WaitKeepsInv ==
  ASSUME SessionInv, Opened, UNCHANGED elsewhere, UNCHANGED <<session, token, exported>>,
         wait' \in Waits, wait'.pc # "timeout", WaitOK',
         wait'.pc = "named" /\ session.kind = "deregister" =>
            doneSince = 0 \/ doneSince >= wait'.since,
         /\ wait'.pc = "named" /\ session.kind = "identify"
         /\ \A i \in 1 .. wait'.to : identified[i].at < wait'.from
         => doneSince = 0 \/ doneSince >= wait'.since
  PROVE  SessionInv'
<1>1. ClientTypeOK'
  BY DEF SessionInv, ClientTypeOK
<1>2. DoneOK'
  BY ClientKeepsRest DEF DoneOK, SessionInv
<1>3. (RegistrationWasReal /\ DeregistrationIsFinal /\ RefreshHappened /\ NoMissedCompletion)'
  BY ClientKeepsRest
     DEF SessionInv, RegistrationWasReal, DeregistrationIsFinal, RefreshHappened, NoMissedCompletion
<1> QED
  BY <1>1, <1>2, <1>3, ClientKeepsRest DEF SessionInv, ClientTypeOK

\* A wait begins asleep.
LEMMA StartWaitKeepsInv ==
  ASSUME SessionInv, StartWait
  PROVE  SessionInv'
<1>1. /\ Opened /\ UNCHANGED elsewhere /\ UNCHANGED <<session, token, exported>>
      /\ wait' = [NoWait EXCEPT !.pc = "sleep", !.deadline = now + Timeout, !.since = now]
  BY DEF StartWait
<1>2. now \in Nat /\ now + Timeout \in Nat /\ NoWait \in Waits
  BY SessionAssumption
     DEF SessionInv, ChainTypeOK, NoToken, Tokens, Numbers, NoWait, Waits
<1>3. wait' \in Waits /\ wait'.pc = "sleep" /\ wait'.since = now
  BY <1>1, <1>2 DEF Waits, Polling
<1>4. WaitOK'
  BY <1>2, <1>3, ClientKeepsRest, <1>1 DEF WaitOK, Underway
<1> QED
  BY <1>1, <1>3, <1>4, WaitKeepsInv

\* A callback changes the stage of a session that is not complete.
LEMMA CallbackKeepsInv ==
  ASSUME SessionInv, NEW error \in BOOLEAN, Callback(error)
  PROVE  SessionInv'
<1>1. /\ Opened /\ UNCHANGED elsewhere /\ UNCHANGED <<session, exported, wait>>
      /\ token' = Staged(error)
  BY DEF Callback, Alive
<1>2. token \in Tokens
  BY DEF SessionInv, ClientTypeOK
<1>3. token' \in Tokens /\ (token'.stage = "completed" => token' = token)
  BY <1>1, <1>2 DEF Staged, Tokens
<1>4. ClientTypeOK'
  BY <1>1, <1>3 DEF SessionInv, ClientTypeOK
<1>5. WaitOK'
  BY <1>1, <1>3, ClientKeepsRest DEF SessionInv, WaitOK, Underway
<1>6. DoneOK'
  BY <1>1, ClientKeepsRest DEF SessionInv, DoneOK
<1>7. (RegistrationWasReal /\ DeregistrationIsFinal /\ RefreshHappened /\ NoMissedCompletion)'
  BY <1>1, <1>3, ClientKeepsRest
     DEF SessionInv, RegistrationWasReal, DeregistrationIsFinal, RefreshHappened, NoMissedCompletion
<1> QED
  BY <1>1, <1>3, <1>4, <1>5, <1>6, <1>7, ClientKeepsRest DEF SessionInv, ClientTypeOK

\* Only a completed registration exports its key.
LEMMA ExportKeepsInv ==
  ASSUME SessionInv, Export
  PROVE  SessionInv'
<1>1. /\ Opened /\ UNCHANGED elsewhere /\ UNCHANGED <<session, token, wait>>
      /\ exported' = TRUE
      /\ session.kind = "register" /\ token.stage = "completed"
  BY DEF Export, Alive
<1>2. ClientTypeOK'
  BY <1>1 DEF SessionInv, ClientTypeOK
<1>3. WaitOK' /\ DoneOK'
  BY <1>1, ClientKeepsRest DEF SessionInv, WaitOK, Underway, DoneOK
<1>4. (RegistrationWasReal /\ DeregistrationIsFinal /\ RefreshHappened /\ NoMissedCompletion)'
  BY <1>1, ClientKeepsRest
     DEF SessionInv, RegistrationWasReal, DeregistrationIsFinal, RefreshHappened, NoMissedCompletion
<1> QED
  BY <1>1, <1>2, <1>3, <1>4, ClientKeepsRest DEF SessionInv, ClientTypeOK

\* What holds while a client waits.
LEMMA PollingShape ==
  ASSUME SessionInv, wait.pc \in Polling
  PROVE  /\ Opened
         /\ wait \in Waits /\ wait.sent \in Tokens /\ token \in Tokens /\ session \in Sessions
         /\ wait.pc \in {"asked", "named"} => wait.sent.stage \notin {"completed", "failed"}
         /\ token.stage = "completed" => Tells(token)
         /\ now \in Nat \ {0} /\ doneSince \in Nat /\ RouteTimeout \in Nat
<1>1. Opened
  BY DEF SessionInv, SessionOK, NoWait, Polling
<1>2. wait \in Waits /\ wait.sent \in Tokens /\ token \in Tokens /\ session \in Sessions
  BY DEF SessionInv, ClientTypeOK, Waits
<1>3. token.stage = "completed" => Tells(token)
  BY DEF SessionInv, RegistrationWasReal, DeregistrationIsFinal, RefreshHappened, Tells
<1> QED
  BY <1>1, <1>2, <1>3, SessionAssumption DEF SessionInv, WaitOK, Underway, ChainTypeOK, DoneOK

\* A wait wakes: it ends, hears what it knows, or asks with the token it has.
LEMMA PollKeepsInv ==
  ASSUME SessionInv, Poll
  PROVE  SessionInv'
<1>1. wait.pc = "sleep" /\ wait.pc \in Polling
  BY DEF Poll, Polling
<1>2. CASE End("error") \/ End("expired")
  BY <1>1, <1>2, PollingShape, EndKeepsInv DEF Ended
<1>3. CASE Settled /\ Receive(token)
  <2>1. Tells(token)
    BY <1>1, PollingShape DEF Tells
  <2>2. token.stage \in {"completed", "failed"} /\ token \in Tokens /\ Opened
    BY <1>1, <1>3, PollingShape DEF Settled
  <2> QED
    BY <1>1, <1>3, <2>1, <2>2, ReceiveKeepsInv
<1>4. CASE /\ ~ Settled
           /\ wait' = [wait EXCEPT !.pc = "asked", !.since = now, !.sent = token]
           /\ UNCHANGED <<session, token, exported, elsewhere>>
  <2>1. /\ wait' \in Waits /\ wait'.pc = "asked" /\ wait'.since = now /\ wait'.sent = token
        /\ Opened /\ now \in Nat /\ RouteTimeout \in Nat
    BY <1>1, <1>4, PollingShape DEF Waits, Polling
  <2>2. UNCHANGED elsewhere /\ UNCHANGED <<session, token, exported>>
    BY <1>4
  <2>3. WaitOK'
    BY <1>4, <2>1, <2>2, ClientKeepsRest DEF WaitOK, Underway, Settled
  <2> QED
    BY <2>1, <2>2, <2>3, WaitKeepsInv
<1> QED
  BY <1>2, <1>3, <1>4 DEF Poll

\* Events are events.
LEMMA EventShape ==
  ASSUME SessionInv, NEW i \in 1 .. Len(identified)
  PROVE  identified[i].at \in Nat /\ identified[i].human \in Humans
<1> DEFINE Events == [human : Humans, at : Nat]
<1>1. identified \in Seq(Events)
  BY DEF SessionInv, ChainTypeOK
<1> HIDE DEF Events
<1>2. identified[i] \in Events
  BY <1>1
<1> QED
  BY <1>2 DEF Events

\* A second read is asked for when the first has said all it had to.
LEMMA AskKeepsInv ==
  ASSUME SessionInv, wait.pc = "asked", Ask,
         session.kind = "register" => \E a \in ever : a.key = session.key,
         session.kind = "deregister" => doneSince = 0,
         session.kind # "identify"
  PROVE  SessionInv'
<1>1. /\ wait' = [wait EXCEPT !.pc = "named"]
      /\ UNCHANGED elsewhere /\ UNCHANGED <<session, token, exported>>
  BY DEF Ask
<1>2. wait.pc \in Polling
  BY DEF Polling
<1>3. Opened /\ wait \in Waits
  BY <1>2, PollingShape
<1>4. /\ wait' \in Waits /\ wait'.pc = "named" /\ wait'.since = wait.since
      /\ wait'.sent = wait.sent
  BY <1>1, <1>3 DEF Waits, Polling
<1>5. WaitOK'
  BY <1>1, <1>4, ClientKeepsRest DEF SessionInv, WaitOK, Underway
<1> QED
  BY <1>1, <1>3, <1>4, <1>5, WaitKeepsInv

\* The key that register/status looks under has an agent only if it is the session's.
LEMMA PolledKeyIsKey ==
  ASSUME SessionInv
  PROVE  /\ IdOf(PolledKey) \in Numbers
         /\ IdOf(PolledKey) # 0 =>
               \E a \in ever : a.key = session.key /\ a.number = IdOf(PolledKey)
         /\ session.mode # "ed25519-linked" => PolledKey = session.key
<1>1. ChainOK /\ ledger \subseteq ever
  BY DEF SessionInv, ChainOK
<1>2. \A a \in ledger : a.key # NoKey
  BY <1>1, SessionAssumption DEF ChainOK, Registry!LedgerOK, Registry!Entries
<1>3. PolledKey = NoKey \/ PolledKey = session.key
  BY DEF PolledKey
<1>4. session.mode # "ed25519-linked" => PolledKey = session.key
  BY DEF PolledKey
<1> QED
  BY <1>1, <1>2, <1>3, <1>4, IdOfKey

\* An answer that nothing has changed is given when nothing has, or was not yet when
\* the request went out.
LEMMA SameAgainKeepsInv ==
  ASSUME SessionInv, Underway, Receive(wait.sent),
         session.mode # "ed25519-linked" =>
            doneSince = 0 \/ doneSince >= wait.since
  PROVE  SessionInv'
<1>1. wait.pc \in Polling
  BY DEF Underway, Polling
<1>2. /\ Opened /\ wait.sent \in Tokens
      /\ wait.sent.stage \notin {"completed", "failed"}
      /\ now \in Nat /\ doneSince \in Nat /\ RouteTimeout \in Nat /\ wait.since \in Nat
      /\ now <= wait.since + RouteTimeout
  BY <1>1, PollingShape DEF Underway, SessionInv, WaitOK, Waits
<1>3. Tells(wait.sent)
  BY <1>2 DEF Tells
<1>4. doneSince >= wait.since => doneSince + RouteTimeout >= now
  BY <1>2
<1> QED
  BY <1>1, <1>2, <1>3, <1>4, ReceiveKeepsInv

\* An answer that the session is complete is given when it is.
LEMMA CompletedKeepsInv ==
  ASSUME SessionInv, wait.pc \in Polling, NEW new \in Tokens, Receive(new),
         new.stage = "completed", Tells(new)
  PROVE  SessionInv'
BY PollingShape, ReceiveKeepsInv

\* The token that a route completes.
LEMMA CompletedTokens ==
  ASSUME SessionInv, wait.pc \in Polling
  PROVE  /\ [wait.sent EXCEPT !.stage = "completed"] \in Tokens
         /\ \A id \in Numbers :
               [wait.sent EXCEPT !.stage = "completed", !.agentId = id] \in Tokens
         /\ \A expiry \in Nat :
               [wait.sent EXCEPT !.stage = "completed", !.proofExpiresAt = expiry] \in Tokens
         /\ \A human \in Humans :
               [wait.sent EXCEPT !.stage = "completed", !.found = human] \in Tokens
BY PollingShape DEF Tokens

\* register/status denies a key that has no agent and asks on for one that has.
LEMMA RegisterStatusKeepsInv ==
  ASSUME SessionInv, wait.pc = "asked", session.kind = "register", RegisterStatus
  PROVE  SessionInv'
<1>1. Underway /\ Opened
  BY PollingShape DEF Underway, Polling
<1>2. CASE IdOf(PolledKey) = 0 /\ Receive(wait.sent)
  <2>1. session.mode # "ed25519-linked" => doneSince = 0
    BY <1>2, PolledKeyIsKey DEF SessionInv, DoneOK, Done
  <2> QED
    BY <1>1, <1>2, <2>1, SameAgainKeepsInv
<1>3. CASE IdOf(PolledKey) # 0 /\ Ask
  BY <1>3, PolledKeyIsKey, AskKeepsInv
<1> QED
  BY <1>2, <1>3 DEF RegisterStatus

\* deregister/status calls the agent gone when no agent has its key.
LEMMA DeregisterStatusKeepsInv ==
  ASSUME SessionInv, wait.pc = "asked", session.kind = "deregister", DeregisterStatus
  PROVE  SessionInv'
<1>1. wait.pc \in Polling /\ Opened
  BY PollingShape DEF Polling
<1>2. CASE IdOf(session.key) = 0 /\ Receive([wait.sent EXCEPT !.stage = "completed"])
  <2> DEFINE new == [wait.sent EXCEPT !.stage = "completed"]
  <2>1. new \in Tokens /\ new.stage = "completed"
    BY <1>1, CompletedTokens, PollingShape DEF Tokens
  <2>2. \A a \in ledger : a.number # session.agentId
    BY <1>1, <1>2, IdOfKey DEF SessionInv, SessionOK
  <2>3. Tells(new)
    BY <2>2 DEF Tells
  <2>4. Receive(new)
    BY <1>2
  <2> HIDE DEF new
  <2> QED
    BY <1>1, <2>1, <2>3, <2>4, CompletedKeepsInv
<1>3. CASE IdOf(session.key) # 0 /\ Ask
  <2>1. doneSince = 0
    BY <1>3 DEF SessionInv, DoneOK, Done
  <2> QED
    BY <1>3, <2>1, AskKeepsInv
<1> QED
  BY <1>2, <1>3 DEF DeregisterStatus

\* refresh/status compares expiries.
LEMMA RefreshStatusKeepsInv ==
  ASSUME SessionInv, wait.pc = "asked", session.kind = "refresh", RefreshStatus
  PROVE  SessionInv'
<1>1. wait.pc \in Polling /\ Underway /\ Opened
  BY PollingShape DEF Polling, Underway
<1> DEFINE expiry == expiresAt[session.agentId]
<1>2. expiry \in Nat /\ session.originalProofExpiry \in Nat
  BY <1>1, PollingShape DEF SessionInv, ChainTypeOK, Sessions
<1>3. CASE /\ expiry > session.originalProofExpiry
           /\ Receive([wait.sent EXCEPT !.stage = "completed", !.proofExpiresAt = expiry])
  <2> DEFINE new == [wait.sent EXCEPT !.stage = "completed", !.proofExpiresAt = expiry]
  <2>1. refreshed
    BY <1>1, <1>3 DEF SessionInv, SessionOK
  <2>2. new \in Tokens
    BY <1>1, <1>2, CompletedTokens
  <2>3. new.stage = "completed" /\ new.proofExpiresAt = expiry
    BY <1>1, PollingShape DEF Tokens
  <2>4. Receive(new)
    BY <1>3
  <2> HIDE DEF new
  <2>5. Tells(new)
    BY <1>3, <2>1, <2>3 DEF Tells
  <2> QED
    BY <1>1, <2>2, <2>3, <2>4, <2>5, CompletedKeepsInv
<1>4. CASE expiry <= session.originalProofExpiry /\ Receive(wait.sent)
  <2>1. ~ expiry > session.originalProofExpiry
    BY <1>2, <1>4
  <2>2. doneSince = 0
    BY <2>1 DEF SessionInv, DoneOK, Done
  <2> QED
    BY <1>1, <1>4, <2>2, SameAgainKeepsInv
<1> QED
  BY <1>3, <1>4 DEF RefreshStatus

\* identify/status fixes the range of events that it looks through.
LEMMA IdentifyStatusKeepsInv ==
  ASSUME SessionInv, wait.pc = "asked", session.kind = "identify", IdentifyStatus
  PROVE  SessionInv'
<1>1. /\ UNCHANGED elsewhere /\ UNCHANGED <<session, token, exported>>
      /\ wait' = [wait EXCEPT !.pc = "named", !.from = SearchedFrom, !.to = Len(identified)]
  BY DEF IdentifyStatus
<1>2. /\ wait \in Waits /\ session.created \in Nat /\ Buffer \in Nat /\ Opened
      /\ identified \in Seq([human : Humans, at : Nat])
  BY SessionAssumption, PollingShape DEF Polling, Sessions, SessionInv, ChainTypeOK
<1>3. SearchedFrom \in Nat /\ SearchedFrom <= session.created /\ Len(identified) \in Nat
  BY <1>2 DEF SearchedFrom
<1>4. /\ wait' \in Waits /\ wait'.pc = "named" /\ wait'.from = SearchedFrom
      /\ wait'.to = Len(identified) /\ wait'.since = wait.since /\ wait'.sent = wait.sent
  BY <1>1, <1>2, <1>3 DEF Waits, Polling
<1>5. WaitOK'
  BY <1>1, <1>3, <1>4, ClientKeepsRest DEF SessionInv, WaitOK, Underway
<1>6. ASSUME \A i \in 1 .. Len(identified) : identified[i].at < SearchedFrom
      PROVE  doneSince = 0
  <2>1. \A i \in 1 .. Len(identified) : identified[i].at \in Nat
    BY EventShape
  <2>2. \A i \in 1 .. Len(identified) : ~ identified[i].at >= session.created
    BY <1>2, <1>3, <1>6, <2>1
  <2> QED
    BY <2>2 DEF SessionInv, DoneOK, Done
<1> QED
  BY <1>1, <1>2, <1>4, <1>5, <1>6, WaitKeepsInv

\* The first answer of each status route.
LEMMA FirstAnswerKeepsInv ==
  ASSUME SessionInv, FirstAnswer
  PROVE  SessionInv'
BY RegisterStatusKeepsInv, DeregisterStatusKeepsInv, RefreshStatusKeepsInv,
   IdentifyStatusKeepsInv DEF FirstAnswer

\* A number read late is that of an agent with the key, or 0.
LEMMA RegisterNumberKeepsInv ==
  ASSUME SessionInv, wait.pc = "named", session.kind = "register", RegisterNumber
  PROVE  SessionInv'
<1>1. wait.pc \in Polling
  BY DEF Polling
<1> DEFINE id == IdOf(PolledKey)
           new == [wait.sent EXCEPT !.stage = "completed", !.agentId = id]
<1>2. id \in Numbers
  BY PolledKeyIsKey
<1>3. new \in Tokens
  BY <1>1, <1>2, CompletedTokens
<1>4. new.stage = "completed" /\ new.agentId = id
  BY <1>1, PollingShape DEF Tokens
<1>5. Receive(new)
  BY DEF RegisterNumber
<1>6. \E a \in ever : a.key = session.key /\ id \in {a.number, 0}
  <2>1. \E a \in ever : a.key = session.key
    BY DEF SessionInv, WaitOK
  <2> QED
    BY <2>1, PolledKeyIsKey
<1> HIDE DEF new
<1>7. Tells(new)
  BY <1>4, <1>6 DEF Tells
<1> QED
  BY <1>1, <1>3, <1>4, <1>5, <1>7, CompletedKeepsInv

\* identify/status completes with an event of its range, or finds none there.
LEMMA IdentifyEventsKeepsInv ==
  ASSUME SessionInv, wait.pc = "named", session.kind = "identify", IdentifyEvents
  PROVE  SessionInv'
<1> DEFINE inRange == {i \in 1 .. wait.to : identified[i].at >= wait.from}
<1>1. wait.pc \in Polling /\ Underway
  BY DEF Polling, Underway
<1>2. /\ wait \in Waits /\ wait.to <= Len(identified)
      /\ identified \in Seq([human : Humans, at : Nat])
  BY <1>1, PollingShape DEF SessionInv, WaitOK, ChainTypeOK
<1>3. \A i \in 1 .. wait.to : identified[i].at \in Nat /\ identified[i].human \in Humans
  <2>1. wait.to \in Nat
    BY <1>2 DEF Waits
  <2>2. \A i \in 1 .. wait.to : i \in 1 .. Len(identified)
    BY <1>2, <2>1
  <2> QED
    BY <2>2, EventShape
<1>4. CASE inRange = {} /\ Receive(wait.sent)
  <2>1. wait.from \in Nat
    BY <1>2 DEF Waits
  <2>2. \A i \in 1 .. wait.to : identified[i].at < wait.from
    BY <1>3, <1>4, <2>1
  <2>3. doneSince = 0 \/ doneSince >= wait.since
    BY <2>2 DEF SessionInv, DoneOK
  <2> QED
    BY <1>1, <1>4, <2>3, SameAgainKeepsInv
<1>5. ASSUME NEW i \in inRange,
             Receive([wait.sent EXCEPT !.stage = "completed", !.found = identified[i].human])
      PROVE  SessionInv'
  <2> DEFINE human == identified[i].human
             new == [wait.sent EXCEPT !.stage = "completed", !.found = human]
  <2>1. human \in Humans
    BY <1>3
  <2>2. new \in Tokens
    BY <1>1, <2>1, CompletedTokens
  <2>3. new.stage = "completed"
    BY <1>1, PollingShape DEF Tokens
  <2>4. Receive(new)
    BY <1>5
  <2> HIDE DEF new
  <2>5. Tells(new)
    BY DEF Tells
  <2> QED
    BY <1>1, <2>2, <2>3, <2>4, <2>5, CompletedKeepsInv
<1> QED
  BY <1>4, <1>5 DEF IdentifyEvents

\* The second answer of each status route.
LEMMA SecondAnswerKeepsInv ==
  ASSUME SessionInv, SecondAnswer
  PROVE  SessionInv'
<1>1. wait.pc = "named"
  BY DEF SecondAnswer
<1>2. CASE session.kind = "register" /\ RegisterNumber
  BY <1>1, <1>2, RegisterNumberKeepsInv
<1>3. CASE session.kind = "deregister" /\ Receive(wait.sent)
  <2>1. doneSince = 0 \/ doneSince >= wait.since
    BY <1>1, <1>3 DEF SessionInv, DoneOK
  <2> QED
    BY <1>1, <1>3, <2>1, SameAgainKeepsInv DEF Underway
<1>4. CASE session.kind = "identify" /\ IdentifyEvents
  BY <1>1, <1>4, IdentifyEventsKeepsInv
<1> QED
  BY <1>2, <1>3, <1>4 DEF SecondAnswer

\* A lost request ends the wait.
LEMMA RequestFailedKeepsInv ==
  ASSUME SessionInv, RequestFailed
  PROVE  SessionInv'
BY PollingShape, EndKeepsInv DEF RequestFailed, Polling, Ended

-----------------------------------------------------------------------------
(* The invariant holds, and what follows from it.                          *)

\* Nothing has happened and nothing was said.
LEMMA InitSessionInv ==
  ASSUME Init
  PROVE  SessionInv
<1>1. ChainTypeOK
  <2>1. identified = << >> /\ now = 1 /\ refreshed = FALSE
    BY DEF Init
  <2>2. expiresAt \in [Numbers -> Nat] /\ nonce \in [AgentKeySet -> Nat]
    BY DEF Init
  <2>3. << >> \in Seq([human : Humans, at : Nat])
    OBVIOUS
  <2>4. identified \in Seq([human : Humans, at : Nat])
    BY <2>1, <2>3, Zenon
  <2>5. now \in Nat \ {0}
    BY <2>1
  <2>6. refreshed \in BOOLEAN
    BY <2>1, Zenon
  <2> QED
    BY <2>2, <2>4, <2>5, <2>6, Zenon DEF ChainTypeOK
<1>2. PICK kind \in Kinds : session = [NoSession EXCEPT !.kind = kind]
  BY DEF Init
<1>3. kind \in {"register", "deregister", "refresh", "identify"}
  BY SessionAssumption
<1>4. session \in Sessions /\ session.created = 0
  BY <1>2, <1>3, SessionAssumption DEF NoSession, Sessions, Numbers
<1>5. token \in Tokens /\ token.stage = "pending" /\ wait \in Waits /\ wait.pc = "off"
      /\ wait.since = 0
  BY SessionAssumption DEF Init, NoToken, NoWait, Tokens, Waits, Numbers
<1>6. ClientTypeOK
  BY <1>4, <1>5 DEF Init, ClientTypeOK
<1>7. ChainOK
  BY SessionAssumption, InitLedgerOK DEF Init, ChainOK, Registry!Init
<1>8. ~ Opened
  BY <1>4 DEF Opened
<1>9. SessionOK
  BY <1>4, <1>8 DEF Init, SessionOK
<1>10. WaitOK
  BY <1>5 DEF Init, WaitOK, Underway
<1>11. DoneOK
  BY <1>5, <1>8 DEF Init, DoneOK, Done
<1>12. RegistrationWasReal /\ DeregistrationIsFinal /\ RefreshHappened /\ NoMissedCompletion
  BY <1>5 DEF Init, RegistrationWasReal, DeregistrationIsFinal, RefreshHappened,
              NoMissedCompletion
<1> QED
  BY <1>1, <1>6, <1>7, <1>9, <1>10, <1>11, <1>12 DEF SessionInv

\* A step that changes nothing keeps the invariant.
LEMMA StutterKeepsInv ==
  ASSUME SessionInv, UNCHANGED vars
  PROVE  SessionInv'
<1>1. UNCHANGED elsewhere /\ UNCHANGED <<session, token, exported, wait>>
  BY DEF vars, elsewhere, clientVars
<1>2. UNCHANGED <<ledger, issued, expiresAt, nonce, identified, now, ever, refreshed, doneSince>>
  BY <1>1 DEF elsewhere, chainVars
<1>3. ChainTypeOK' /\ ChainOK'
  BY <1>2, StutterLedgerOK DEF SessionInv, ChainTypeOK, ChainOK
<1>4. (Opened)' <=> Opened
  BY <1>1 DEF Opened
<1>5. ClientTypeOK' /\ SessionOK' /\ WaitOK'
  BY <1>1, <1>2, <1>4 DEF SessionInv, ClientTypeOK, SessionOK, WaitOK, Underway
<1>6. DoneOK'
  BY <1>1, <1>2, ClientUnmoved DEF SessionInv, DoneOK
<1>7. (RegistrationWasReal /\ DeregistrationIsFinal /\ RefreshHappened /\ NoMissedCompletion)'
  BY <1>1, <1>2
     DEF SessionInv, RegistrationWasReal, DeregistrationIsFinal, RefreshHappened, NoMissedCompletion
<1> QED
  BY <1>3, <1>5, <1>6, <1>7 DEF SessionInv

\* Every step keeps the invariant.
LEMMA NextKeepsInv ==
  ASSUME SessionInv, [Next]_vars
  PROVE  SessionInv'
<1>1. CASE OpenSession
  BY <1>1, OpenKeepsInv
<1>2. ASSUME NEW error \in BOOLEAN, Callback(error)
      PROVE  SessionInv'
  BY <1>2, CallbackKeepsInv
<1>3. CASE Export
  BY <1>3, ExportKeepsInv
<1>4. CASE StartWait
  BY <1>4, StartWaitKeepsInv
<1>5. CASE Poll
  BY <1>5, PollKeepsInv
<1>6. CASE FirstAnswer
  BY <1>6, FirstAnswerKeepsInv
<1>7. CASE SecondAnswer
  BY <1>7, SecondAnswerKeepsInv
<1>8. CASE RequestFailed
  BY <1>8, RequestFailedKeepsInv
<1>9. CASE Scan \/ Others
  BY <1>9, ChainShape, ChainKeepsInv
<1>10. CASE Tick
  BY <1>10, ChainKeepsInv
<1>11. CASE UNCHANGED vars
  BY <1>11, StutterKeepsInv
<1> QED
  BY <1>1, <1>2, <1>3, <1>4, <1>5, <1>6, <1>7, <1>8, <1>9, <1>10, <1>11 DEF Next

\* The invariant of a session holds whatever the client, the routes and the chain do.
THEOREM SessionCorrect == Spec => []SessionInv
<1>1. Init => SessionInv
  BY InitSessionInv
<1>2. SessionInv /\ [Next]_vars => SessionInv'
  BY NextKeepsInv
<1> QED
  BY <1>1, <1>2, PTL DEF Spec

\* A session that is not open has an empty token; in one that is open and complete no
\* request is under way, and callbacks leave its token alone.
LEMMA CompletedStays ==
  ASSUME SessionInv, [Next]_vars, token.stage = "completed"
  PROVE  UNCHANGED <<session, token>>
<1>1. Opened
  BY DEF SessionInv, SessionOK, NoToken
<1>2. wait.pc \notin {"asked", "named"}
  BY DEF SessionInv, WaitOK, Underway
<1>3. CASE OpenSession
  BY <1>1, <1>3, OpenShape
<1>4. ASSUME NEW error \in BOOLEAN, Callback(error)
      PROVE  UNCHANGED <<session, token>>
  BY <1>4 DEF Callback, Staged
<1>5. CASE Export \/ StartWait
  BY <1>5 DEF Export, StartWait
<1>6. CASE Poll
  BY <1>6 DEF Poll, Settled, End, Receive
<1>7. CASE FirstAnswer \/ SecondAnswer \/ RequestFailed
  BY <1>2, <1>7 DEF FirstAnswer, SecondAnswer, RequestFailed
<1>8. CASE Scan \/ Others \/ Tick
  BY <1>8, ChainShape, ChainLeavesClient DEF clientVars
<1>9. CASE UNCHANGED vars
  BY <1>9 DEF vars, clientVars
<1> QED
  BY <1>3, <1>4, <1>5, <1>6, <1>7, <1>8, <1>9 DEF Next

\* What a session tells its client stays true: registrations that it calls complete
\* happened, and only keys of registered agents are exported.
THEOREM RegistrationCorrect == Spec => []RegistrationWasReal
<1>1. SessionInv => RegistrationWasReal
  BY DEF SessionInv
<1> QED
  BY <1>1, SessionCorrect, PTL

\* An agent that a session calls deregistered never comes back, whoever registers its key.
THEOREM DeregistrationCorrect == Spec => []DeregistrationIsFinal
<1>1. SessionInv => DeregistrationIsFinal
  BY DEF SessionInv
<1> QED
  BY <1>1, SessionCorrect, PTL

\* A refresh that a session calls complete happened during it and moved the expiry on.
THEOREM RefreshCorrect == Spec => []RefreshHappened
<1>1. SessionInv => RefreshHappened
  BY DEF SessionInv
<1> QED
  BY <1>1, SessionCorrect, PTL

\* A wait that times out overlooked nothing that its last request could have seen.
THEOREM NothingMissed == Spec => []NoMissedCompletion
<1>1. SessionInv => NoMissedCompletion
  BY DEF SessionInv
<1> QED
  BY <1>1, SessionCorrect, PTL

\* No callback, poll or resumed wait takes a completed session back.
THEOREM CompletedCorrect == Spec => CompletedIsFinal
<1>1. SessionInv /\ [Next]_vars => [token.stage = "completed" => UNCHANGED <<session, token>>]_vars
  BY CompletedStays
<1> QED
  BY <1>1, SessionCorrect, PTL DEF Spec, CompletedIsFinal
=============================================================================
