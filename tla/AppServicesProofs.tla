--------------------------- MODULE AppServicesProofs ---------------------------
(***************************************************************************)
(* What the relay, the replay check, the quota and the demo agent promise, *)
(* for every number of processes, calls, requests, agents and instants and *)
(* every scene.                                                            *)
(***************************************************************************)
EXTENDS AppServices, FiniteSetTheorems, TLAPS

-----------------------------------------------------------------------------
(* The invariant.                                                          *)

RelayPhases == {"simulate", "agentId", "nullifier", "credentials", "send", "receipt", "counts"}
RequestPhases == {"verify", "replay", "facts", "sameHuman", "answered"}
OtherPhases == {"idle", "upstream", "increment", "expire", "ttl"}

CallSet ==
    [pc : RelayPhases \cup RequestPhases \cup OtherPhases, process : Processes \cup {"none"},
     request : Requests \cup {NoRequest}, counterKey : CounterKeys \cup {<<>>}, ttl : Nat,
     since : Nat, count : Nat, id : Int, demoId : Int, tx : Nat, same : BOOLEAN]

Transactions == [request : Requests, status : {"pending", "verified", "reverted"}]

ServicesTypeOK ==
    /\ scene \in Scenes
    /\ now \in Nat
    /\ setUntil \in [Requests -> Nat]
    /\ memorySetUntil \in [Processes -> [Requests -> Nat]]
    /\ counter \in [CounterKeys -> [count : Nat, until : Nat]]
    /\ nonces \in [Relays -> [RequestKeys -> Nat]]
    /\ txs \in Seq(Transactions)
    /\ call \in [Calls -> CallSet]
    /\ passed \in [Requests -> [Stores -> Nat]]

\* A number that was read for a key, or none: no other key has it, now or later.
NumberOf(id, key) ==
    /\ id <= issued
    /\ \A a \in ledger : a.number = id => a.key = key

\* A request carries on with what it found on its way.
CallOK(k) ==
    /\ k.pc \in RelayPhases => k.request \in Requests /\ k.request.route \in Relays
    /\ k.pc \in RequestPhases => k.request \in Requests
    /\ k.pc \in {"simulate", "verify", "replay"} => k.process \in Processes
    /\ k.pc \in {"increment", "expire", "ttl"} =>
          k.counterKey \in CounterKeys /\ k.process \in Processes
    /\ k.pc = "replay" => k.ttl > 0 /\ k.ttl + now >= k.request.ts + MaxAge
    /\ k.pc = "receipt" => k.tx \in DOMAIN txs /\ txs[k.tx].request = k.request
    /\ k.pc = "counts" => /\ k.request.nonce \in Nat
                          /\ k.request.nonce < nonces[k.request.route][k.request.key]
    /\ k.pc = "answered" /\ k.request.route \in Relays => k.count > k.request.nonce
    /\ k.pc # "answered" => ~ k.same
    /\ k.pc \in {"facts", "sameHuman"} =>
          /\ k.request.route = "agent-to-agent"
          /\ NumberOf(k.id, k.request.key)
          /\ NumberOf(k.demoId, DemoKey)

CallsOK == \A c \in Calls : CallOK(call[c])

Verified == {i \in DOMAIN txs : txs[i].status = "verified"}

VerifiedFor(relay, key) ==
    {i \in Verified : txs[i].request.route = relay /\ txs[i].request.key = key}

\* The nonce of a key is the number of its verifications, and ahead of each of them.
TxsOK ==
    /\ verificationCount = nonces
    /\ \A relay \in Relays, k \in RequestKeys :
          nonces[relay][k] = Cardinality(VerifiedFor(relay, k))
    /\ \A i \in Verified :
          LET request == txs[i].request IN
          /\ request.route \in Relays /\ request.nonce \in Nat
          /\ request.nonce < nonces[request.route][request.key]
    /\ \A i, j \in Verified :
          /\ txs[i].request.route = txs[j].request.route
          /\ txs[i].request.key = txs[j].request.key
          /\ txs[i].request.nonce = txs[j].request.nonce
          => i = j

Until(s, r) == IF s = "shared" THEN setUntil[r] ELSE memorySetUntil[s][r]

\* A store that let a request pass holds it for as long as its timestamp is good.
ReplayOK ==
    \A r \in Requests, s \in Stores :
       /\ passed[r][s] <= 1
       /\ passed[r][s] > 0 => Until(s, r) >= r.ts + MaxAge \/ now >= r.ts + MaxAge

ServicesInv ==
    /\ ServicesTypeOK
    /\ Chain!LedgerOK
    /\ CallsOK
    /\ TxsOK
    /\ ReplayOK

-----------------------------------------------------------------------------
(* The ledger of the registry stays in order.                              *)

\* The empty ledger is in order.
LEMMA InitLedgerOK ==
  ASSUME MaxIssued \in Nat, Chain!Init
  PROVE  Chain!LedgerOK
BY DEF Chain!Init, Chain!LedgerOK

\* An agent is admitted under the next number and a key that no live agent has.
LEMMA AdmitLedgerOK ==
  ASSUME MaxIssued \in Nat, Chain!LedgerOK, NEW h \in Humans, NEW k \in AgentKeySet,
         Chain!Admit(h, k)
  PROVE  Chain!LedgerOK'
BY DEF Chain!Admit, Chain!LedgerOK, Chain!Entries

\* A removal leaves the rest as it is.
LEMMA RemoveLedgerOK ==
  ASSUME Chain!LedgerOK, NEW a, Chain!Remove(a)
  PROVE  Chain!LedgerOK'
BY DEF Chain!Remove, Chain!LedgerOK

\* What leaves the agents and the count alone leaves them in order.
LEMMA StutterLedgerOK ==
  ASSUME Chain!LedgerOK, UNCHANGED <<ledger, issued>>
  PROVE  Chain!LedgerOK'
BY DEF Chain!LedgerOK

-----------------------------------------------------------------------------
(* Types.                                                                  *)

\* The bounds are natural numbers, and a request has a time.
LEMMA Bounds ==
    /\ MaxIssued \in Nat /\ MaxAge \in Nat /\ Window \in Nat
    /\ ReplayKeys = Requests /\ CounterKeys = ProxyRoutes \X Clients
    /\ "shared" \notin Processes
    /\ \A r \in Requests : /\ r.ts \in Nat /\ r.ts + MaxAge \in Nat
                           /\ r.route \in Relays \cup Demos /\ r.key \in RequestKeys
BY ServicesAssumption DEF RequestKeys

\* What a scene is made of.
LEMMA Chosen ==
  ASSUME scene \in Scenes
  PROVE  /\ scene.calls \subseteq Calls /\ scene.processes \subseteq Processes
         /\ scene.requests \subseteq Requests /\ scene.keys \subseteq AgentKeySet
BY ServicesAssumption

\* The parts of a call.
LEMMA CallShape ==
  ASSUME ServicesInv, NEW c \in Calls
  PROVE  /\ call[c] \in CallSet /\ CallOK(call[c])
         /\ call[c].process \in Processes \cup {"none"}
         /\ call[c].request \in Requests \cup {NoRequest}
BY DEF ServicesInv, ServicesTypeOK, CallsOK, CallSet

\* A call before its first request.
LEMMA IdleShape == Idle \in CallSet /\ Idle.pc = "idle" /\ ~ Idle.same
BY DEF Idle, CallSet, OtherPhases

-----------------------------------------------------------------------------
(* What was so stays said.                                                 *)

\* Numbers, nonces and transactions are only added, and time goes on.
Later ==
    /\ now \in Nat /\ now' \in Nat /\ now' >= now
    /\ issued \in Nat /\ issued' \in Nat /\ issued' >= issued
    /\ \A a \in ledger' : a \in ledger \/ a.number > issued
    /\ \A i \in DOMAIN txs : i \in DOMAIN txs' /\ txs'[i].request = txs[i].request
    /\ \A relay \in Relays, k \in RequestKeys :
          /\ nonces[relay][k] \in Nat /\ nonces'[relay][k] \in Nat
          /\ nonces'[relay][k] >= nonces[relay][k]

\* When the chain and the clock stand still.
LEMMA NothingLater ==
  ASSUME ServicesInv, UNCHANGED <<now, issued, ledger, txs, nonces>>
  PROVE  Later
BY DEF ServicesInv, ServicesTypeOK, Chain!LedgerOK, Later

\* A number that was read for a key stays the key's.
LEMMA NumberLater ==
  ASSUME Later, NEW id \in Int, NEW key, NumberOf(id, key)
  PROVE  NumberOf(id, key)'
<1>1. id <= issued'
  BY DEF Later, NumberOf
<1>2. ASSUME NEW a \in ledger', a.number = id
      PROVE  a.key = key
  BY <1>2 DEF Later, NumberOf
<1> QED
  BY <1>1, <1>2 DEF NumberOf

\* A request keeps what it found.
LEMMA CallOKLater ==
  ASSUME Later, NEW k \in CallSet, CallOK(k)
  PROVE  CallOK(k)'
<1>1. k.pc = "replay" => k.ttl > 0 /\ k.ttl + now' >= k.request.ts + MaxAge
  <2> SUFFICES ASSUME k.pc = "replay"
               PROVE  k.ttl > 0 /\ k.ttl + now' >= k.request.ts + MaxAge
    OBVIOUS
  <2>1. k.request \in Requests /\ k.ttl > 0 /\ k.ttl + now >= k.request.ts + MaxAge
    BY DEF CallOK, RequestPhases
  <2>2. k.request.ts + MaxAge \in Nat /\ k.ttl \in Nat
    BY <2>1, Bounds DEF CallSet
  <2> QED
    BY <2>1, <2>2 DEF Later
<1>2. k.pc = "receipt" => k.tx \in DOMAIN txs' /\ txs'[k.tx].request = k.request
  BY DEF CallOK, Later
<1>3. k.pc = "counts" => k.request.nonce < nonces'[k.request.route][k.request.key]
  <2> SUFFICES ASSUME k.pc = "counts"
               PROVE  k.request.nonce < nonces'[k.request.route][k.request.key]
    OBVIOUS
  <2>1. /\ k.request.route \in Relays /\ k.request.key \in RequestKeys
        /\ k.request.nonce \in Nat
        /\ k.request.nonce < nonces[k.request.route][k.request.key]
    BY Bounds DEF CallOK, RelayPhases
  <2> QED
    BY <2>1 DEF Later
<1>4. k.pc \in {"facts", "sameHuman"} =>
         NumberOf(k.id, k.request.key)' /\ NumberOf(k.demoId, DemoKey)'
  BY NumberLater DEF CallOK, CallSet
<1> QED
  BY <1>1, <1>2, <1>3, <1>4 DEF CallOK

\* The number that the registry tells for a key is that of its agent, now and later.
LEMMA IdShape ==
  ASSUME Chain!LedgerOK, NEW key
  PROVE  IdOf(key) \in Int /\ NumberOf(IdOf(key), key)
<1>1. /\ issued \in Nat
      /\ \A a \in ledger : a.number \in Nat /\ a.number > 0 /\ a.number <= issued
      /\ \A a, b \in ledger : a.number = b.number => a = b
  BY Bounds DEF Chain!LedgerOK, Chain!Entries
<1>2. CASE \E a \in ledger : a.key = key
  <2> DEFINE a == CHOOSE a \in ledger : a.key = key
  <2>1. a \in ledger /\ a.key = key
    BY <1>2
  <2>2. IdOf(key) = a.number
    BY <1>2 DEF IdOf
  <2> HIDE DEF a
  <2> QED
    BY <1>1, <2>1, <2>2 DEF NumberOf
<1>3. CASE ~ \E a \in ledger : a.key = key
  <2>1. IdOf(key) = 0
    BY <1>3 DEF IdOf
  <2> QED
    BY <1>1, <2>1 DEF NumberOf
<1> QED
  BY <1>2, <1>3

-----------------------------------------------------------------------------
(* One request moves.                                                      *)

\* The request gets a state in which what it knows is so.
Settled(c) == \E new \in CallSet : CallOK(new)' /\ call' = [call EXCEPT ![c] = new]

\* It is enough that it was so before the step.
LEMMA SettlesNow ==
  ASSUME Later, NEW c, NEW new \in CallSet, CallOK(new), call' = [call EXCEPT ![c] = new]
  PROVE  Settled(c)
BY CallOKLater DEF Settled

\* A request that ends knows nothing.
LEMMA FinishSettles ==
  ASSUME Later, NEW c, Finish(c)
  PROVE  Settled(c)
<1>1. CallOK(Idle)
  BY IdleShape DEF CallOK, RelayPhases, RequestPhases
<1> QED
  BY <1>1, IdleShape, SettlesNow DEF Finish

\* On to a phase that asks nothing of the request.
LEMMA GoSettles ==
  ASSUME Later, NEW c \in Calls, NEW k \in CallSet, k = call[c], CallOK(k), k.pc # "answered",
         NEW pc \in OtherPhases \cup RelayPhases,
         pc \notin {"simulate", "receipt", "counts", "increment", "expire", "ttl"},
         pc \in RelayPhases => k.request \in Requests /\ k.request.route \in Relays,
         Go(c, pc)
  PROVE  Settled(c)
<1> DEFINE new == [k EXCEPT !.pc = pc]
<1>1. new \in CallSet /\ new.pc = pc /\ new.request = k.request /\ new.same = k.same
  BY DEF CallSet
<1>2. call' = [call EXCEPT ![c] = new]
  BY DEF Go
<1> HIDE DEF new
<1>3. CallOK(new)
  BY <1>1 DEF CallOK, OtherPhases, RelayPhases, RequestPhases
<1> QED
  BY <1>1, <1>2, <1>3, SettlesNow

\* One request that settles leaves the others as they were.
LEMMA SettledKeepsCalls ==
  ASSUME ServicesInv, Later, NEW c \in Calls, Settled(c)
  PROVE  call' \in [Calls -> CallSet] /\ CallsOK'
<1>1. PICK new \in CallSet : CallOK(new)' /\ call' = [call EXCEPT ![c] = new]
  BY DEF Settled
<1>2. call \in [Calls -> CallSet]
  BY DEF ServicesInv, ServicesTypeOK
<1>3. call' \in [Calls -> CallSet]
  BY <1>1, <1>2
<1>4. ASSUME NEW d \in Calls
      PROVE  CallOK(call[d])'
  <2>1. CASE d = c
    BY <1>1, <1>2, <2>1
  <2>2. CASE d # c
    <3>1. PICK k \in CallSet : k = call[d] /\ CallOK(k)
      BY CallShape
    <3>2. k = call'[d] /\ CallOK(k)'
      BY <1>1, <1>2, <2>2, <3>1, CallOKLater
    <3> QED
      BY <3>2
  <2> QED
    BY <2>1, <2>2
<1> QED
  BY <1>3, <1>4 DEF CallsOK

\* The transactions are as good as they were.
LEMMA TxsStay ==
  ASSUME TxsOK, UNCHANGED <<nonces, verificationCount, txs>>
  PROVE  TxsOK'
BY DEF TxsOK, Verified, VerifiedFor

\* The stores hold what they held.
LEMMA ReplayStays ==
  ASSUME ReplayOK, UNCHANGED <<now, setUntil, memorySetUntil, passed>>
  PROVE  ReplayOK'
BY DEF ReplayOK, Until

\* A step of one request that leaves the chain and the replay keys alone.
LEMMA CallStepKeepsInv ==
  ASSUME ServicesInv, NEW c \in Calls, Settled(c),
         UNCHANGED <<scene, now, setUntil, memorySetUntil, chainVars, passed>>,
         counter' \in [CounterKeys -> [count : Nat, until : Nat]]
  PROVE  ServicesInv'
<1>1. UNCHANGED <<issued, ledger, txs, nonces, verificationCount>>
  BY DEF chainVars
<1>2. Later
  BY <1>1, NothingLater
<1>3. call' \in [Calls -> CallSet] /\ CallsOK'
  BY <1>2, SettledKeepsCalls
<1>4. TxsOK' /\ ReplayOK' /\ Chain!LedgerOK'
  BY <1>1, TxsStay, ReplayStays, StutterLedgerOK DEF ServicesInv
<1>5. ServicesTypeOK'
  BY <1>1, <1>3 DEF ServicesInv, ServicesTypeOK
<1> QED
  BY <1>3, <1>4, <1>5 DEF ServicesInv

-----------------------------------------------------------------------------
(* The way to the replay check.                                            *)

\* A request that begins is one that was signed, in a process of the app.
LEMMA ReceiveKeepsInv ==
  ASSUME ServicesInv, UNCHANGED scene, NEW c \in Calls, NEW p \in Processes, NEW r \in Requests,
         Receive(c, p, r)
  PROVE  ServicesInv'
<1> DEFINE pc == IF r.route \in Relays THEN "simulate" ELSE "verify"
           new == [Idle EXCEPT !.pc = pc, !.process = p, !.request = r]
<1>1. call' = [call EXCEPT ![c] = new]
  BY DEF Receive, Begin
<1>2. pc \in {"simulate", "verify"} /\ (pc = "simulate" => r.route \in Relays)
  OBVIOUS
<1> HIDE DEF pc
<1>3. /\ new \in CallSet /\ new.pc = pc /\ new.request = r /\ new.process = p /\ ~ new.same
  BY <1>2, IdleShape DEF CallSet, Idle, RelayPhases, RequestPhases
<1> HIDE DEF new
<1>4. CallOK(new)
  BY <1>2, <1>3 DEF CallOK, RelayPhases, RequestPhases
<1>5. /\ UNCHANGED <<storeVars, chainVars, processVars, tokens, historyVars>>
  BY DEF Receive
<1>6. Settled(c)
  BY <1>1, <1>3, <1>4, <1>5, NothingLater, SettlesNow DEF storeVars, chainVars
<1> QED
  BY <1>5, <1>6, CallStepKeepsInv DEF storeVars, historyVars, ServicesInv, ServicesTypeOK

\* The lifetime asked for reaches as far as the timestamp is good.
LEMMA TtlReaches ==
  ASSUME ServicesInv, NEW r \in Requests
  PROVE  ReplayTtl(r) \in Nat /\ ReplayTtl(r) > 0 /\ ReplayTtl(r) + now >= r.ts + MaxAge
<1>1. now \in Nat /\ r.ts \in Nat /\ MaxAge \in Nat
  BY Bounds DEF ServicesInv, ServicesTypeOK
<1>2. CASE r.ts + MaxAge > now
  BY <1>1, <1>2 DEF ReplayTtl
<1>3. CASE ~ (r.ts + MaxAge > now)
  BY <1>1, <1>3 DEF ReplayTtl
<1> QED
  BY <1>2, <1>3

\* An accepted request asks for a lifetime that reaches as far as its timestamp is good.
LEMMA AcceptedKeepsInv ==
  ASSUME ServicesInv, UNCHANGED scene, NEW c \in Calls, Accepted(c)
  PROVE  ServicesInv'
<1>1. PICK k \in CallSet : k = call[c] /\ CallOK(k)
  BY CallShape
<1>2. k.pc \in {"simulate", "verify"} /\ CheckReplay(c)
      /\ UNCHANGED <<storeVars, chainVars, processVars, tokens, historyVars>>
  BY <1>1 DEF Accepted
<1>3. k.request \in Requests /\ k.process \in Processes /\ ~ k.same
  BY <1>1, <1>2 DEF CallOK, RelayPhases, RequestPhases
<1>4. PICK ttl \in Nat : ttl = ReplayTtl(k.request) /\ ttl > 0
                         /\ ttl + now >= k.request.ts + MaxAge
  BY <1>3, TtlReaches
<1> DEFINE new == [k EXCEPT !.pc = "replay", !.ttl = ttl]
<1>5. /\ new \in CallSet /\ new.pc = "replay" /\ new.ttl = ttl /\ new.request = k.request
      /\ new.same = k.same /\ new.process = k.process
  BY DEF CallSet, RequestPhases
<1>6. call' = [call EXCEPT ![c] = new]
  BY <1>1, <1>2, <1>4 DEF CheckReplay
<1> HIDE DEF new
<1>7. CallOK(new)
  BY <1>3, <1>4, <1>5 DEF CallOK, RelayPhases, RequestPhases
<1>8. Settled(c)
  BY <1>2, <1>5, <1>6, <1>7, NothingLater, SettlesNow DEF storeVars, chainVars
<1> QED
  BY <1>2, <1>8, CallStepKeepsInv DEF storeVars, historyVars, ServicesInv, ServicesTypeOK

\* A request that ends, or goes on to a phase that asks nothing of it.
LEMMA PlainStepKeepsInv ==
  ASSUME ServicesInv, UNCHANGED scene, NEW c \in Calls,
         \/ CallFailed(c) \/ AgentIdAnswered(c) \/ NullifierAnswered(c)
         \/ CredentialsAnswered(c) \/ ReceiptLate(c) \/ UpstreamAnswered(c)
  PROVE  ServicesInv'
<1>1. PICK k \in CallSet : k = call[c] /\ CallOK(k)
  BY CallShape
<1>2. UNCHANGED <<storeVars, chainVars, passed>>
  BY DEF CallFailed, AgentIdAnswered, NullifierAnswered, CredentialsAnswered, ReceiptLate,
         UpstreamAnswered, historyVars
<1>3. Later
  BY <1>2, NothingLater DEF storeVars, chainVars
<1>4. Settled(c)
  <2>1. CASE Finish(c)
    BY <1>3, <2>1, FinishSettles
  <2>2. CASE k.pc = "nullifier" /\ Go(c, "credentials")
    BY <1>1, <1>3, <2>2, GoSettles DEF CallOK, RelayPhases
  <2>3. CASE k.pc = "credentials" /\ Go(c, "send")
    BY <1>1, <1>3, <2>3, GoSettles DEF CallOK, RelayPhases
  <2>4. CASE AgentIdAnswered(c)
    <3>1. PICK id \in Int : id = IdOf(k.request.key)
      BY IdShape DEF ServicesInv
    <3> DEFINE new == [k EXCEPT !.id = id, !.pc = "nullifier"]
    <3>2. k.pc = "agentId" /\ call' = [call EXCEPT ![c] = new]
      BY <1>1, <2>4, <3>1 DEF AgentIdAnswered
    <3>3. /\ new \in CallSet /\ new.pc = "nullifier" /\ new.request = k.request
          /\ new.same = k.same
      BY DEF CallSet, RelayPhases
    <3> HIDE DEF new
    <3>4. CallOK(new)
      BY <1>1, <3>2, <3>3 DEF CallOK, RelayPhases, RequestPhases
    <3> QED
      BY <1>3, <3>2, <3>3, <3>4, SettlesNow
  <2> QED
    BY <1>1, <2>1, <2>2, <2>3, <2>4
       DEF CallFailed, NullifierAnswered, CredentialsAnswered, ReceiptLate, UpstreamAnswered
<1> QED
  BY <1>2, <1>4, CallStepKeepsInv DEF storeVars, ServicesInv, ServicesTypeOK

-----------------------------------------------------------------------------
(* The replay check.                                                       *)

\* A store that is asked to set a request, and lets it pass if it did not hold it; the
\* others may be asked beside it.
LEMMA SetKeepsReplay ==
  ASSUME ServicesInv, UNCHANGED now, NEW q \in Requests, NEW store \in Stores,
         NEW ttl \in Nat, ttl > 0, ttl + now >= q.ts + MaxAge,
         \A s \in Stores, r \in Requests : Until(s, r)' = Until(s, r) \/ Until(s, r) = 0,
         Until(store, q)' = IF Until(store, q) = 0 THEN now + ttl ELSE Until(store, q),
         \/ passed' = passed
         \/ /\ Until(store, q) = 0 /\ now < q.ts + MaxAge
            /\ passed' = [passed EXCEPT ![q][store] = @ + 1]
  PROVE  passed' \in [Requests -> [Stores -> Nat]] /\ ReplayOK'
<1>1. /\ passed \in [Requests -> [Stores -> Nat]] /\ now \in Nat /\ now' = now
  BY DEF ServicesInv, ServicesTypeOK
<1>2. \A r \in Requests : r.ts + MaxAge \in Nat
  BY Bounds
<1>3. \A r \in Requests, s \in Stores :
         /\ passed[r][s] <= 1 /\ passed[r][s] \in Nat
         /\ passed[r][s] > 0 => Until(s, r) >= r.ts + MaxAge \/ now >= r.ts + MaxAge
  BY <1>1 DEF ServicesInv, ReplayOK
<1>4. \A r \in Requests, s \in Stores :
         passed[r][s] > 0 => Until(s, r)' >= r.ts + MaxAge \/ now >= r.ts + MaxAge
  <2> SUFFICES ASSUME NEW r \in Requests, NEW s \in Stores, passed[r][s] > 0
               PROVE  Until(s, r)' >= r.ts + MaxAge \/ now >= r.ts + MaxAge
    OBVIOUS
  <2>1. CASE Until(s, r)' = Until(s, r)
    BY <1>3, <2>1
  <2>2. CASE Until(s, r) = 0
    BY <1>1, <1>2, <1>3, <2>2
  <2> QED
    BY <2>1, <2>2
<1>5. CASE passed' = passed
  BY <1>1, <1>3, <1>4, <1>5 DEF ReplayOK
<1>6. CASE /\ Until(store, q) = 0 /\ now < q.ts + MaxAge
           /\ passed' = [passed EXCEPT ![q][store] = @ + 1]
  <2>1. passed[q][store] = 0
    BY <1>1, <1>2, <1>3, <1>6
  <2>2. /\ passed' \in [Requests -> [Stores -> Nat]]
        /\ passed'[q][store] = 1
        /\ \A r \in Requests, s \in Stores : r # q \/ s # store => passed'[r][s] = passed[r][s]
    BY <1>1, <1>6, <2>1
  <2>3. Until(store, q)' >= q.ts + MaxAge
    <3>1. now + ttl >= q.ts + MaxAge
      BY <1>1, <1>2
    <3> QED
      BY <1>6, <3>1
  <2>4. ASSUME NEW r \in Requests, NEW s \in Stores
        PROVE  /\ passed'[r][s] <= 1
               /\ passed'[r][s] > 0 => Until(s, r)' >= r.ts + MaxAge \/ now >= r.ts + MaxAge
    <3>1. CASE r = q /\ s = store
      BY <2>2, <2>3, <3>1
    <3>2. CASE r # q \/ s # store
      BY <1>3, <1>4, <2>2, <3>2
    <3> QED
      BY <3>1, <3>2
  <2> QED
    BY <1>1, <2>2, <2>4 DEF ReplayOK
<1> QED
  BY <1>5, <1>6

\* What follows the replay check asks nothing but that the demo agent reads afresh.
LEMMA AfterReplaySettles ==
  ASSUME ServicesInv, Later, NEW c \in Calls, call[c].pc = "replay", AfterReplay(c) \/ Finish(c)
  PROVE  Settled(c)
<1>1. PICK k \in CallSet : k = call[c] /\ CallOK(k)
  BY CallShape
<1>2. k.pc = "replay" /\ k.request \in Requests /\ ~ k.same
  BY <1>1 DEF CallOK, RequestPhases
<1>3. CASE Finish(c)
  BY <1>3, FinishSettles
<1>4. CASE RelayPassed(c)
  BY <1>1, <1>2, <1>4, GoSettles DEF RelayPassed, RelayPhases
<1>5. CASE ChatPassed(c)
  BY <1>1, <1>2, <1>5, GoSettles DEF ChatPassed, OtherPhases, RelayPhases
<1>6. CASE DemoAgentPassed(c)
  <2>0. PICK unread \in Int : unread = Unread
    BY DEF Unread
  <2> DEFINE new == [k EXCEPT !.pc = "facts", !.id = unread, !.demoId = unread]
  <2>1. k.request.route = "agent-to-agent" /\ call' = [call EXCEPT ![c] = new]
    BY <1>1, <1>6, <2>0 DEF DemoAgentPassed
  <2>2. /\ new \in CallSet /\ new.pc = "facts" /\ new.id = unread /\ new.demoId = unread
        /\ new.request = k.request /\ new.same = k.same
    BY DEF CallSet, RequestPhases
  <2>3. \A key : NumberOf(unread, key)
    BY <2>0 DEF ServicesInv, Chain!LedgerOK, Chain!Entries, NumberOf, Unread
  <2> HIDE DEF new
  <2>4. CallOK(new)
    BY <1>2, <2>1, <2>2, <2>3 DEF CallOK, RelayPhases, RequestPhases, Relays
  <2> QED
    BY <2>1, <2>2, <2>4, SettlesNow
<1> QED
  BY <1>3, <1>4, <1>5, <1>6 DEF AfterReplay, VerifyPassed, CensusPassed

\* A step of one request that asks the stores whether they hold it.
LEMMA ReplayStepKeepsInv ==
  ASSUME ServicesInv, NEW c \in Calls, Settled(c),
         UNCHANGED <<scene, now, counter, chainVars>>,
         setUntil' \in [Requests -> Nat],
         memorySetUntil' \in [Processes -> [Requests -> Nat]],
         passed' \in [Requests -> [Stores -> Nat]], ReplayOK'
  PROVE  ServicesInv'
<1>1. UNCHANGED <<issued, ledger, txs, nonces, verificationCount>>
  BY DEF chainVars
<1>2. Later
  BY <1>1, NothingLater
<1>3. call' \in [Calls -> CallSet] /\ CallsOK'
  BY <1>2, SettledKeepsCalls
<1>4. TxsOK' /\ Chain!LedgerOK'
  BY <1>1, TxsStay, StutterLedgerOK DEF ServicesInv
<1>5. ServicesTypeOK'
  BY <1>1, <1>3 DEF ServicesInv, ServicesTypeOK
<1> QED
  BY <1>3, <1>4, <1>5 DEF ServicesInv

\* A command to the shared store sets a request that it does not hold.
LEMMA SharedSetShape ==
  ASSUME ServicesInv, NEW q \in Requests, NEW ttl \in Nat, SharedSet(q, ttl)
  PROVE  /\ setUntil' \in [Requests -> Nat]
         /\ setUntil'[q] = IF setUntil[q] = 0 THEN now + ttl ELSE setUntil[q]
         /\ \A r \in Requests : setUntil'[r] = setUntil[r] \/ setUntil[r] = 0
<1>1. setUntil \in [Requests -> Nat] /\ now + ttl \in Nat
  BY DEF ServicesInv, ServicesTypeOK
<1>2. setUntil' = [setUntil EXCEPT ![q] = IF setUntil[q] = 0 THEN now + ttl ELSE setUntil[q]]
  BY DEF SharedSet
<1> QED
  BY <1>1, <1>2

\* So does the memory of a process.
LEMMA MemorySetShape ==
  ASSUME ServicesInv, NEW p \in Processes, NEW q \in Requests, NEW ttl \in Nat,
         MemorySet(p, q, ttl)
  PROVE  /\ memorySetUntil' \in [Processes -> [Requests -> Nat]]
         /\ memorySetUntil'[p][q] =
               IF memorySetUntil[p][q] = 0 THEN now + ttl ELSE memorySetUntil[p][q]
         /\ \A s \in Processes, r \in Requests :
               memorySetUntil'[s][r] = memorySetUntil[s][r] \/ memorySetUntil[s][r] = 0
<1>1. memorySetUntil \in [Processes -> [Requests -> Nat]] /\ now + ttl \in Nat
  BY DEF ServicesInv, ServicesTypeOK
<1>2. memorySetUntil' = [memorySetUntil EXCEPT ![p][q] =
         IF memorySetUntil[p][q] = 0 THEN now + ttl ELSE memorySetUntil[p][q]]
  BY DEF MemorySet
<1> QED
  BY <1>1, <1>2

\* The shared store sets the request and lets it pass, or holds it already.
LEMMA ReplayAnsweredKeepsInv ==
  ASSUME ServicesInv, UNCHANGED scene, NEW c \in Calls, ReplayAnswered(c)
  PROVE  ServicesInv'
<1>1. PICK k \in CallSet : k = call[c] /\ CallOK(k)
  BY CallShape
<1>2. /\ k.pc = "replay" /\ k.request \in Requests /\ k.ttl \in Nat /\ k.ttl > 0
      /\ k.ttl + now >= k.request.ts + MaxAge
  BY <1>1 DEF ReplayAnswered, CallOK, CallSet, RequestPhases
<1> DEFINE q == k.request
<1>3. /\ SharedSet(q, k.ttl)
      /\ UNCHANGED <<now, counter, memorySetUntil, memoryCounter, chainVars, tokens>>
      /\ JudgeReplay(c, "shared", setUntil[q] = 0)
  BY <1>1 DEF ReplayAnswered
<1>4. /\ AfterReplay(c) \/ Finish(c)
      /\ \/ passed' = passed
         \/ /\ setUntil[q] = 0 /\ now < q.ts + MaxAge
            /\ passed' = [passed EXCEPT ![q]["shared"] = @ + 1]
  BY <1>1, <1>3 DEF JudgeReplay, historyVars
<1>5. /\ setUntil' \in [Requests -> Nat]
      /\ setUntil'[q] = IF setUntil[q] = 0 THEN now + k.ttl ELSE setUntil[q]
      /\ \A r \in Requests : setUntil'[r] = setUntil[r] \/ setUntil[r] = 0
  BY <1>2, <1>3, SharedSetShape
<1>6. /\ Until("shared", q)' = IF Until("shared", q) = 0 THEN now + k.ttl ELSE Until("shared", q)
      /\ \A s \in Stores, r \in Requests : Until(s, r)' = Until(s, r) \/ Until(s, r) = 0
      /\ Until("shared", q) = setUntil[q]
  BY <1>3, <1>5 DEF Until
<1>7. passed' \in [Requests -> [Stores -> Nat]] /\ ReplayOK'
  BY <1>2, <1>3, <1>4, <1>6, SetKeepsReplay DEF Stores
<1>8. Settled(c)
  BY <1>1, <1>2, <1>3, <1>4, NothingLater, AfterReplaySettles DEF chainVars
<1> QED
  BY <1>3, <1>5, <1>7, <1>8, ReplayStepKeepsInv DEF ServicesInv, ServicesTypeOK

\* When the command is lost the memory of the process decides, and the shared store may
\* have set the request all the same.
LEMMA ReplayLostKeepsInv ==
  ASSUME ServicesInv, UNCHANGED scene, NEW c \in Calls, ReplayLost(c)
  PROVE  ServicesInv'
<1>1. PICK k \in CallSet : k = call[c] /\ CallOK(k)
  BY CallShape
<1>2. /\ k.pc = "replay" /\ k.request \in Requests /\ k.ttl \in Nat /\ k.ttl > 0
      /\ k.ttl + now >= k.request.ts + MaxAge
  BY <1>1 DEF ReplayLost, CallOK, CallSet, RequestPhases
<1> DEFINE q == k.request
           p == k.process
<1>3. /\ SharedSet(q, k.ttl) \/ UNCHANGED setUntil
      /\ MemorySet(p, q, k.ttl)
      /\ JudgeReplay(c, p, memorySetUntil[p][q] = 0)
      /\ UNCHANGED <<now, counter, memoryCounter, chainVars, tokens>>
  BY <1>1 DEF ReplayLost, UseMemory
<1>4. p \in Processes
  BY <1>1, <1>2 DEF CallOK
<1>5. /\ AfterReplay(c) \/ Finish(c)
      /\ \/ passed' = passed
         \/ /\ memorySetUntil[p][q] = 0 /\ now < q.ts + MaxAge
            /\ passed' = [passed EXCEPT ![q][p] = @ + 1]
  BY <1>1, <1>3 DEF JudgeReplay, historyVars
<1>6. /\ memorySetUntil' \in [Processes -> [Requests -> Nat]]
      /\ memorySetUntil'[p][q] =
            IF memorySetUntil[p][q] = 0 THEN now + k.ttl ELSE memorySetUntil[p][q]
      /\ \A s \in Processes, r \in Requests :
            memorySetUntil'[s][r] = memorySetUntil[s][r] \/ memorySetUntil[s][r] = 0
  BY <1>2, <1>3, <1>4, MemorySetShape
<1>7. /\ setUntil' \in [Requests -> Nat]
      /\ \A r \in Requests : setUntil'[r] = setUntil[r] \/ setUntil[r] = 0
  BY <1>2, <1>3, SharedSetShape DEF ServicesInv, ServicesTypeOK
<1>8. p # "shared"
  BY <1>4, Bounds
<1>9. /\ Until(p, q)' = IF Until(p, q) = 0 THEN now + k.ttl ELSE Until(p, q)
      /\ \A s \in Stores, r \in Requests : Until(s, r)' = Until(s, r) \/ Until(s, r) = 0
      /\ Until(p, q) = memorySetUntil[p][q]
  BY <1>6, <1>7, <1>8 DEF Until, Stores
<1>10. passed' \in [Requests -> [Stores -> Nat]] /\ ReplayOK'
  BY <1>2, <1>3, <1>4, <1>5, <1>9, SetKeepsReplay DEF Stores
<1>11. Settled(c)
  BY <1>1, <1>2, <1>3, <1>5, NothingLater, AfterReplaySettles DEF chainVars
<1> QED
  BY <1>3, <1>6, <1>7, <1>10, <1>11, ReplayStepKeepsInv DEF ServicesInv, ServicesTypeOK

-----------------------------------------------------------------------------
(* The relay's transactions.                                               *)

\* What is known of a transaction.
LEMMA TxShape ==
  ASSUME ServicesInv
  PROVE  \A i \in DOMAIN txs : txs[i] \in Transactions /\ txs[i].request \in Requests
<1>1. \A i \in DOMAIN txs : txs[i] \in Transactions
  BY DEF ServicesInv, ServicesTypeOK
<1> QED
  BY <1>1 DEF Transactions

\* A transaction gets its outcome, and the others stay as they are.
LEMMA OutcomeShape ==
  ASSUME ServicesInv, NEW i \in DOMAIN txs, NEW s \in {"verified", "reverted"},
         txs' = [txs EXCEPT ![i].status = s]
  PROVE  /\ txs' \in Seq(Transactions) /\ DOMAIN txs' = DOMAIN txs /\ txs'[i].status = s
         /\ \A j \in DOMAIN txs : txs'[j].request = txs[j].request
         /\ \A j \in DOMAIN txs : j # i => txs'[j] = txs[j]
<1>1. txs \in Seq(Transactions)
  BY DEF ServicesInv, ServicesTypeOK
<1>2. PICK old \in Transactions : old = txs[i]
  BY TxShape
<1>3. PICK t \in Transactions : /\ t = [old EXCEPT !.status = s]
                               /\ t.request = txs[i].request /\ t.status = s
  BY <1>2 DEF Transactions
<1>4. txs' = [txs EXCEPT ![i] = t]
  BY <1>2, <1>3
<1>5. txs' \in Seq(Transactions) /\ DOMAIN txs' = DOMAIN txs
  BY <1>1, <1>4
<1>6. txs'[i] = t /\ \A j \in DOMAIN txs : j # i => txs'[j] = txs[j]
  BY <1>1, <1>4
<1> QED
  BY <1>3, <1>5, <1>6

\* As long as no more transactions are verified, nothing is counted.
LEMMA SameVerified ==
  ASSUME TxsOK, UNCHANGED <<nonces, verificationCount>>, Verified' = Verified,
         \A i \in Verified : txs'[i] = txs[i]
  PROVE  TxsOK'
<1>1. \A relay, key : VerifiedFor(relay, key)' = VerifiedFor(relay, key)
  BY DEF VerifiedFor
<1>2. \A relay \in Relays, k \in RequestKeys :
         nonces'[relay][k] = Cardinality(VerifiedFor(relay, k)')
  BY <1>1 DEF TxsOK
<1> QED
  BY <1>2 DEF TxsOK

\* A transaction that is sent is pending, after the others.
LEMMA SendKeepsInv ==
  ASSUME ServicesInv, UNCHANGED scene, NEW c \in Calls, Send(c)
  PROVE  ServicesInv'
<1>1. PICK k \in CallSet : k = call[c] /\ CallOK(k)
  BY CallShape
<1>2. /\ k.pc = "send" /\ k.request \in Requests /\ k.request.route \in Relays /\ ~ k.same
  BY <1>1 DEF Send, CallOK, RelayPhases
<1>3. /\ txs' = Append(txs, [request |-> k.request, status |-> "pending"])
      /\ UNCHANGED <<now, setUntil, counter, memorySetUntil, ledger, issued, nonces,
                     verificationCount, passed>>
      /\ \/ call' = [call EXCEPT ![c].pc = "receipt", ![c].tx = Len(txs')]
         \/ Finish(c)
  BY <1>1 DEF Send, storeVars, historyVars
<1>4. PICK n \in Nat : /\ n = Len(txs') /\ DOMAIN txs = 1 .. n - 1 /\ DOMAIN txs' = 1 .. n
                       /\ txs' \in Seq(Transactions) /\ n > 0
                       /\ \A i \in 1 .. n - 1 : txs'[i] = txs[i]
                       /\ txs'[n] = [request |-> k.request, status |-> "pending"]
  <2>1. txs \in Seq(Transactions)
    BY DEF ServicesInv, ServicesTypeOK
  <2>2. [request |-> k.request, status |-> "pending"] \in Transactions
    BY <1>2 DEF Transactions
  <2> QED
    BY <1>3, <2>1, <2>2
<1>5. Later
  BY <1>3, <1>4 DEF Later, ServicesInv, ServicesTypeOK, Chain!LedgerOK
<1>6. Settled(c)
  <2>1. CASE Finish(c)
    BY <1>5, <2>1, FinishSettles
  <2>2. CASE call' = [call EXCEPT ![c].pc = "receipt", ![c].tx = Len(txs')]
    <3> DEFINE new == [k EXCEPT !.pc = "receipt", !.tx = n]
    <3>1. /\ new \in CallSet /\ new.pc = "receipt" /\ new.tx = n /\ new.request = k.request
          /\ new.same = k.same
      BY DEF CallSet, RelayPhases
    <3>2. call' = [call EXCEPT ![c] = new]
      BY <1>1, <1>4, <2>2
    <3> HIDE DEF new
    <3>3. new.tx \in DOMAIN txs' /\ txs'[new.tx].request = new.request
      BY <1>4, <3>1
    <3>4. CallOK(new)'
      BY <1>2, <3>1, <3>3 DEF CallOK, RelayPhases, RequestPhases
    <3> QED
      BY <3>1, <3>2, <3>4 DEF Settled
  <2> QED
    BY <1>3, <2>1, <2>2
<1>7. call' \in [Calls -> CallSet] /\ CallsOK'
  BY <1>5, <1>6, SettledKeepsCalls
<1>8. TxsOK'
  <2>1. Verified' = Verified /\ \A i \in Verified : txs'[i] = txs[i]
    BY <1>4 DEF Verified
  <2> QED
    BY <1>3, <2>1, SameVerified DEF ServicesInv
<1>9. ReplayOK' /\ Chain!LedgerOK'
  BY <1>3, ReplayStays, StutterLedgerOK DEF ServicesInv
<1>10. ServicesTypeOK'
  BY <1>3, <1>4, <1>7 DEF ServicesInv, ServicesTypeOK
<1> QED
  BY <1>7, <1>8, <1>9, <1>10 DEF ServicesInv

\* The transactions verified for a key are as many as there are.
LEMMA VerifiedForFinite ==
  ASSUME ServicesInv, NEW relay, NEW key
  PROVE  IsFiniteSet(VerifiedFor(relay, key))
<1>1. DOMAIN txs = 1 .. Len(txs) /\ Len(txs) \in Nat
  BY DEF ServicesInv, ServicesTypeOK
<1>2. IsFiniteSet(1 .. Len(txs))
  BY <1>1, FS_Interval
<1>3. VerifiedFor(relay, key) \subseteq 1 .. Len(txs)
  BY <1>1 DEF VerifiedFor, Verified
<1> QED
  BY <1>2, <1>3, FS_Subset

\* The contract runs for a nonce once, and counts it.
LEMMA VerifiesOnce ==
  ASSUME ServicesInv, NEW i \in DOMAIN txs, txs[i].status = "pending",
         MetaValid(txs[i].request), MetaVerify(txs[i].request),
         txs' = [txs EXCEPT ![i].status = "verified"]
  PROVE  /\ TxsOK'
         /\ nonces' \in [Relays -> [RequestKeys -> Nat]]
         /\ \A relay \in Relays, k \in RequestKeys : nonces'[relay][k] >= nonces[relay][k]
<1>1. PICK q \in Requests : q = txs[i].request
  BY TxShape
<1>2. /\ q.route \in Relays /\ q.key \in RequestKeys
      /\ nonces[q.route][q.key] = q.nonce
  BY <1>1, Bounds DEF MetaValid, EcdsaSigned, Ed25519Signed, Relays
<1> DEFINE rl == q.route
           key == q.key
<1>3. /\ nonces \in [Relays -> [RequestKeys -> Nat]] /\ verificationCount = nonces
      /\ q.nonce \in Nat
  BY <1>2 DEF ServicesInv, ServicesTypeOK, TxsOK
<1>4. /\ nonces' \in [Relays -> [RequestKeys -> Nat]] /\ verificationCount' = nonces'
      /\ nonces'[rl][key] = q.nonce + 1
      /\ \A relay \in Relays, k \in RequestKeys :
            relay # rl \/ k # key => nonces'[relay][k] = nonces[relay][k]
  <2>1. /\ nonces' = [nonces EXCEPT ![rl][key] = @ + 1]
        /\ verificationCount' = [nonces EXCEPT ![rl][key] = @ + 1]
    BY <1>1, <1>3 DEF MetaVerify
  <2> QED
    BY <1>2, <1>3, <2>1
<1>5. \A relay \in Relays, k \in RequestKeys : nonces'[relay][k] >= nonces[relay][k]
  BY <1>2, <1>3, <1>4
<1>6. /\ DOMAIN txs' = DOMAIN txs /\ txs'[i].status = "verified"
      /\ \A j \in DOMAIN txs : txs'[j].request = txs[j].request
      /\ \A j \in DOMAIN txs : j # i => txs'[j] = txs[j]
  BY OutcomeShape
<1>7. Verified' = Verified \cup {i} /\ i \notin Verified /\ txs'[i].request = q
  BY <1>1, <1>6 DEF Verified
<1>8. /\ VerifiedFor(rl, key)' = VerifiedFor(rl, key) \cup {i}
      /\ i \notin VerifiedFor(rl, key)
      /\ \A relay \in Relays, k \in RequestKeys :
            relay # rl \/ k # key => VerifiedFor(relay, k)' = VerifiedFor(relay, k)
  BY <1>6, <1>7 DEF VerifiedFor, Verified
<1>9. ASSUME NEW relay \in Relays, NEW k \in RequestKeys
      PROVE  nonces'[relay][k] = Cardinality(VerifiedFor(relay, k)')
  <2>1. nonces[relay][k] = Cardinality(VerifiedFor(relay, k))
    BY DEF ServicesInv, TxsOK
  <2>2. CASE relay = rl /\ k = key
    <3>1. Cardinality(VerifiedFor(rl, key) \cup {i}) = Cardinality(VerifiedFor(rl, key)) + 1
      BY <1>8, VerifiedForFinite, FS_AddElement
    <3> QED
      BY <1>2, <1>4, <1>8, <2>1, <2>2, <3>1
  <2>3. CASE relay # rl \/ k # key
    BY <1>4, <1>8, <2>1, <2>3
  <2> QED
    BY <2>2, <2>3
<1>10. \A j \in Verified : /\ txs[j].request.route \in Relays
                            /\ txs[j].request.key \in RequestKeys
                            /\ txs[j].request.nonce \in Nat
                            /\ txs[j].request.nonce
                                  < nonces[txs[j].request.route][txs[j].request.key]
                            /\ txs'[j].request = txs[j].request
  <2> SUFFICES ASSUME NEW j \in Verified
               PROVE  /\ txs[j].request.route \in Relays
                      /\ txs[j].request.key \in RequestKeys
                      /\ txs[j].request.nonce \in Nat
                      /\ txs[j].request.nonce
                            < nonces[txs[j].request.route][txs[j].request.key]
                      /\ txs'[j].request = txs[j].request
    OBVIOUS
  <2>1. j \in DOMAIN txs /\ txs[j].request \in Requests
    BY TxShape DEF Verified
  <2> QED
    BY <1>6, <2>1, Bounds DEF ServicesInv, TxsOK
<1>11. \A j \in Verified' :
          LET request == txs'[j].request IN
          /\ request.route \in Relays /\ request.nonce \in Nat
          /\ request.nonce < nonces'[request.route][request.key]
  <2> SUFFICES ASSUME NEW j \in Verified'
               PROVE  /\ txs'[j].request.route \in Relays /\ txs'[j].request.nonce \in Nat
                      /\ txs'[j].request.nonce
                            < nonces'[txs'[j].request.route][txs'[j].request.key]
    OBVIOUS
  <2>1. CASE j = i
    BY <1>2, <1>3, <1>4, <1>7, <2>1
  <2>2. CASE j \in Verified
    BY <1>3, <1>4, <1>5, <1>10, <2>2
  <2> QED
    BY <1>7, <2>1, <2>2
<1>12. ASSUME NEW j \in Verified', NEW m \in Verified',
              txs'[j].request.route = txs'[m].request.route,
              txs'[j].request.key = txs'[m].request.key,
              txs'[j].request.nonce = txs'[m].request.nonce
       PROVE  j = m
  <2>1. \A n \in Verified : ~ (/\ txs'[n].request.route = rl /\ txs'[n].request.key = key
                               /\ txs'[n].request.nonce = q.nonce)
    BY <1>2, <1>3, <1>10
  <2>2. CASE j \in Verified /\ m \in Verified
    BY <1>10, <1>12, <2>2 DEF ServicesInv, TxsOK
  <2>3. CASE j = i \/ m = i
    BY <1>7, <1>12, <2>1, <2>3
  <2> QED
    BY <1>7, <2>2, <2>3
<1>13. TxsOK'
  BY <1>4, <1>9, <1>11, <1>12 DEF TxsOK
<1> QED
  BY <1>4, <1>5, <1>13

\* Whether it runs or reverts, a transaction is mined for the request it was sent for.
LEMMA MineKeepsInv ==
  ASSUME ServicesInv, UNCHANGED scene, NEW i \in DOMAIN txs, Mine(i)
  PROVE  ServicesInv'
<1>1. /\ UNCHANGED <<now, setUntil, counter, memorySetUntil, ledger, issued, call, passed>>
      /\ txs[i].status = "pending"
  BY DEF Mine, storeVars, historyVars
<1>2. /\ txs' \in Seq(Transactions) /\ DOMAIN txs' = DOMAIN txs
      /\ \A j \in DOMAIN txs : txs'[j].request = txs[j].request
  BY OutcomeShape DEF Mine
<1>3. /\ TxsOK' /\ nonces' \in [Relays -> [RequestKeys -> Nat]]
      /\ \A relay \in Relays, k \in RequestKeys : nonces'[relay][k] >= nonces[relay][k]
  <2>1. CASE MetaValid(txs[i].request)
    BY <1>1, <2>1, VerifiesOnce DEF Mine
  <2>2. CASE ~ MetaValid(txs[i].request)
    <3>1. /\ UNCHANGED <<nonces, verificationCount>>
          /\ txs' = [txs EXCEPT ![i].status = "reverted"]
      BY <2>2 DEF Mine
    <3>2. /\ txs'[i].status = "reverted"
          /\ \A j \in DOMAIN txs : j # i => txs'[j] = txs[j]
      BY <3>1, OutcomeShape
    <3>3. Verified' = Verified /\ \A j \in Verified : txs'[j] = txs[j]
      BY <1>1, <1>2, <3>2 DEF Verified
    <3>5. TxsOK'
      BY <3>1, <3>3, SameVerified DEF ServicesInv
    <3> QED
      BY <3>1, <3>5 DEF ServicesInv, ServicesTypeOK
  <2> QED
    BY <2>1, <2>2
<1>4. Later
  BY <1>1, <1>2, <1>3 DEF Later, ServicesInv, ServicesTypeOK, Chain!LedgerOK
<1>5. CallsOK'
  BY <1>1, <1>4, CallOKLater DEF CallsOK, ServicesInv, ServicesTypeOK
<1>6. ReplayOK' /\ Chain!LedgerOK'
  BY <1>1, ReplayStays, StutterLedgerOK DEF ServicesInv
<1>7. ServicesTypeOK'
  BY <1>1, <1>2, <1>3 DEF ServicesInv, ServicesTypeOK
<1> QED
  BY <1>3, <1>5, <1>6, <1>7 DEF ServicesInv

-----------------------------------------------------------------------------
(* The answers of the chain.                                               *)

\* The transaction of a request is verified: the nonce is past the request's.
LEMMA ReceiptAnsweredKeepsInv ==
  ASSUME ServicesInv, UNCHANGED scene, NEW c \in Calls, ReceiptAnswered(c)
  PROVE  ServicesInv'
<1>1. PICK k \in CallSet : k = call[c] /\ CallOK(k)
  BY CallShape
<1>2. /\ k.pc = "receipt" /\ txs[k.tx].status = "verified" /\ Go(c, "counts")
      /\ UNCHANGED <<storeVars, chainVars, passed>>
  BY <1>1 DEF ReceiptAnswered, historyVars
<1>3. /\ k.request \in Requests /\ k.request.route \in Relays /\ ~ k.same
      /\ k.tx \in DOMAIN txs /\ txs[k.tx].request = k.request
  BY <1>1, <1>2 DEF CallOK, RelayPhases
<1>4. k.request.nonce \in Nat /\ k.request.nonce < nonces[k.request.route][k.request.key]
  BY <1>2, <1>3 DEF ServicesInv, TxsOK, Verified
<1> DEFINE new == [k EXCEPT !.pc = "counts"]
<1>5. /\ new \in CallSet /\ new.pc = "counts" /\ new.request = k.request /\ new.same = k.same
  BY DEF CallSet, RelayPhases
<1>6. call' = [call EXCEPT ![c] = new]
  BY <1>1, <1>2 DEF Go
<1> HIDE DEF new
<1>7. CallOK(new)
  BY <1>3, <1>4, <1>5 DEF CallOK, RelayPhases, RequestPhases
<1>8. Settled(c)
  BY <1>2, <1>5, <1>6, <1>7, NothingLater, SettlesNow DEF storeVars, chainVars
<1> QED
  BY <1>2, <1>8, CallStepKeepsInv DEF storeVars, ServicesInv, ServicesTypeOK

\* The count that a relay answers is past the nonce of the request.
LEMMA CountsAnsweredKeepsInv ==
  ASSUME ServicesInv, UNCHANGED scene, NEW c \in Calls, CountsAnswered(c)
  PROVE  ServicesInv'
<1>1. PICK k \in CallSet : k = call[c] /\ CallOK(k)
  BY CallShape
<1>2. /\ k.pc = "counts"
      /\ call' = [call EXCEPT ![c].pc = "answered",
                              ![c].count = verificationCount[k.request.route][k.request.key]]
      /\ UNCHANGED <<storeVars, chainVars, passed>>
  BY <1>1 DEF CountsAnswered, historyVars
<1>3. /\ k.request \in Requests /\ k.request.route \in Relays
      /\ k.request.nonce < nonces[k.request.route][k.request.key]
  BY <1>1, <1>2 DEF CallOK, RelayPhases
<1>4. PICK n \in Nat : n = verificationCount[k.request.route][k.request.key]
                       /\ n > k.request.nonce
  <2>1. nonces[k.request.route][k.request.key] \in Nat /\ k.request.nonce \in Nat
    BY <1>1, <1>2, <1>3, Bounds DEF CallOK, ServicesInv, ServicesTypeOK
  <2> QED
    BY <1>3, <2>1 DEF ServicesInv, TxsOK
<1> DEFINE new == [k EXCEPT !.pc = "answered", !.count = n]
<1>5. /\ new \in CallSet /\ new.pc = "answered" /\ new.request = k.request /\ new.count = n
  BY DEF CallSet, RequestPhases
<1>6. call' = [call EXCEPT ![c] = new]
  BY <1>1, <1>2, <1>4
<1> HIDE DEF new
<1>7. CallOK(new)
  BY <1>3, <1>4, <1>5 DEF CallOK, RelayPhases, RequestPhases
<1>8. Settled(c)
  BY <1>2, <1>5, <1>6, <1>7, NothingLater, SettlesNow DEF storeVars, chainVars
<1> QED
  BY <1>2, <1>8, CallStepKeepsInv DEF storeVars, ServicesInv, ServicesTypeOK

\* A number that is read is that of the agent under the key.
LEMMA FactAnsweredKeepsInv ==
  ASSUME ServicesInv, UNCHANGED scene, NEW c \in Calls, FactAnswered(c)
  PROVE  ServicesInv'
<1>1. PICK k \in CallSet : k = call[c] /\ CallOK(k)
  BY CallShape
<1>2. /\ k.pc = "facts" /\ UNCHANGED <<storeVars, chainVars, passed>>
      /\ \/ call' = [call EXCEPT ![c].id = IdOf(k.request.key)]
         \/ call' = [call EXCEPT ![c].demoId = IdOf(DemoKey)]
  BY <1>1 DEF FactAnswered, historyVars
<1>3. /\ k.request \in Requests /\ k.request.route = "agent-to-agent" /\ ~ k.same
      /\ NumberOf(k.id, k.request.key) /\ NumberOf(k.demoId, DemoKey)
  BY <1>1, <1>2 DEF CallOK, RequestPhases
<1>4. Later
  BY <1>2, NothingLater DEF storeVars, chainVars
<1>5. CASE call' = [call EXCEPT ![c].id = IdOf(k.request.key)]
  <2>1. PICK id \in Int : id = IdOf(k.request.key) /\ NumberOf(id, k.request.key)
    BY IdShape DEF ServicesInv
  <2> DEFINE new == [k EXCEPT !.id = id]
  <2>2. /\ new \in CallSet /\ new.pc = "facts" /\ new.request = k.request /\ new.id = id
        /\ new.demoId = k.demoId /\ new.same = k.same
    BY <1>2 DEF CallSet
  <2>3. call' = [call EXCEPT ![c] = new]
    BY <1>1, <1>5, <2>1
  <2> HIDE DEF new
  <2>4. CallOK(new)
    BY <1>3, <2>1, <2>2 DEF CallOK, RelayPhases, RequestPhases, Relays
  <2>5. Settled(c)
    BY <1>4, <2>2, <2>3, <2>4, SettlesNow
  <2> QED
    BY <1>2, <2>5, CallStepKeepsInv DEF storeVars, ServicesInv, ServicesTypeOK
<1>6. CASE call' = [call EXCEPT ![c].demoId = IdOf(DemoKey)]
  <2>1. PICK id \in Int : id = IdOf(DemoKey) /\ NumberOf(id, DemoKey)
    BY IdShape DEF ServicesInv
  <2> DEFINE new == [k EXCEPT !.demoId = id]
  <2>2. /\ new \in CallSet /\ new.pc = "facts" /\ new.request = k.request /\ new.demoId = id
        /\ new.id = k.id /\ new.same = k.same
    BY <1>2 DEF CallSet
  <2>3. call' = [call EXCEPT ![c] = new]
    BY <1>1, <1>6, <2>1
  <2> HIDE DEF new
  <2>4. CallOK(new)
    BY <1>3, <2>1, <2>2 DEF CallOK, RelayPhases, RequestPhases, Relays
  <2>5. Settled(c)
    BY <1>4, <2>2, <2>3, <2>4, SettlesNow
  <2> QED
    BY <1>2, <2>5, CallStepKeepsInv DEF storeVars, ServicesInv, ServicesTypeOK
<1> QED
  BY <1>2, <1>5, <1>6

\* With both numbers the registry is asked, or the answer given.
LEMMA DemoAgentKeepsInv ==
  ASSUME ServicesInv, UNCHANGED scene, NEW c \in Calls,
         FactsComplete(c) \/ SameHumanAnswered(c)
  PROVE  ServicesInv'
<1>1. PICK k \in CallSet : k = call[c] /\ CallOK(k)
  BY CallShape
<1>2. /\ k.pc \in {"facts", "sameHuman"} /\ UNCHANGED <<storeVars, chainVars, passed>>
      /\ Go(c, "sameHuman") \/ \E same \in BOOLEAN : Answer(c, same)
  BY <1>1 DEF FactsComplete, SameHumanAnswered, SameHuman, historyVars
<1>3. /\ k.request \in Requests /\ k.request.route = "agent-to-agent" /\ ~ k.same
      /\ NumberOf(k.id, k.request.key) /\ NumberOf(k.demoId, DemoKey)
  BY <1>1, <1>2 DEF CallOK, RequestPhases
<1>4. Later
  BY <1>2, NothingLater DEF storeVars, chainVars
<1>5. CASE Go(c, "sameHuman")
  <2> DEFINE new == [k EXCEPT !.pc = "sameHuman"]
  <2>1. /\ new \in CallSet /\ new.pc = "sameHuman" /\ new.request = k.request
        /\ new.id = k.id /\ new.demoId = k.demoId /\ new.same = k.same
    BY DEF CallSet, RequestPhases
  <2>2. call' = [call EXCEPT ![c] = new]
    BY <1>1, <1>5 DEF Go
  <2> HIDE DEF new
  <2>3. CallOK(new)
    BY <1>3, <2>1 DEF CallOK, RelayPhases, RequestPhases, Relays
  <2>4. Settled(c)
    BY <1>4, <2>1, <2>2, <2>3, SettlesNow
  <2> QED
    BY <1>2, <2>4, CallStepKeepsInv DEF storeVars, ServicesInv, ServicesTypeOK
<1>6. CASE \E same \in BOOLEAN : Answer(c, same)
  <2>1. PICK same \in BOOLEAN : call' = [call EXCEPT ![c].pc = "answered", ![c].same = same]
    BY <1>6 DEF Answer
  <2> DEFINE new == [k EXCEPT !.pc = "answered", !.same = same]
  <2>2. new \in CallSet /\ new.pc = "answered" /\ new.request = k.request
    BY DEF CallSet, RequestPhases
  <2>3. call' = [call EXCEPT ![c] = new]
    BY <1>1, <2>1
  <2> HIDE DEF new
  <2>4. CallOK(new)
    BY <1>3, <2>2 DEF CallOK, RelayPhases, RequestPhases, Relays
  <2>5. Settled(c)
    BY <1>4, <2>2, <2>3, <2>4, SettlesNow
  <2> QED
    BY <1>2, <2>5, CallStepKeepsInv DEF storeVars, ServicesInv, ServicesTypeOK
<1> QED
  BY <1>2, <1>5, <1>6

-----------------------------------------------------------------------------
(* The proxy.                                                              *)

\* A counter that is counted up or gets its window stays a counter.
LEMMA CounterShape ==
  ASSUME ServicesInv, NEW key \in CounterKeys,
         SharedIncrement(key) \/ SharedExpire(key) \/ UNCHANGED counter
  PROVE  /\ counter' \in [CounterKeys -> [count : Nat, until : Nat]]
         /\ SharedCount(key) \in Nat
<1>1. counter \in [CounterKeys -> [count : Nat, until : Nat]] /\ now \in Nat
  BY DEF ServicesInv, ServicesTypeOK
<1>2. PICK entry \in [count : Nat, until : Nat] : entry = counter[key]
  BY <1>1
<1>3. now + Window \in Nat /\ entry.count \in Nat
  BY <1>1, <1>2, Bounds
<1>4. CASE SharedIncrement(key)
  <2>0. PICK n \in Nat : n = entry.count + 1
    BY <1>3
  <2>1. PICK new \in [count : Nat, until : Nat] : new = [entry EXCEPT !.count = n]
    OBVIOUS
  <2>2. counter' = [counter EXCEPT ![key] = new]
    BY <1>2, <1>4, <2>0, <2>1 DEF SharedIncrement
  <2> QED
    BY <1>1, <1>2, <1>3, <2>2 DEF SharedCount
<1>5. CASE SharedExpire(key)
  <2>1. PICK new \in [count : Nat, until : Nat] : new = [entry EXCEPT !.until = now + Window]
    BY <1>3
  <2>2. counter' = [counter EXCEPT ![key] = new]
    BY <1>2, <1>5, <2>1 DEF SharedExpire
  <2> QED
    BY <1>1, <1>2, <1>3, <2>2 DEF SharedCount
<1>6. CASE UNCHANGED counter
  BY <1>1, <1>2, <1>3, <1>6 DEF SharedCount
<1> QED
  BY <1>4, <1>5, <1>6

\* A request to the proxy is about one of its counters.
LEMMA ReceiveProxyKeepsInv ==
  ASSUME ServicesInv, UNCHANGED scene, NEW c \in Calls, NEW p \in Processes,
         NEW route \in ProxyRoutes, NEW client \in Clients, ReceiveProxy(c, p, route, client)
  PROVE  ServicesInv'
<1>1. PICK key \in CounterKeys : key = <<route, client>>
  BY Bounds
<1> DEFINE new == [Idle EXCEPT !.pc = "increment", !.process = p, !.counterKey = key]
<1>2. /\ new \in CallSet /\ new.pc = "increment" /\ new.counterKey = key /\ ~ new.same
      /\ new.process \in Processes
  BY IdleShape DEF CallSet, Idle, OtherPhases
<1>3. /\ call' = [call EXCEPT ![c] = new]
      /\ UNCHANGED <<storeVars, chainVars, passed>>
  BY <1>1 DEF ReceiveProxy, historyVars
<1> HIDE DEF new
<1>4. CallOK(new)
  BY <1>2 DEF CallOK, RelayPhases, RequestPhases
<1>5. Settled(c)
  BY <1>2, <1>3, <1>4, NothingLater, SettlesNow DEF storeVars, chainVars
<1> QED
  BY <1>3, <1>5, CallStepKeepsInv DEF storeVars, ServicesInv, ServicesTypeOK

\* Counted, windowed, judged or lost: a request of the proxy keeps to its counter.
LEMMA CounterStepKeepsInv ==
  ASSUME ServicesInv, UNCHANGED scene, NEW c \in Calls,
         Incremented(c) \/ WindowSet(c) \/ TtlAnswered(c) \/ CounterLost(c)
  PROVE  ServicesInv'
<1>1. PICK k \in CallSet : k = call[c] /\ CallOK(k)
  BY CallShape
<1>2. /\ k.pc \in {"increment", "expire", "ttl"}
      /\ UNCHANGED <<now, setUntil, memorySetUntil, chainVars, passed>>
  BY <1>1 DEF Incremented, WindowSet, TtlAnswered, CounterLost, historyVars, storeVars
<1>3. k.counterKey \in CounterKeys /\ k.process \in Processes /\ ~ k.same
  BY <1>1, <1>2 DEF CallOK
<1>4. /\ counter' \in [CounterKeys -> [count : Nat, until : Nat]]
      /\ SharedCount(k.counterKey) \in Nat
  <2>1. SharedIncrement(k.counterKey) \/ SharedExpire(k.counterKey) \/ UNCHANGED counter
    BY <1>1 DEF Incremented, WindowSet, TtlAnswered, CounterLost, storeVars
  <2> QED
    BY <1>3, <2>1, CounterShape
<1>5. Later
  BY <1>2, NothingLater DEF chainVars
<1>6. Settled(c)
  <2>1. CASE Finish(c)
    BY <1>5, <2>1, FinishSettles
  <2>2. CASE Go(c, "upstream")
    BY <1>1, <1>2, <1>5, <2>2, GoSettles DEF OtherPhases, RelayPhases
  <2>3. CASE WindowSet(c)
    <3> DEFINE new == [k EXCEPT !.pc = "ttl"]
    <3>1. /\ new \in CallSet /\ new.pc = "ttl" /\ new.counterKey = k.counterKey
          /\ new.process = k.process /\ new.same = k.same
      BY DEF CallSet, OtherPhases
    <3>2. call' = [call EXCEPT ![c] = new]
      BY <1>1, <2>3 DEF WindowSet, Go
    <3> HIDE DEF new
    <3>3. CallOK(new)
      BY <1>3, <3>1 DEF CallOK, RelayPhases, RequestPhases
    <3> QED
      BY <1>5, <3>1, <3>2, <3>3, SettlesNow
  <2>4. CASE Incremented(c)
    <3>1. PICK n \in Nat : n = SharedCount(k.counterKey)
      BY <1>4
    <3>2. PICK since \in Nat : since = now
      BY DEF ServicesInv, ServicesTypeOK
    <3>3. PICK pc \in {"expire", "ttl"} : pc = IF n = 1 THEN "expire" ELSE "ttl"
      OBVIOUS
    <3> DEFINE new == [k EXCEPT !.count = n, !.since = since, !.pc = pc]
    <3>4. /\ new \in CallSet /\ new.pc = pc /\ new.counterKey = k.counterKey
          /\ new.process = k.process /\ new.same = k.same
      BY <3>3 DEF CallSet, OtherPhases
    <3>5. call' = [call EXCEPT ![c] = new]
      BY <1>1, <2>4, <3>1, <3>2, <3>3 DEF Incremented
    <3> HIDE DEF new
    <3>6. CallOK(new)
      BY <1>3, <3>3, <3>4 DEF CallOK, RelayPhases, RequestPhases
    <3> QED
      BY <1>5, <3>4, <3>5, <3>6, SettlesNow
  <2> QED
    BY <2>1, <2>2, <2>3, <2>4 DEF TtlAnswered, CounterLost, JudgeQuota, IssueToken, Forward
<1> QED
  BY <1>2, <1>4, <1>6, CallStepKeepsInv

-----------------------------------------------------------------------------
(* Processes, the registry and time.                                       *)

\* A process that ends takes its requests and its memory with it.
LEMMA RestartKeepsInv ==
  ASSUME ServicesInv, UNCHANGED scene, NEW p \in Processes, Restart(p)
  PROVE  ServicesInv'
<1>1. /\ UNCHANGED <<now, setUntil, counter, ledger, issued, nonces, verificationCount, txs>>
      /\ memorySetUntil' = [memorySetUntil EXCEPT ![p] = EmptyMemory.set]
      /\ passed' = [r \in Requests |-> [passed[r] EXCEPT ![p] = 0]]
  BY DEF Restart, ForgetMemory, chainVars
<1>2. /\ memorySetUntil \in [Processes -> [Requests -> Nat]]
      /\ passed \in [Requests -> [Stores -> Nat]] /\ call \in [Calls -> CallSet]
  BY DEF ServicesInv, ServicesTypeOK
<1>3. EmptyMemory.set \in [Requests -> Nat]
  BY Bounds DEF EmptyMemory
<1>4. memorySetUntil' \in [Processes -> [Requests -> Nat]]
  BY <1>1, <1>2, <1>3
<1>5. /\ passed' \in [Requests -> [Stores -> Nat]]
      /\ \A r \in Requests : passed'[r][p] = 0
      /\ \A r \in Requests, s \in Stores : s # p => passed'[r][s] = passed[r][s]
  BY <1>1, <1>2 DEF Stores
<1>6. \A s \in Stores, r \in Requests : s # p => Until(s, r)' = Until(s, r)
  BY <1>1, <1>2 DEF Until, Stores
<1>7. ReplayOK'
  BY <1>1, <1>5, <1>6 DEF ReplayOK, ServicesInv
<1>8. Later
  BY <1>1, NothingLater
<1>9. \A c \in Calls : call'[c] = call[c] \/ call'[c] = Idle
  BY DEF Restart
<1>10. CallOK(Idle)
  BY IdleShape DEF CallOK, RelayPhases, RequestPhases
<1>11. call' \in [Calls -> CallSet]
  <2>1. call' = [c \in Calls |-> call'[c]]
    BY DEF Restart
  <2> QED
    BY <1>2, <1>9, <2>1, IdleShape
<1>12. ASSUME NEW c \in Calls
       PROVE  CallOK(call[c])'
  <2>1. CASE call'[c] = call[c]
    <3>1. PICK k \in CallSet : k = call[c] /\ CallOK(k)
      BY CallShape
    <3>2. k = call'[c] /\ CallOK(k)'
      BY <1>8, <2>1, <3>1, CallOKLater
    <3> QED
      BY <3>2
  <2>2. CASE call'[c] = Idle
    <3>1. PICK k \in CallSet : k = Idle /\ CallOK(k)
      BY <1>10, IdleShape
    <3>2. k = call'[c] /\ CallOK(k)'
      BY <1>8, <2>2, <3>1, CallOKLater
    <3> QED
      BY <3>2
  <2> QED
    BY <1>9, <2>1, <2>2
<1>13. CallsOK'
  BY <1>12 DEF CallsOK
<1>14. TxsOK' /\ Chain!LedgerOK'
  BY <1>1, TxsStay, StutterLedgerOK DEF ServicesInv
<1>15. ServicesTypeOK'
  BY <1>1, <1>4, <1>5, <1>11 DEF ServicesInv, ServicesTypeOK
<1> QED
  BY <1>7, <1>13, <1>14, <1>15 DEF ServicesInv

\* An agent that comes has a new number: no request has read it.
LEMMA RegistryStepKeepsInv ==
  ASSUME ServicesInv, UNCHANGED scene, RegistryStep
  PROVE  ServicesInv'
<1>1. UNCHANGED <<now, setUntil, counter, memorySetUntil, nonces, verificationCount, txs, call,
                  passed>>
  BY DEF RegistryStep, storeVars, historyVars
<1>2. /\ issued \in Nat /\ issued + 1 \in Nat /\ MaxIssued \in Nat
      /\ \A k \in scene.keys : k \in AgentKeySet
  BY Bounds, Chosen DEF ServicesInv, ServicesTypeOK, Chain!LedgerOK
<1>3. /\ Chain!LedgerOK'
      /\ issued' \in Nat /\ issued' >= issued
      /\ \A a \in ledger' : a \in ledger \/ a.number > issued
  <2>1. CASE \E h \in Humans, k \in scene.keys : Chain!Admit(h, k)
    <3>1. PICK h \in Humans, k \in scene.keys : Chain!Admit(h, k)
      BY <2>1
    <3>2. Chain!LedgerOK'
      BY <1>2, <3>1, AdmitLedgerOK DEF ServicesInv
    <3> QED
      BY <1>2, <3>1, <3>2 DEF Chain!Admit
  <2>2. CASE \E a \in ledger : Chain!Remove(a)
    <3>1. PICK a \in ledger : Chain!Remove(a)
      BY <2>2
    <3>2. Chain!LedgerOK'
      BY <3>1, RemoveLedgerOK DEF ServicesInv
    <3> QED
      BY <1>2, <3>1, <3>2 DEF Chain!Remove
  <2>3. CASE \E l \in LimitValues : Chain!SetLimit(l)
    <3>1. UNCHANGED <<ledger, issued>>
      BY <2>3 DEF Chain!SetLimit
    <3>2. Chain!LedgerOK'
      BY <3>1, StutterLedgerOK DEF ServicesInv
    <3> QED
      BY <1>2, <3>1, <3>2
  <2> QED
    BY <2>1, <2>2, <2>3 DEF RegistryStep
<1>4. Later
  BY <1>1, <1>2, <1>3 DEF Later, ServicesInv, ServicesTypeOK
<1>5. CallsOK'
  BY <1>1, <1>4, CallOKLater DEF CallsOK, ServicesInv, ServicesTypeOK
<1>6. TxsOK' /\ ReplayOK'
  BY <1>1, TxsStay, ReplayStays DEF ServicesInv
<1>7. ServicesTypeOK'
  BY <1>1 DEF ServicesInv, ServicesTypeOK
<1> QED
  BY <1>3, <1>5, <1>6, <1>7 DEF ServicesInv

\* What a store drops as time passes has lapsed.
LEMMA UnlapsedShape ==
  ASSUME NEW time \in Nat, NEW until \in Nat
  PROVE  /\ Unlapsed(time, until) \in Nat
         /\ Unlapsed(time, until) = until \/ until <= time
BY DEF Unlapsed

\* A request that lapses in a store has a timestamp that is stale.
LEMMA TickKeepsInv ==
  ASSUME ServicesInv, UNCHANGED scene, Tick
  PROVE  ServicesInv'
<1>1. /\ UNCHANGED <<ledger, issued, nonces, verificationCount, txs, call, passed>>
      /\ now' = now + 1
      /\ setUntil' = [k \in ReplayKeys |-> Unlapsed(now', setUntil[k])]
      /\ counter' = [k \in CounterKeys |-> UnlapsedCounter(now', counter[k])]
      /\ memorySetUntil' =
            [p \in Processes |-> [k \in ReplayKeys |-> Unlapsed(now', memorySetUntil[p][k])]]
  BY DEF Tick, StoreTick, chainVars, historyVars
<1>2. /\ setUntil \in [Requests -> Nat] /\ memorySetUntil \in [Processes -> [Requests -> Nat]]
      /\ counter \in [CounterKeys -> [count : Nat, until : Nat]]
      /\ now \in Nat /\ now' \in Nat /\ now' >= now
      /\ passed \in [Requests -> [Stores -> Nat]]
  BY <1>1 DEF ServicesInv, ServicesTypeOK
<1>3. counter' \in [CounterKeys -> [count : Nat, until : Nat]]
  BY <1>1, <1>2 DEF UnlapsedCounter, NoCounter
<1>4. /\ setUntil' \in [Requests -> Nat] /\ memorySetUntil' \in [Processes -> [Requests -> Nat]]
      /\ \A r \in Requests : setUntil'[r] = setUntil[r] \/ setUntil[r] <= now'
      /\ \A p \in Processes, r \in Requests :
            memorySetUntil'[p][r] = memorySetUntil[p][r] \/ memorySetUntil[p][r] <= now'
  BY <1>1, <1>2, UnlapsedShape, Bounds
<1>5. \A s \in Stores, r \in Requests :
         /\ Until(s, r) \in Nat
         /\ Until(s, r)' = Until(s, r) \/ Until(s, r) <= now'
  BY <1>2, <1>4 DEF Until, Stores
<1>6. ASSUME NEW r \in Requests, NEW s \in Stores, passed'[r][s] > 0
      PROVE  Until(s, r)' >= r.ts + MaxAge \/ now' >= r.ts + MaxAge
  <2>1. Until(s, r) >= r.ts + MaxAge \/ now >= r.ts + MaxAge
    BY <1>1, <1>6 DEF ServicesInv, ReplayOK
  <2>2. r.ts + MaxAge \in Nat
    BY Bounds
  <2>3. CASE now >= r.ts + MaxAge
    BY <1>2, <2>2, <2>3
  <2>4. CASE Until(s, r) >= r.ts + MaxAge /\ Until(s, r)' = Until(s, r)
    BY <2>4
  <2>5. CASE Until(s, r) >= r.ts + MaxAge /\ Until(s, r) <= now'
    <3>1. PICK until \in Nat : until = Until(s, r)
      BY <1>5
    <3> QED
      BY <1>2, <2>2, <2>5, <3>1
  <2> QED
    BY <1>5, <2>1, <2>3, <2>4, <2>5
<1>7. ReplayOK'
  BY <1>1, <1>6 DEF ReplayOK, ServicesInv
<1>8. Later
  BY <1>1, <1>2 DEF Later, ServicesInv, ServicesTypeOK, Chain!LedgerOK
<1>9. CallsOK'
  BY <1>1, <1>8, CallOKLater DEF CallsOK, ServicesInv, ServicesTypeOK
<1>10. TxsOK' /\ Chain!LedgerOK'
  BY <1>1, TxsStay, StutterLedgerOK DEF ServicesInv
<1>11. ServicesTypeOK'
  BY <1>1, <1>2, <1>3, <1>4 DEF ServicesInv, ServicesTypeOK
<1> QED
  BY <1>7, <1>9, <1>10, <1>11 DEF ServicesInv

-----------------------------------------------------------------------------
(* All behaviours.                                                         *)

\* Before the first request, nothing has been let through.
LEMMA InitHoldsInv ==
  ASSUME Init
  PROVE  ServicesInv
<1>1. /\ scene \in Scenes /\ now = 1 /\ txs = << >>
      /\ setUntil \in [Requests -> Nat]
      /\ memorySetUntil \in [Processes -> [Requests -> Nat]]
      /\ counter \in [CounterKeys -> [count : Nat, until : Nat]]
      /\ nonces \in [Relays -> [RequestKeys -> Nat]]
      /\ verificationCount = nonces
      /\ \A relay \in Relays, k \in RequestKeys : nonces[relay][k] = 0
      /\ passed \in [Requests -> [Stores -> Nat]]
      /\ \A r \in Requests, s \in Stores : passed[r][s] = 0
      /\ call \in [Calls -> CallSet]
      /\ \A c \in Calls : call[c] = Idle
  BY Bounds, IdleShape DEF Init, StoreInit, EmptyMemory, NoCounter
<1>2. Chain!LedgerOK
  BY Bounds, InitLedgerOK DEF Init
<1>3. txs \in Seq(Transactions) /\ DOMAIN txs = {}
  BY <1>1
<1>4. ServicesTypeOK
  BY <1>1, <1>3 DEF ServicesTypeOK
<1>5. CallOK(Idle)
  BY IdleShape DEF CallOK, RelayPhases, RequestPhases
<1>6. CallsOK
  BY <1>1, <1>5 DEF CallsOK
<1>7. Verified = {} /\ \A relay, k : VerifiedFor(relay, k) = {}
  BY <1>3 DEF Verified, VerifiedFor
<1>8. TxsOK
  BY <1>1, <1>7, FS_EmptySet DEF TxsOK
<1>9. ReplayOK
  BY <1>1 DEF ReplayOK
<1> QED
  BY <1>2, <1>4, <1>6, <1>8, <1>9 DEF ServicesInv

\* Every step keeps the invariant.
LEMMA NextKeepsInv ==
  ASSUME ServicesInv, [Next]_vars
  PROVE  ServicesInv'
<1>1. /\ scene.calls \subseteq Calls /\ scene.processes \subseteq Processes
      /\ scene.requests \subseteq Requests
  BY Chosen DEF ServicesInv, ServicesTypeOK
<1>2. CASE UNCHANGED vars
  <2>1. UNCHANGED <<scene, now, setUntil, counter, memorySetUntil, ledger, issued, nonces,
                    verificationCount, txs, call, passed>>
    BY <1>2 DEF vars, storeVars, chainVars, historyVars
  <2>2. CallsOK'
    BY <2>1, NothingLater, CallOKLater DEF CallsOK, ServicesInv, ServicesTypeOK
  <2>3. TxsOK' /\ ReplayOK' /\ Chain!LedgerOK'
    BY <2>1, TxsStay, ReplayStays, StutterLedgerOK DEF ServicesInv
  <2> QED
    BY <2>1, <2>2, <2>3 DEF ServicesInv, ServicesTypeOK
<1>3. CASE Next
  <2>0. UNCHANGED scene
    BY <1>3 DEF Next
  <2>1. ASSUME NEW c \in scene.calls, NEW p \in scene.processes,
               \/ \E request \in scene.requests : Receive(c, p, request)
               \/ \E route \in ProxyRoutes, client \in Clients :
                     ReceiveProxy(c, p, route, client)
        PROVE  ServicesInv'
    BY <1>1, <2>0, <2>1, ReceiveKeepsInv, ReceiveProxyKeepsInv
  <2>2. ASSUME NEW c \in scene.calls,
               \/ Accepted(c) \/ ReplayAnswered(c) \/ ReplayLost(c) \/ Send(c)
               \/ ReceiptAnswered(c) \/ CountsAnswered(c) \/ FactAnswered(c)
        PROVE  ServicesInv'
    BY <1>1, <2>0, <2>2, AcceptedKeepsInv, ReplayAnsweredKeepsInv, ReplayLostKeepsInv,
       SendKeepsInv, ReceiptAnsweredKeepsInv, CountsAnsweredKeepsInv, FactAnsweredKeepsInv
  <2>3. ASSUME NEW c \in scene.calls,
               \/ CallFailed(c) \/ AgentIdAnswered(c) \/ NullifierAnswered(c)
               \/ CredentialsAnswered(c) \/ ReceiptLate(c) \/ UpstreamAnswered(c)
        PROVE  ServicesInv'
    BY <1>1, <2>0, <2>3, PlainStepKeepsInv
  <2>4. ASSUME NEW c \in scene.calls,
               \/ FactsComplete(c) \/ SameHumanAnswered(c) \/ Incremented(c) \/ WindowSet(c)
               \/ TtlAnswered(c) \/ CounterLost(c)
        PROVE  ServicesInv'
    BY <1>1, <2>0, <2>4, DemoAgentKeepsInv, CounterStepKeepsInv
  <2>5. ASSUME NEW i \in DOMAIN txs, Mine(i)
        PROVE  ServicesInv'
    BY <2>0, <2>5, MineKeepsInv
  <2>6. ASSUME NEW p \in scene.processes, Restart(p)
        PROVE  ServicesInv'
    BY <1>1, <2>0, <2>6, RestartKeepsInv
  <2>7. CASE RegistryStep
    BY <2>0, <2>7, RegistryStepKeepsInv
  <2>8. CASE Tick
    BY <2>0, <2>8, TickKeepsInv
  <2> QED
    BY <1>3, <2>1, <2>2, <2>3, <2>4, <2>5, <2>6, <2>7, <2>8 DEF Next
<1> QED
  BY <1>2, <1>3

\* Every behaviour keeps the types, the ledger, and what requests, transactions and stores
\* know.
THEOREM ServicesCorrect == Spec => []ServicesInv
<1>1. Init => ServicesInv
  BY InitHoldsInv
<1>2. ServicesInv /\ [Next]_vars => ServicesInv'
  BY NextKeepsInv
<1> QED
  BY <1>1, <1>2, PTL DEF Spec

\* However many processes relay a meta-transaction, and whatever becomes of the answers, the
\* contract verifies its nonce once, counts exactly, and an answer's count includes it.
THEOREM VerifiedOnceCorrect == Spec => []VerifiedOnce
<1>1. ASSUME ServicesInv
      PROVE  VerifiedOnce
  <2>1. \A relay \in Relays, k \in RequestKeys :
           verificationCount[relay][k] = Cardinality(VerifiedFor(relay, k))
    BY <1>1 DEF ServicesInv, TxsOK
  <2>2. \A c \in Calls : call[c].pc = "answered" /\ call[c].request.route \in Relays =>
                           call[c].count > call[c].request.nonce
    BY <1>1 DEF ServicesInv, CallsOK, CallOK
  <2> QED
    BY <1>1, <2>1, <2>2 DEF VerifiedOnce, VerifiedFor, Verified, ServicesInv, TxsOK
<1> QED
  BY <1>1, ServicesCorrect, PTL

\* While its timestamp is good a request passes the replay check of each store once.
THEOREM PassedOnceCorrect == Spec => []PassedOncePerStore
<1>1. ServicesInv => PassedOncePerStore
  BY DEF ServicesInv, ReplayOK, PassedOncePerStore
<1> QED
  BY <1>1, ServicesCorrect, PTL

-----------------------------------------------------------------------------
(* The demo agent's answer.                                                *)

\* The human of a number is that of a live agent, the only one under the key that the
\* number was read for.
LEMMA HumanShape ==
  ASSUME Chain!LedgerOK, NEW id, NEW key, NumberOf(id, key), HumanOf(id) # NoHuman
  PROVE  \E a \in ledger : a.key = key /\ a.human = HumanOf(id)
<1>1. \E a \in ledger : a.number = id
  BY DEF HumanOf
<1> DEFINE a == CHOOSE a \in ledger : a.number = id
<1>2. a \in ledger /\ a.number = id
  BY <1>1
<1>3. HumanOf(id) = a.human
  BY <1>1 DEF HumanOf
<1> HIDE DEF a
<1> QED
  BY <1>2, <1>3 DEF NumberOf

\* Of a request that asks about two numbers, only the answer says anything; the request may
\* be dropped before.
LEMMA OnlyTheAnswer ==
  ASSUME ServicesInv, [Next]_vars, NEW c \in Calls, call[c].pc = "sameHuman"
  PROVE  call'[c] = call[c] \/ call'[c] = Idle \/ SameHumanAnswered(c)
<1>1. call \in [Calls -> CallSet]
  BY DEF ServicesInv, ServicesTypeOK
<1>2. scene.calls \subseteq Calls
  BY Chosen DEF ServicesInv, ServicesTypeOK
<1>3. CASE UNCHANGED call
  BY <1>3
<1>4. ASSUME NEW d \in Calls, NEW new, call' = [call EXCEPT ![d] = new], d # c
      PROVE  call'[c] = call[c]
  BY <1>1, <1>4
<1>5. ASSUME NEW d \in Calls, NEW pc, Go(d, pc), d # c
      PROVE  call'[c] = call[c]
  BY <1>1, <1>5 DEF Go
<1>6. ASSUME NEW d \in Calls, Finish(d)
      PROVE  call'[c] = call[c] \/ call'[c] = Idle
  BY <1>1, <1>6 DEF Finish
<1>7. ASSUME NEW d \in Calls, NEW same, Answer(d, same), d # c
      PROVE  call'[c] = call[c]
  BY <1>1, <1>7 DEF Answer
<1>8. ASSUME NEW d \in Calls, NEW p, NEW request, Receive(d, p, request)
      PROVE  call'[c] = call[c]
  BY <1>1, <1>8 DEF Receive, Begin
<1>9. ASSUME NEW d \in Calls, NEW p, NEW route, NEW client, ReceiveProxy(d, p, route, client)
      PROVE  call'[c] = call[c]
  BY <1>1, <1>9 DEF ReceiveProxy
<1>10. ASSUME NEW d \in Calls, ReplayAnswered(d) \/ ReplayLost(d)
       PROVE  call'[c] = call[c]
  <2>1. d # c /\ (AfterReplay(d) \/ Finish(d))
    BY <1>10 DEF ReplayAnswered, ReplayLost, UseMemory, JudgeReplay
  <2>2. CASE Finish(d)
    BY <1>1, <2>1, <2>2 DEF Finish
  <2>3. CASE DemoAgentPassed(d)
    BY <1>1, <2>1, <2>3 DEF DemoAgentPassed
  <2>4. CASE RelayPassed(d) \/ ChatPassed(d)
    BY <1>1, <2>1, <2>4 DEF RelayPassed, ChatPassed, Go
  <2> QED
    BY <2>1, <2>2, <2>3, <2>4 DEF AfterReplay, VerifyPassed, CensusPassed
<1>11. ASSUME NEW d \in Calls,
              Accepted(d) \/ AgentIdAnswered(d) \/ Send(d) \/ CountsAnswered(d)
              \/ FactAnswered(d) \/ Incremented(d)
       PROVE  call'[c] = call[c] \/ call'[c] = Idle
  <2>1. d # c
    BY <1>11 DEF Accepted, AgentIdAnswered, Send, CountsAnswered, FactAnswered, Incremented
  <2> QED
    BY <1>1, <1>6, <1>11, <2>1
       DEF Accepted, CheckReplay, AgentIdAnswered, Send, CountsAnswered, FactAnswered, Incremented
<1>12. ASSUME NEW d \in Calls,
              \/ CallFailed(d) \/ NullifierAnswered(d) \/ CredentialsAnswered(d)
              \/ ReceiptAnswered(d) \/ ReceiptLate(d) \/ UpstreamAnswered(d) \/ WindowSet(d)
              \/ TtlAnswered(d) \/ CounterLost(d)
       PROVE  call'[c] = call[c] \/ call'[c] = Idle
  <2>1. Finish(d) \/ (d # c /\ \E pc \in {"credentials", "send", "counts", "upstream", "ttl"} :
                                    Go(d, pc))
    BY <1>12 DEF CallFailed, NullifierAnswered, CredentialsAnswered, ReceiptAnswered, ReceiptLate,
                 UpstreamAnswered, WindowSet, TtlAnswered, CounterLost, JudgeQuota, IssueToken,
                 Forward
  <2> QED
    BY <1>5, <1>6, <2>1
<1>13. ASSUME NEW d \in Calls, FactsComplete(d)
       PROVE  call'[c] = call[c]
  <2>1. d # c /\ (Go(d, "sameHuman") \/ Answer(d, FALSE))
    BY <1>13 DEF FactsComplete
  <2> QED
    BY <1>5, <1>7, <2>1
<1>14. ASSUME NEW d \in Calls, SameHumanAnswered(d)
       PROVE  call'[c] = call[c] \/ SameHumanAnswered(c)
  <2>1. CASE d # c
    BY <1>7, <1>14, <2>1 DEF SameHumanAnswered
  <2>2. CASE d = c
    BY <1>14, <2>2
  <2> QED
    BY <2>1, <2>2
<1>15. ASSUME NEW p, Restart(p)
       PROVE  call'[c] = call[c] \/ call'[c] = Idle
  BY <1>15 DEF Restart
<1>16. CASE (\E i \in DOMAIN txs : Mine(i)) \/ RegistryStep \/ Tick \/ UNCHANGED vars
  BY <1>3, <1>16 DEF Mine, RegistryStep, Tick, vars
<1> QED
  BY <1>2, <1>8, <1>9, <1>10, <1>11, <1>12, <1>13, <1>14, <1>15, <1>16 DEF Next

\* When the demo agent says that a caller has its human, the agent under the key that signed
\* and its own have one human at that moment, though both numbers were read before.
THEOREM SameHumanCorrect == Spec => SameHumanIsTrue
<1>1. ASSUME ServicesInv, [Next]_vars
      PROVE  SaysWhatIsSo
  <2> SUFFICES ASSUME NEW c \in Calls, call[c].pc = "sameHuman", call'[c].same
               PROVE  \E a, b \in ledger : /\ a.key = call[c].request.key
                                           /\ b.key = DemoKey
                                           /\ a.human = b.human
    BY DEF SaysWhatIsSo
  <2>1. PICK k \in CallSet : k = call[c] /\ CallOK(k)
    BY <1>1, CallShape
  <2>2. /\ ~ call[c].same /\ ~ Idle.same
        /\ NumberOf(k.id, k.request.key) /\ NumberOf(k.demoId, DemoKey)
    BY <2>1, IdleShape DEF CallOK
  <2>3. SameHumanAnswered(c)
    BY <1>1, <2>2, OnlyTheAnswer
  <2>4. SameHuman(k.demoId, k.id)
    <3>1. call' = [call EXCEPT ![c].pc = "answered", ![c].same = SameHuman(k.demoId, k.id)]
      BY <2>1, <2>3 DEF SameHumanAnswered, Answer
    <3>2. call'[c].same = SameHuman(k.demoId, k.id)
      BY <1>1, <2>1, <3>1 DEF ServicesInv, ServicesTypeOK, CallSet
    <3> QED
      BY <3>2
  <2>5. /\ HumanOf(k.demoId) # NoHuman /\ HumanOf(k.demoId) = HumanOf(k.id)
        /\ Chain!LedgerOK
    BY <1>1, <2>4 DEF SameHuman, ServicesInv
  <2>6. PICK a \in ledger : a.key = k.request.key /\ a.human = HumanOf(k.id)
    BY <2>2, <2>5, HumanShape
  <2>7. PICK b \in ledger : b.key = DemoKey /\ b.human = HumanOf(k.demoId)
    BY <2>2, <2>5, HumanShape
  <2> QED
    BY <2>1, <2>5, <2>6, <2>7
<1>2. ServicesInv /\ [Next]_vars => [SaysWhatIsSo]_vars
  BY <1>1
<1> QED
  BY <1>2, ServicesCorrect, PTL DEF Spec, SameHumanIsTrue

-----------------------------------------------------------------------------
(* The windows of a counter.                                               *)

AllowanceSet == [count : Nat \ {0}, at : Nat]

Apart(e, f) == e.at + Window <= f.at \/ f.at + Window <= e.at

\* A window begins with the count 1, a window after the one before began; each count comes
\* once in it.  So first counts are a window apart, and so are two of any three others.
Spread(all) ==
    /\ \A e, f \in all : e.count = 1 /\ f.count = 1 => e = f \/ Apart(e, f)
    /\ \A e, f, g \in all :
          e.count = f.count /\ f.count = g.count =>
             e = f \/ f = g \/ e = g \/ Apart(e, f) \/ Apart(f, g) \/ Apart(e, g)

\* One of two was a window before the time.
Past(e, f, time) == e = f \/ e.at + Window <= time \/ f.at + Window <= time

\* What a counter tells of the requests it counted, all of them not after the time given:
\* a count that is still to come in this window came in earlier ones, and of two
\* requests with it one is as far back as a window is long.
WindowsOK(entry, all, time) ==
    /\ all \subseteq AllowanceSet
    /\ \A e \in all : e.at <= time /\ (e.count > entry.count => e.at < time)
    /\ entry.count = 0 =>
          entry.until = 0 /\ \A e \in all : e.count = 1 => e.at + Window <= time
    /\ entry.until # 0 =>
          /\ time < entry.until
          /\ \A e \in all : e.count > entry.count \/ e.count = 1 => e.at + Window <= entry.until
          /\ \A e, f \in all : e.count = f.count => Past(e, f, entry.until)
    /\ \A e, f \in all : e.count = f.count /\ e.count > entry.count => Past(e, f, time)
    /\ Spread(all)

CounterSet == [count : Nat, until : Nat]

\* A part of what was counted.
LEMMA PartOfWindows ==
  ASSUME NEW entry, NEW all, NEW time, WindowsOK(entry, all, time), NEW some, some \subseteq all
  PROVE  WindowsOK(entry, some, time)
BY DEF WindowsOK, Spread

\* A counter that counts one request more has a count that none has at this time.
LEMMA CountedWindows ==
  ASSUME NEW entry \in CounterSet, NEW all, NEW time \in Nat, WindowsOK(entry, all, time),
         NEW next \in CounterSet, next.count = entry.count + 1, next.until = entry.until
  PROVE  /\ Allowance(next.count, time) \notin all
         /\ WindowsOK(next, all \cup {Allowance(next.count, time)}, time)
<1> DEFINE new == Allowance(next.count, time)
           more == all \cup {new}
<1>1. /\ new \in AllowanceSet /\ new.count = entry.count + 1 /\ new.at = time
      /\ entry.count \in Nat /\ entry.until \in Nat /\ next.count \in Nat /\ Window \in Nat
  BY Bounds DEF CounterSet, Allowance, AllowanceSet
<1>2. \A e \in all : e \in AllowanceSet /\ e.count \in Nat \ {0} /\ e.at \in Nat
  BY DEF WindowsOK, AllowanceSet
<1> HIDE DEF new
<1>3. new \notin all
  BY <1>1 DEF WindowsOK
<1>4. more \subseteq AllowanceSet
  BY <1>1, <1>2
<1>5. \A e \in more : e.at <= time /\ (e.count > next.count => e.at < time)
  BY <1>1, <1>2 DEF WindowsOK
<1>6. next.until # 0 =>
         /\ time < next.until
         /\ \A e \in more : e.count > next.count \/ e.count = 1 => e.at + Window <= next.until
         /\ \A e, f \in more : e.count = f.count => Past(e, f, next.until)
  <2> SUFFICES ASSUME next.until # 0
               PROVE  /\ time < next.until
                      /\ \A e \in more : e.count > next.count \/ e.count = 1 =>
                            e.at + Window <= next.until
                      /\ \A e, f \in more : e.count = f.count => Past(e, f, next.until)
    OBVIOUS
  <2>1. /\ entry.count # 0 /\ time < entry.until
        /\ \A e \in all : e.count > entry.count \/ e.count = 1 => e.at + Window <= entry.until
        /\ \A e, f \in all : e.count = f.count => Past(e, f, entry.until)
    BY DEF WindowsOK
  <2>2. \A e \in more : e.count > next.count \/ e.count = 1 => e.at + Window <= next.until
    BY <1>1, <1>2, <2>1
  <2>3. \A e \in all : e.count = new.count => e.at + Window <= next.until
    BY <1>1, <1>2, <2>1
  <2>4. \A e, f \in more : e.count = f.count => Past(e, f, next.until)
    BY <2>1, <2>3 DEF Past
  <2> QED
    BY <2>1, <2>2, <2>4
<1>7. \A e, f \in more : e.count = f.count /\ e.count > next.count => Past(e, f, time)
  BY <1>1, <1>2 DEF WindowsOK
<1>8. Spread(more)
  <2>1. \A e \in all : e.count = 1 /\ new.count = 1 => Apart(e, new) /\ Apart(new, e)
    BY <1>1, <1>2 DEF WindowsOK, Apart
  <2>2. \A e, f \in all : e.count = f.count /\ f.count = new.count =>
           \/ e = f
           \/ Apart(e, new) /\ Apart(new, e)
           \/ Apart(f, new) /\ Apart(new, f)
    <3>1. \A e, f \in all : e.count = f.count /\ f.count = new.count => Past(e, f, time)
      BY <1>1, <1>2 DEF WindowsOK
    <3> QED
      BY <1>1, <3>1 DEF Past, Apart
  <2>3. \A e, f \in more : e.count = 1 /\ f.count = 1 => e = f \/ Apart(e, f)
    BY <2>1 DEF WindowsOK, Spread
  <2>4. \A e, f, g \in more :
           e.count = f.count /\ f.count = g.count =>
              e = f \/ f = g \/ e = g \/ Apart(e, f) \/ Apart(f, g) \/ Apart(e, g)
    BY <2>2 DEF WindowsOK, Spread
  <2> QED
    BY <2>3, <2>4 DEF Spread
<1>9. next.count # 0
  BY <1>1, Bounds
<1> QED
  BY <1>3, <1>4, <1>5, <1>6, <1>7, <1>8, <1>9 DEF WindowsOK, new

\* A window that ends where nothing counted is after its beginning.
LEMMA ExpiringWindows ==
  ASSUME NEW entry \in CounterSet, entry.count > 0, NEW all, NEW time \in Nat,
         WindowsOK(entry, all, time),
         NEW next \in CounterSet, next.count = entry.count, next.until = time + Window
  PROVE  WindowsOK(next, all, time)
<1>1. Window \in Nat /\ Window > 0
  BY Bounds, ServicesAssumption
<1>2. \A e \in all : e.count \in Nat \ {0} /\ e.at \in Nat /\ e.at <= time
  BY DEF WindowsOK, AllowanceSet
<1>3. \A e \in all : e.at + Window <= next.until
  BY <1>1, <1>2
<1>4. time < next.until /\ next.count # 0
  BY <1>1 DEF CounterSet
<1>5. \A e, f \in all : Past(e, f, next.until)
  BY <1>3 DEF Past
<1> QED
  BY <1>3, <1>4, <1>5 DEF WindowsOK

\* The next instant, at which the window may lapse.
LEMMA LaterWindows ==
  ASSUME NEW entry \in CounterSet, NEW all, NEW time \in Nat, WindowsOK(entry, all, time)
  PROVE  /\ UnlapsedCounter(time + 1, entry) \in CounterSet
         /\ WindowsOK(UnlapsedCounter(time + 1, entry), all, time + 1)
<1>1. Window \in Nat /\ entry.count \in Nat /\ entry.until \in Nat
  BY Bounds DEF CounterSet
<1>2. \A e \in all : e.count \in Nat \ {0} /\ e.at \in Nat /\ e.at <= time
  BY DEF WindowsOK, AllowanceSet
<1>3. CASE entry.until # 0 /\ entry.until <= time + 1
  <2>1. UnlapsedCounter(time + 1, entry) = NoCounter
    BY <1>3 DEF UnlapsedCounter
  <2>2. /\ NoCounter \in CounterSet /\ NoCounter.count = 0 /\ NoCounter.until = 0
    BY DEF NoCounter, CounterSet
  <2>3. \A e \in all : e.at <= time + 1 /\ e.at < time + 1
    BY <1>2
  <2>4. \A e \in all : e.count = 1 => e.at + Window <= time + 1
    BY <1>1, <1>2, <1>3 DEF WindowsOK
  <2>5. \A e, f \in all : e.count = f.count => Past(e, f, time + 1)
    <3>1. \A e, f \in all : e.count = f.count => Past(e, f, entry.until)
      BY <1>3 DEF WindowsOK
    <3> QED
      BY <1>1, <1>2, <1>3, <3>1 DEF Past
  <2> QED
    BY <2>1, <2>2, <2>3, <2>4, <2>5 DEF WindowsOK
<1>4. CASE entry.until = 0 \/ entry.until > time + 1
  <2>1. UnlapsedCounter(time + 1, entry) = entry
    BY <1>1, <1>4 DEF UnlapsedCounter
  <2>2. \A e \in all : e.at <= time + 1 /\ e.at < time + 1
    BY <1>2
  <2>3. entry.count = 0 => \A e \in all : e.count = 1 => e.at + Window <= time + 1
    BY <1>1, <1>2 DEF WindowsOK
  <2>4. \A e, f \in all : e.count = f.count /\ e.count > entry.count => Past(e, f, time + 1)
    <3>1. \A e, f \in all : e.count = f.count /\ e.count > entry.count => Past(e, f, time)
      BY DEF WindowsOK
    <3> QED
      BY <1>1, <1>2, <3>1 DEF Past
  <2> QED
    BY <1>4, <2>1, <2>2, <2>3, <2>4 DEF WindowsOK
<1> QED
  BY <1>1, <1>3, <1>4

\* In any time of one window at most one first count, and each other count at most
\* twice.
LEMMA TwiceTheQuota ==
  ASSUME NEW all, all \subseteq AllowanceSet, Spread(all), \A e \in all : e.count <= Quota,
         NEW t \in Nat
  PROVE  Cardinality({e \in all : t - Window < e.at /\ e.at <= t}) <= 2 * Quota - 1
<1> DEFINE in == {e \in all : t - Window < e.at /\ e.at <= t}
           later(e) == \E f \in in : f.count = e.count /\ f.at < e.at
           place == [e \in in |-> IF later(e) THEN 2 * e.count - 2 ELSE 2 * e.count - 1]
<1>1. Window \in Nat /\ Quota \in Nat /\ Quota > 0
  BY ServicesAssumption
<1>2. \A e \in in : /\ e = [count |-> e.count, at |-> e.at]
                    /\ e.count \in Nat \ {0} /\ e.at \in Nat /\ e.count <= Quota
  BY DEF AllowanceSet
<1>3. \A e, f \in in : ~ Apart(e, f)
  BY <1>1, <1>2 DEF Apart
<1>4. \A e, f \in in : e.count = 1 /\ f.count = 1 => e = f
  BY <1>3 DEF Spread
<1>5. \A e, f, g \in in : e.count = f.count /\ f.count = g.count => e = f \/ f = g \/ e = g
  BY <1>3 DEF Spread
<1>6. \A e, f \in in : e.count = f.count /\ e # f => e.at < f.at \/ f.at < e.at
  BY <1>2
<1> HIDE DEF in
<1>7. \A e, f \in in : e.count = f.count /\ (later(e) <=> later(f)) => e = f
  <2> SUFFICES ASSUME NEW e \in in, NEW f \in in, e.count = f.count, later(e) <=> later(f),
                      e.at < f.at
               PROVE  FALSE
    BY <1>6
  <2>1. later(f)
    OBVIOUS
  <2>2. PICK g \in in : g.count = e.count /\ g.at < e.at
    BY <2>1
  <2> QED
    BY <1>2, <1>5, <2>2
<1>8. \A e \in in : later(e) => e.count # 1
  BY <1>2, <1>4
<1>9. place \in [in -> 1 .. 2 * Quota - 1]
  BY <1>1, <1>2, <1>8
<1>10. \A e, f \in in : place[e] = place[f] => e = f
  BY <1>2, <1>7
<1>11. place \in Injection(in, 1 .. 2 * Quota - 1)
  BY <1>9, <1>10 DEF Injection, IsInjective
<1>12. IsFiniteSet(1 .. 2 * Quota - 1) /\ Cardinality(1 .. 2 * Quota - 1) = 2 * Quota - 1
  BY <1>1, FS_Interval
<1>13. Cardinality(in) <= 2 * Quota - 1
  BY <1>11, <1>12, FS_Injection
<1> QED
  BY <1>13 DEF in

-----------------------------------------------------------------------------
(* The quota.                                                              *)

\* A call that the shared store counted under a key and that is not judged yet.
Counts(k, key) == k.pc \in {"expire", "ttl"} /\ k.counterKey = key

Counted(k) == Allowance(k.count, k.since)

CountedFor(key) ==
    allowed["shared"][key] \cup {Counted(call[c]) : c \in {d \in Calls : Counts(call[d], key)}}

\* The counter of a key in the shared store, with those let through and those to judge, who
\* are all different; the one that is to set the window's end is alone and finds it open.
SharedOK(key) ==
    /\ WindowsOK(counter[key], CountedFor(key), now)
    /\ \A c \in Calls : Counts(call[c], key) =>
          /\ Counted(call[c]) \notin allowed["shared"][key]
          /\ call[c].pc = "expire" => counter[key].count > 0 /\ counter[key].until = 0
    /\ \A c, d \in Calls : Counts(call[c], key) /\ Counts(call[d], key) /\ c # d =>
          /\ Counted(call[c]) # Counted(call[d])
          /\ ~ (call[c].pc = "expire" /\ call[d].pc = "expire")

\* A memory judges as it counts.
MemoryOK(p, key) == WindowsOK(memoryCounter[p][key], allowed[p][key], now)

QuotaInv ==
    /\ memoryCounter \in [Processes -> [CounterKeys -> CounterSet]]
    /\ allowed \in [Stores -> [CounterKeys -> SUBSET AllowanceSet]]
    /\ \A s \in Stores, key \in CounterKeys : \A e \in allowed[s][key] : e.count <= Quota
    /\ \A key \in CounterKeys : SharedOK(key)
    /\ \A p \in Processes, key \in CounterKeys : MemoryOK(p, key)

\* A call counts under a key after a step only as it did before.
Keeps(d, key) ==
    Counts(call'[d], key) =>
       /\ Counts(call[d], key)
       /\ call'[d].count = call[d].count /\ call'[d].since = call[d].since
       /\ call'[d].pc = "expire" => call[d].pc = "expire"

\* A counter that is as good for the calls as it was, of which some may leave.
LEMMA SharedKept ==
  ASSUME NEW key, SharedOK(key), WindowsOK(counter'[key], CountedFor(key), now'),
         allowed'["shared"][key] = allowed["shared"][key],
         \A d \in Calls : Keeps(d, key),
         \A d \in Calls : Counts(call'[d], key) /\ call'[d].pc = "expire" =>
                             counter'[key].count > 0 /\ counter'[key].until = 0
  PROVE  SharedOK(key)'
<1>1. \A d \in Calls : Counts(call'[d], key) =>
         Counts(call[d], key) /\ Counted(call'[d]) = Counted(call[d])
  BY DEF Keeps, Counted
<1>2. CountedFor(key)' \subseteq CountedFor(key)
  BY <1>1 DEF CountedFor
<1>3. WindowsOK(counter'[key], CountedFor(key)', now')
  BY <1>2, PartOfWindows
<1>4. WindowsOK(counter[key], CountedFor(key), now)'
  BY <1>3 DEF WindowsOK
<1>5. ASSUME NEW c \in Calls, Counts(call'[c], key)
      PROVE  /\ Counted(call'[c]) \notin allowed'["shared"][key]
             /\ call'[c].pc = "expire" => counter'[key].count > 0 /\ counter'[key].until = 0
  BY <1>1, <1>5 DEF SharedOK
<1>6. ASSUME NEW c \in Calls, NEW d \in Calls, Counts(call'[c], key), Counts(call'[d], key), c # d
      PROVE  /\ Counted(call'[c]) # Counted(call'[d])
             /\ ~ (call'[c].pc = "expire" /\ call'[d].pc = "expire")
  BY <1>1, <1>6 DEF SharedOK, Keeps
<1> QED
  BY <1>4, <1>5, <1>6 DEF SharedOK

\* One call more is counted.
LEMMA SharedCounts ==
  ASSUME NEW key \in CounterKeys, SharedOK(key), counter[key] \in CounterSet, now \in Nat,
         now' = now, counter'[key] \in CounterSet,
         counter'[key].count = counter[key].count + 1, counter'[key].until = counter[key].until,
         allowed'["shared"][key] = allowed["shared"][key],
         NEW c \in Calls, ~ Counts(call[c], key),
         \A d \in Calls : d # c => call'[d] = call[d],
         Counted(call'[c]) = Allowance(counter[key].count + 1, now),
         call'[c].pc = "expire" => counter[key].count = 0
  PROVE  SharedOK(key)'
<1> DEFINE new == Allowance(counter[key].count + 1, now)
<1>1. new \notin CountedFor(key) /\ WindowsOK(counter'[key], CountedFor(key) \cup {new}, now')
  BY CountedWindows DEF SharedOK
<1>2. ASSUME NEW d \in Calls, Counts(call'[d], key)
      PROVE  \/ d = c /\ Counted(call'[d]) = new
             \/ d # c /\ Counts(call[d], key) /\ call'[d] = call[d]
  <2>1. CASE d = c
    BY <2>1
  <2>2. CASE d # c
    <3>1. call'[d] = call[d]
      BY <2>2
    <3> QED
      BY <1>2, <2>2, <3>1
  <2> QED
    BY <2>1, <2>2
<1>3. CountedFor(key)' \subseteq CountedFor(key) \cup {new}
  BY <1>2 DEF CountedFor
<1>4. WindowsOK(counter'[key], CountedFor(key)', now')
  BY <1>1, <1>3, PartOfWindows
<1>5. WindowsOK(counter[key], CountedFor(key), now)'
  BY <1>4 DEF WindowsOK
<1> HIDE DEF new
<1>6. /\ new \notin allowed'["shared"][key]
      /\ \A d \in Calls : Counts(call[d], key) => Counted(call[d]) # new
  BY <1>1 DEF CountedFor
<1>7. counter'[key].count > 0 /\ (counter[key].count = 0 => counter'[key].until = 0)
  BY DEF CounterSet, SharedOK, WindowsOK
<1>8. \A d \in Calls : Counts(call[d], key) /\ call[d].pc = "expire" =>
         counter[key].count # 0 /\ counter[key].until = 0
  BY DEF SharedOK, CounterSet
<1>9. ASSUME NEW d \in Calls, Counts(call'[d], key)
      PROVE  /\ Counted(call'[d]) \notin allowed'["shared"][key]
             /\ call'[d].pc = "expire" => counter'[key].count > 0 /\ counter'[key].until = 0
  BY <1>2, <1>6, <1>7, <1>8, <1>9 DEF SharedOK
<1>10. ASSUME NEW d \in Calls, NEW e \in Calls, Counts(call'[d], key), Counts(call'[e], key), d # e
       PROVE  /\ Counted(call'[d]) # Counted(call'[e])
              /\ ~ (call'[d].pc = "expire" /\ call'[e].pc = "expire")
  BY <1>2, <1>6, <1>8, <1>10 DEF SharedOK
<1> QED
  BY <1>5, <1>9, <1>10 DEF SharedOK

\* A call is let through.
LEMMA SharedAllows ==
  ASSUME NEW key \in CounterKeys, SharedOK(key), UNCHANGED <<now, counter>>,
         NEW c \in Calls, Counts(call[c], key), ~ Counts(call'[c], key),
         \A d \in Calls : d # c => call'[d] = call[d],
         allowed'["shared"][key] = allowed["shared"][key] \cup {Counted(call[c])}
  PROVE  SharedOK(key)'
<1>1. \A d \in Calls : Counts(call'[d], key) =>
         d # c /\ Counts(call[d], key) /\ call'[d] = call[d]
  OBVIOUS
<1>2. CountedFor(key)' \subseteq CountedFor(key)
  BY <1>1 DEF CountedFor
<1>3. WindowsOK(counter[key], CountedFor(key)', now)
  BY <1>2, PartOfWindows DEF SharedOK
<1>4. WindowsOK(counter[key], CountedFor(key), now)'
  BY <1>3 DEF WindowsOK
<1> QED
  BY <1>1, <1>4 DEF SharedOK

\* A counter that was not used.
LEMMA SharedStays ==
  ASSUME NEW key, SharedOK(key), counter'[key] = counter[key], now' = now,
         allowed'["shared"][key] = allowed["shared"][key],
         \A d \in Calls : Keeps(d, key)
  PROVE  SharedOK(key)'
<1>1. WindowsOK(counter'[key], CountedFor(key), now')
  BY DEF SharedOK
<1>2. \A d \in Calls : Counts(call'[d], key) /\ call'[d].pc = "expire" =>
         counter'[key].count > 0 /\ counter'[key].until = 0
  BY DEF SharedOK, Keeps
<1> QED
  BY <1>1, <1>2, SharedKept

\* Nor a memory.
LEMMA MemoryStays ==
  ASSUME NEW p, NEW key, MemoryOK(p, key), now' = now,
         memoryCounter'[p][key] = memoryCounter[p][key], allowed'[p][key] = allowed[p][key]
  PROVE  MemoryOK(p, key)'
BY DEF MemoryOK, WindowsOK

\* A call that did not move, or counts no more.
LEMMA CallKeeps ==
  ASSUME NEW d, NEW key, call'[d] = call[d] \/ ~ Counts(call'[d], key)
  PROVE  Keeps(d, key)
BY DEF Keeps

\* What a memory counts, and the window it sets at once.
LEMMA MemoryCounts ==
  ASSUME NEW entry \in CounterSet, NEW all, NEW time \in Nat, WindowsOK(entry, all, time),
         NEW n \in Nat, n = entry.count + 1,
         NEW next, next = [count |-> n,
                           until |-> IF entry.count = 0 THEN time + Window ELSE entry.until]
  PROVE  /\ next \in CounterSet /\ Allowance(n, time) \in AllowanceSet
         /\ WindowsOK(next, all \cup {Allowance(n, time)}, time)
         /\ WindowsOK(next, all, time)
<1>1. /\ Window \in Nat /\ time + Window \in Nat /\ entry.count \in Nat /\ entry.until \in Nat
      /\ n # 0 /\ n > 0
  BY Bounds DEF CounterSet
<1>2. PICK counted \in CounterSet : counted = [count |-> n, until |-> entry.until]
  BY <1>1 DEF CounterSet
<1>3. /\ counted.count = n /\ counted.until = entry.until
      /\ next \in CounterSet /\ next.count = n
      /\ Allowance(n, time) \in AllowanceSet
  BY <1>1, <1>2 DEF CounterSet, Allowance, AllowanceSet
<1>4. WindowsOK(counted, all \cup {Allowance(n, time)}, time)
  BY <1>3, CountedWindows
<1>5. WindowsOK(next, all \cup {Allowance(n, time)}, time)
  <2>1. CASE entry.count = 0
    <3>1. next.until = time + Window
      BY <2>1
    <3> QED
      BY <1>1, <1>3, <1>4, <3>1, ExpiringWindows
  <2>2. CASE entry.count # 0
    BY <1>2, <1>4, <2>2
  <2> QED
    BY <2>1, <2>2
<1> QED
  BY <1>3, <1>5, PartOfWindows

\* A counter that nothing has used.
LEMMA EmptyWindows ==
  ASSUME NEW time
  PROVE  NoCounter \in CounterSet /\ WindowsOK(NoCounter, {}, time)
BY DEF NoCounter, CounterSet, WindowsOK, Spread

\* A step that uses no counter.
LEMMA QuietKeepsQuota ==
  ASSUME QuotaInv, UNCHANGED <<now, counter, memoryCounter, allowed>>,
         \A d \in Calls : call'[d] = call[d] \/ call'[d].pc \notin {"expire", "ttl"}
  PROVE  QuotaInv'
<1>1. \A d \in Calls, key \in CounterKeys : Keeps(d, key)
  BY CallKeeps DEF Counts
<1>2. \A key \in CounterKeys : SharedOK(key)'
  BY <1>1, SharedStays DEF QuotaInv
<1>3. \A p \in Processes, key \in CounterKeys : MemoryOK(p, key)'
  BY MemoryStays DEF QuotaInv
<1> QED
  BY <1>2, <1>3 DEF QuotaInv

\* The store counts a request.
LEMMA IncrementedKeepsQuota ==
  ASSUME ServicesInv, QuotaInv, NEW c \in Calls, Incremented(c)
  PROVE  QuotaInv'
<1>1. PICK k \in CallSet : k = call[c] /\ CallOK(k)
  BY CallShape
<1>2. /\ k.pc = "increment" /\ k.counterKey \in CounterKeys
      /\ UNCHANGED <<now, memoryCounter, allowed>>
  BY <1>1 DEF Incremented, CallOK, historyVars
<1>3. PICK key \in CounterKeys : key = k.counterKey
  BY <1>2
<1>4. /\ call \in [Calls -> CallSet] /\ now \in Nat /\ counter \in [CounterKeys -> CounterSet]
  BY DEF ServicesInv, ServicesTypeOK, CounterSet
<1>5. PICK entry \in CounterSet : entry = counter[key]
  BY <1>4
<1>6. PICK n \in Nat : n = entry.count + 1
  BY DEF CounterSet
<1>7. PICK next \in CounterSet : next = [entry EXCEPT !.count = n]
  BY DEF CounterSet
<1>8. next.count = n /\ next.until = entry.until
  BY <1>7 DEF CounterSet
<1>9. counter' = [counter EXCEPT ![key] = next]
  BY <1>1, <1>3, <1>5, <1>6, <1>7 DEF Incremented, SharedIncrement
<1>10. PICK new : new = [k EXCEPT !.count = n, !.since = now,
                                  !.pc = IF n = 1 THEN "expire" ELSE "ttl"]
  OBVIOUS
<1>11. /\ new.count = n /\ new.since = now /\ new.counterKey = key
       /\ new.pc = "expire" => n = 1
  BY <1>3, <1>10 DEF CallSet
<1>12. call' = [call EXCEPT ![c] = new]
  BY <1>1, <1>3, <1>5, <1>6, <1>10 DEF Incremented, SharedCount
<1>13. call'[c] = new /\ \A d \in Calls : d # c => call'[d] = call[d]
  BY <1>4, <1>12
<1>14. ~ Counts(call[c], key)
  BY <1>1, <1>2 DEF Counts
<1>15. Counted(call'[c]) = Allowance(n, now)
  BY <1>11, <1>13 DEF Counted
<1>16. call'[c].pc = "expire" => entry.count = 0
  BY <1>6, <1>11, <1>13 DEF CounterSet
<1>17. counter'[key] = next
  BY <1>4, <1>9
<1>18. SharedOK(key)'
  <2>1. SharedOK(key) /\ allowed'["shared"][key] = allowed["shared"][key] /\ now' = now
    BY <1>2 DEF QuotaInv
  <2> QED
    BY <1>4, <1>5, <1>6, <1>8, <1>13, <1>14, <1>15, <1>16, <1>17, <2>1, SharedCounts
<1>19. ASSUME NEW other \in CounterKeys, other # key
       PROVE  SharedOK(other)'
  <2>1. SharedOK(other) /\ counter'[other] = counter[other]
    BY <1>4, <1>9, <1>19 DEF QuotaInv
  <2>2. ~ Counts(call'[c], other)
    BY <1>11, <1>13, <1>19 DEF Counts
  <2>3. \A d \in Calls : Keeps(d, other)
    BY <1>13, <2>2, CallKeeps
  <2> QED
    BY <1>2, <2>1, <2>3, SharedStays
<1>20. \A p \in Processes, other \in CounterKeys : MemoryOK(p, other)'
  BY <1>2, MemoryStays DEF QuotaInv
<1> QED
  BY <1>2, <1>18, <1>19, <1>20 DEF QuotaInv

\* The window gets its end, after the one call that was to set it has found it open.
LEMMA SharedExpires ==
  ASSUME NEW key \in CounterKeys, SharedOK(key), counter \in [CounterKeys -> CounterSet],
         now \in Nat, now' = now, SharedExpire(key),
         allowed'["shared"][key] = allowed["shared"][key],
         NEW c \in Calls, Counts(call[c], key), call[c].pc = "expire",
         \A d \in Calls : d # c => call'[d] = call[d],
         Keeps(c, key), call'[c].pc # "expire"
  PROVE  SharedOK(key)'
<1>1. PICK entry \in CounterSet : entry = counter[key]
  OBVIOUS
<1>2. now + Window \in Nat
  BY Bounds
<1>3. PICK next \in CounterSet : next = [entry EXCEPT !.until = now + Window]
  BY <1>2 DEF CounterSet
<1>4. next.count = entry.count /\ next.until = now + Window
  BY <1>3 DEF CounterSet
<1>5. counter'[key] = next
  BY <1>1, <1>3 DEF SharedExpire
<1>6. entry.count > 0 /\ WindowsOK(entry, CountedFor(key), now)
  BY <1>1 DEF SharedOK
<1>7. WindowsOK(next, CountedFor(key), now)
  BY <1>4, <1>6, ExpiringWindows
<1>8. \A d \in Calls : Keeps(d, key)
  BY CallKeeps
<1>9. \A d \in Calls : ~ (Counts(call'[d], key) /\ call'[d].pc = "expire")
  <2> SUFFICES ASSUME NEW d \in Calls, Counts(call'[d], key), call'[d].pc = "expire"
               PROVE  FALSE
    OBVIOUS
  <2>1. d # c /\ call'[d] = call[d]
    OBVIOUS
  <2>2. Counts(call[d], key) /\ call[d].pc = "expire"
    BY <2>1
  <2> QED
    BY <2>1, <2>2 DEF SharedOK
<1> QED
  BY <1>5, <1>7, <1>8, <1>9, SharedKept

\* A counter that counted for a call that judges in another store.
LEMMA SharedIncrementLost ==
  ASSUME NEW key \in CounterKeys, SharedOK(key), counter \in [CounterKeys -> CounterSet],
         now \in Nat, now' = now, SharedIncrement(key),
         allowed'["shared"][key] = allowed["shared"][key],
         \A d \in Calls : Keeps(d, key)
  PROVE  SharedOK(key)'
<1>1. PICK entry \in CounterSet : entry = counter[key]
  OBVIOUS
<1>2. PICK n \in Nat : n = entry.count + 1
  BY DEF CounterSet
<1>3. PICK next \in CounterSet : next = [entry EXCEPT !.count = n]
  BY DEF CounterSet
<1>4. next.count = n /\ next.until = entry.until
  BY <1>3 DEF CounterSet
<1>5. counter'[key] = next
  BY <1>1, <1>2, <1>3 DEF SharedIncrement
<1>6. WindowsOK(next, CountedFor(key) \cup {Allowance(next.count, now)}, now)
  BY <1>1, <1>2, <1>4, CountedWindows DEF SharedOK
<1>7. WindowsOK(next, CountedFor(key), now)
  BY <1>6, PartOfWindows
<1>8. ASSUME NEW d \in Calls, Counts(call'[d], key), call'[d].pc = "expire"
      PROVE  next.count > 0 /\ next.until = 0
  <2>1. entry.count > 0 /\ entry.until = 0
    BY <1>1, <1>8 DEF SharedOK, Keeps
  <2> QED
    BY <1>2, <1>4, <2>1 DEF CounterSet
<1> QED
  BY <1>5, <1>7, <1>8, SharedKept

\* The window of a counter is set.
LEMMA WindowSetKeepsQuota ==
  ASSUME ServicesInv, QuotaInv, NEW c \in Calls, WindowSet(c)
  PROVE  QuotaInv'
<1>1. PICK k \in CallSet : k = call[c] /\ CallOK(k)
  BY CallShape
<1>2. /\ k.pc = "expire" /\ k.counterKey \in CounterKeys
      /\ UNCHANGED <<now, memoryCounter, allowed>>
  BY <1>1 DEF WindowSet, CallOK, historyVars
<1>3. PICK key \in CounterKeys : key = k.counterKey
  BY <1>2
<1>4. /\ call \in [Calls -> CallSet] /\ now \in Nat /\ counter \in [CounterKeys -> CounterSet]
  BY DEF ServicesInv, ServicesTypeOK, CounterSet
<1>5. PICK new : new = [k EXCEPT !.pc = "ttl"]
  OBVIOUS
<1>6. /\ new.count = k.count /\ new.since = k.since /\ new.counterKey = key /\ new.pc = "ttl"
  BY <1>3, <1>5 DEF CallSet
<1>7. call'[c] = new /\ \A d \in Calls : d # c => call'[d] = call[d]
  BY <1>1, <1>4, <1>5 DEF WindowSet, Go
<1>8. Counts(call[c], key)
  BY <1>1, <1>2, <1>3 DEF Counts
<1>9. SharedExpire(key)
  BY <1>1, <1>3 DEF WindowSet
<1>10. SharedOK(key)'
  <2>1. SharedOK(key) /\ allowed'["shared"][key] = allowed["shared"][key] /\ now' = now
    BY <1>2 DEF QuotaInv
  <2>2. Keeps(c, key) /\ call'[c].pc # "expire" /\ call[c].pc = "expire"
    BY <1>1, <1>2, <1>6, <1>7, <1>8 DEF Keeps
  <2> QED
    BY <1>4, <1>7, <1>8, <1>9, <2>1, <2>2, SharedExpires
<1>11. ASSUME NEW other \in CounterKeys, other # key
       PROVE  SharedOK(other)'
  <2>1. SharedOK(other) /\ counter'[other] = counter[other]
    BY <1>4, <1>9, <1>11 DEF QuotaInv, SharedExpire
  <2>2. ~ Counts(call'[c], other)
    BY <1>6, <1>7, <1>11 DEF Counts
  <2>3. \A d \in Calls : Keeps(d, other)
    BY <1>7, <2>2, CallKeeps
  <2> QED
    BY <1>2, <2>1, <2>3, SharedStays
<1>12. \A p \in Processes, other \in CounterKeys : MemoryOK(p, other)'
  BY <1>2, MemoryStays DEF QuotaInv
<1> QED
  BY <1>2, <1>10, <1>11, <1>12 DEF QuotaInv

\* The request gets its answer of the shared store.
LEMMA TtlAnsweredKeepsQuota ==
  ASSUME ServicesInv, QuotaInv, NEW c \in Calls, TtlAnswered(c)
  PROVE  QuotaInv'
<1>1. PICK k \in CallSet : k = call[c] /\ CallOK(k)
  BY CallShape
<1>2. /\ k.pc = "ttl" /\ k.counterKey \in CounterKeys
      /\ UNCHANGED <<now, counter, memoryCounter>>
  BY <1>1 DEF TtlAnswered, CallOK, storeVars
<1>3. PICK key \in CounterKeys : key = k.counterKey
  BY <1>2
<1>4. call \in [Calls -> CallSet] /\ allowed \in [Stores -> [CounterKeys -> SUBSET AllowanceSet]]
  BY DEF ServicesInv, ServicesTypeOK, QuotaInv
<1>5. /\ call'[c].pc \notin {"expire", "ttl"}
      /\ \A d \in Calls : d # c => call'[d] = call[d]
  <2>1. Finish(c) \/ Go(c, "upstream")
    BY DEF TtlAnswered, JudgeQuota, IssueToken, Forward
  <2>2. CASE Finish(c)
    BY <1>4, <2>2 DEF Finish, Idle
  <2>3. CASE Go(c, "upstream")
    BY <1>4, <2>3 DEF Go, CallSet
  <2> QED
    BY <2>1, <2>2, <2>3
<1>6. CASE UNCHANGED allowed
  BY <1>2, <1>5, <1>6, QuietKeepsQuota
<1>7. CASE /\ WithinQuota(k.count)
           /\ allowed' = [allowed EXCEPT !["shared"][key] = @ \cup {Counted(k)}]
  <2>1. "shared" \in Stores /\ \A p \in Processes : p \in Stores /\ p # "shared"
    BY Bounds DEF Stores
  <2>2. /\ allowed'["shared"][key] = allowed["shared"][key] \cup {Counted(k)}
        /\ \A other \in CounterKeys : other # key =>
              allowed'["shared"][other] = allowed["shared"][other]
        /\ \A s \in Stores : s # "shared" => allowed'[s] = allowed[s]
    BY <1>4, <1>7, <2>1
  <2>3. Counts(call[c], key) /\ ~ Counts(call'[c], key)
    BY <1>1, <1>2, <1>3, <1>5 DEF Counts
  <2>4. Counted(k) \in AllowanceSet /\ Counted(k).count <= Quota
    <3>1. Counted(k) \in CountedFor(key)
      BY <1>1, <2>3 DEF CountedFor
    <3>2. CountedFor(key) \subseteq AllowanceSet
      BY DEF QuotaInv, SharedOK, WindowsOK
    <3>3. Counted(k).count <= Quota
      BY <1>7 DEF Counted, Allowance, WithinQuota
    <3> QED
      BY <3>1, <3>2, <3>3
  <2>5. allowed' \in [Stores -> [CounterKeys -> SUBSET AllowanceSet]]
    <3>1. PICK more \in SUBSET AllowanceSet : more = allowed["shared"][key] \cup {Counted(k)}
      BY <1>4, <2>1, <2>4
    <3>2. allowed' = [allowed EXCEPT !["shared"][key] = more]
      BY <1>7, <3>1
    <3> QED
      BY <1>4, <3>2
  <2>6. \A s \in Stores, other \in CounterKeys : \A e \in allowed'[s][other] : e.count <= Quota
    BY <2>2, <2>4 DEF QuotaInv
  <2>7. SharedOK(key)'
    <3>1. SharedOK(key) /\ Counted(k) = Counted(call[c])
      BY <1>1 DEF QuotaInv
    <3> QED
      BY <1>2, <1>5, <2>2, <2>3, <3>1, SharedAllows
  <2>8. ASSUME NEW other \in CounterKeys, other # key
        PROVE  SharedOK(other)'
    <3>1. \A d \in Calls : Keeps(d, other)
      BY <1>5, CallKeeps DEF Counts
    <3>2. SharedOK(other) /\ allowed'["shared"][other] = allowed["shared"][other]
      BY <2>2, <2>8 DEF QuotaInv
    <3> QED
      BY <1>2, <3>1, <3>2, SharedStays
  <2>9. \A p \in Processes, other \in CounterKeys : MemoryOK(p, other)'
    BY <1>2, <2>1, <2>2, MemoryStays DEF QuotaInv
  <2> QED
    BY <1>2, <2>5, <2>6, <2>7, <2>8, <2>9 DEF QuotaInv
<1> QED
  BY <1>1, <1>3, <1>6, <1>7 DEF TtlAnswered, JudgeQuota, Counted

\* The request counts in the memory of its process; the shared counter keeps what it had
\* counted.
LEMMA CounterLostKeepsQuota ==
  ASSUME ServicesInv, QuotaInv, NEW c \in Calls, CounterLost(c)
  PROVE  QuotaInv'
<1>1. PICK k \in CallSet : k = call[c] /\ CallOK(k)
  BY CallShape
<1>2. /\ k.pc \in {"increment", "expire", "ttl"} /\ UNCHANGED now
      /\ k.counterKey \in CounterKeys /\ k.process \in Processes
  BY <1>1 DEF CounterLost, CallOK
<1>3. PICK key \in CounterKeys : key = k.counterKey
  BY <1>2
<1>4. PICK p \in Processes : p = k.process
  BY <1>2
<1>5. /\ call \in [Calls -> CallSet] /\ now \in Nat /\ counter \in [CounterKeys -> CounterSet]
      /\ allowed \in [Stores -> [CounterKeys -> SUBSET AllowanceSet]]
      /\ memoryCounter \in [Processes -> [CounterKeys -> CounterSet]]
      /\ p \in Stores /\ p # "shared"
  BY Bounds DEF ServicesInv, ServicesTypeOK, QuotaInv, CounterSet, Stores
<1>6. /\ call'[c].pc \notin {"expire", "ttl"}
      /\ \A d \in Calls : d # c => call'[d] = call[d]
  <2>1. Finish(c) \/ Go(c, "upstream")
    BY DEF CounterLost, JudgeQuota, IssueToken, Forward
  <2>2. CASE Finish(c)
    BY <1>5, <2>2 DEF Finish, Idle
  <2>3. CASE Go(c, "upstream")
    BY <1>5, <2>3 DEF Go, CallSet
  <2> QED
    BY <2>1, <2>2, <2>3
<1>7. \A d \in Calls, other \in CounterKeys : Keeps(d, other)
  BY <1>6, CallKeeps DEF Counts
<1>8. PICK entry \in CounterSet : entry = memoryCounter[p][key]
  BY <1>5
<1>9. PICK n \in Nat : n = entry.count + 1
  BY DEF CounterSet
<1>10. PICK next : next = [count |-> n,
                           until |-> IF entry.count = 0 THEN now + Window ELSE entry.until]
  OBVIOUS
<1>11. PICK all \in SUBSET AllowanceSet : all = allowed[p][key]
  BY <1>5
<1>12. /\ next \in CounterSet /\ Allowance(n, now) \in AllowanceSet
       /\ WindowsOK(next, all \cup {Allowance(n, now)}, now)
       /\ WindowsOK(next, all, now)
  <2>1. WindowsOK(entry, all, now)
    <3>1. MemoryOK(p, key)
      BY DEF QuotaInv
    <3> QED
      BY <1>8, <1>11, <3>1 DEF MemoryOK
  <2>2. now \in Nat
    BY <1>5
  <2> QED
    BY <1>9, <1>10, <2>1, <2>2, MemoryCounts
<1>13. memoryCounter' = [memoryCounter EXCEPT ![p][key] = next]
  <2>1. MemoryIncrement(p, key)
    BY <1>1, <1>3, <1>4 DEF CounterLost
  <2> QED
    BY <1>5, <1>8, <1>9, <1>10, <2>1 DEF MemoryIncrement
<1>14. PICK more \in SUBSET AllowanceSet :
          /\ more = all \/ (n <= Quota /\ more = all \cup {Allowance(n, now)})
          /\ allowed' = [allowed EXCEPT ![p][key] = more]
  <2>1. JudgeQuota(c, p, n, now)
    BY <1>1, <1>3, <1>4, <1>8, <1>9 DEF CounterLost, MemoryCount
  <2>2. CASE UNCHANGED allowed
    <3>1. allowed' = [allowed EXCEPT ![p][key] = all]
      BY <1>5, <1>11, <2>2
    <3> QED
      BY <3>1
  <2>3. CASE /\ WithinQuota(n)
             /\ allowed' = [allowed EXCEPT ![p][key] = @ \cup {Allowance(n, now)}]
    <3>1. allowed' = [allowed EXCEPT ![p][key] = all \cup {Allowance(n, now)}]
      BY <1>5, <1>11, <2>3
    <3> QED
      BY <1>12, <2>3, <3>1 DEF WithinQuota
  <2> QED
    BY <1>1, <1>3, <2>1, <2>2, <2>3 DEF JudgeQuota
<1>15. /\ memoryCounter' \in [Processes -> [CounterKeys -> CounterSet]]
       /\ memoryCounter'[p][key] = next
       /\ \A q \in Processes, other \in CounterKeys : q # p \/ other # key =>
             memoryCounter'[q][other] = memoryCounter[q][other]
  BY <1>5, <1>12, <1>13
<1>16. /\ allowed' \in [Stores -> [CounterKeys -> SUBSET AllowanceSet]]
       /\ allowed'[p][key] = more
       /\ \A s \in Stores, other \in CounterKeys : s # p \/ other # key =>
             allowed'[s][other] = allowed[s][other]
  BY <1>5, <1>14
<1>17. \A s \in Stores, other \in CounterKeys : \A e \in allowed'[s][other] : e.count <= Quota
  <2>1. \A e \in all : e.count <= Quota
    BY <1>5, <1>11 DEF QuotaInv
  <2>2. \A e \in more : e.count <= Quota
    BY <1>14, <2>1 DEF Allowance
  <2> QED
    BY <1>16, <2>2 DEF QuotaInv
<1>18. ASSUME NEW q \in Processes, NEW other \in CounterKeys
       PROVE  MemoryOK(q, other)'
  <2>1. CASE q = p /\ other = key
    <3>1. WindowsOK(next, more, now)
      BY <1>12, <1>14
    <3>2. WindowsOK(memoryCounter'[q][other], allowed'[q][other], now')
      BY <1>2, <1>15, <1>16, <2>1, <3>1
    <3> QED
      BY <3>2 DEF MemoryOK, WindowsOK
  <2>2. CASE q # p \/ other # key
    <3>1. MemoryOK(q, other) /\ q \in Stores
      BY DEF QuotaInv, Stores
    <3> QED
      BY <1>2, <1>15, <1>16, <2>2, <3>1, MemoryStays
  <2> QED
    BY <2>1, <2>2
<1>19. \A other \in CounterKeys : allowed'["shared"][other] = allowed["shared"][other]
  BY <1>5, <1>16 DEF Stores
<1>20. SharedOK(key)'
  <2>0. SharedOK(key)
    BY DEF QuotaInv
  <2>1. CASE UNCHANGED counter
    BY <1>2, <1>7, <1>19, <2>0, <2>1, SharedStays
  <2>2. CASE SharedIncrement(key)
    BY <1>2, <1>5, <1>7, <1>19, <2>0, <2>2, SharedIncrementLost
  <2>3. CASE k.pc = "expire" /\ SharedExpire(key)
    <3>1. Counts(call[c], key) /\ call[c].pc = "expire" /\ call'[c].pc # "expire"
      BY <1>1, <1>3, <1>6, <2>3 DEF Counts
    <3> QED
      BY <1>2, <1>5, <1>6, <1>7, <1>19, <2>0, <2>3, <3>1, SharedExpires
  <2> QED
    BY <1>1, <1>3, <2>1, <2>2, <2>3 DEF CounterLost
<1>21. ASSUME NEW other \in CounterKeys, other # key
       PROVE  SharedOK(other)'
  <2>1. SharedOK(other)
    BY DEF QuotaInv
  <2>2. counter'[other] = counter[other]
    <3>1. SharedIncrement(key) \/ SharedExpire(key) \/ UNCHANGED counter
      BY <1>1, <1>3 DEF CounterLost
    <3> QED
      BY <1>5, <1>21, <3>1 DEF SharedIncrement, SharedExpire
  <2> QED
    BY <1>2, <1>7, <1>19, <2>1, <2>2, SharedStays
<1> QED
  BY <1>15, <1>16, <1>17, <1>18, <1>20, <1>21 DEF QuotaInv

\* A process that ends takes its memory, and what it counted, with it.
LEMMA RestartKeepsQuota ==
  ASSUME ServicesInv, QuotaInv, NEW p \in Processes, Restart(p)
  PROVE  QuotaInv'
<1>1. /\ UNCHANGED <<now, counter>>
      /\ memoryCounter' = [memoryCounter EXCEPT ![p] = EmptyMemory.counters]
      /\ allowed' = [allowed EXCEPT ![p] = [k \in CounterKeys |-> {}]]
      /\ \A c \in Calls : call'[c] = call[c] \/ call'[c] = Idle
  BY DEF Restart, ForgetMemory
<1>2. /\ allowed \in [Stores -> [CounterKeys -> SUBSET AllowanceSet]]
      /\ memoryCounter \in [Processes -> [CounterKeys -> CounterSet]]
      /\ p \in Stores /\ p # "shared" /\ "shared" \in Stores
      /\ \A q \in Processes : q \in Stores
  BY Bounds DEF QuotaInv, Stores
<1>3. /\ EmptyMemory.counters \in [CounterKeys -> CounterSet]
      /\ \A key \in CounterKeys : EmptyMemory.counters[key] = NoCounter
  BY EmptyWindows DEF EmptyMemory
<1>4. /\ memoryCounter' \in [Processes -> [CounterKeys -> CounterSet]]
      /\ \A key \in CounterKeys : memoryCounter'[p][key] = NoCounter
      /\ \A q \in Processes : q # p => memoryCounter'[q] = memoryCounter[q]
  BY <1>1, <1>2, <1>3
<1>5. /\ allowed' \in [Stores -> [CounterKeys -> SUBSET AllowanceSet]]
      /\ \A key \in CounterKeys : allowed'[p][key] = {}
      /\ \A s \in Stores : s # p => allowed'[s] = allowed[s]
  BY <1>1, <1>2
<1>6. \A s \in Stores, key \in CounterKeys : \A e \in allowed'[s][key] : e.count <= Quota
  BY <1>5 DEF QuotaInv
<1>7. \A c \in Calls, key \in CounterKeys : Keeps(c, key)
  BY <1>1, CallKeeps DEF Counts, Idle
<1>8. \A key \in CounterKeys : SharedOK(key)'
  BY <1>1, <1>2, <1>5, <1>7, SharedStays DEF QuotaInv
<1>9. ASSUME NEW q \in Processes, NEW key \in CounterKeys
      PROVE  MemoryOK(q, key)'
  <2>1. CASE q = p
    <3>1. WindowsOK(memoryCounter'[q][key], allowed'[q][key], now')
      BY <1>4, <1>5, <2>1, EmptyWindows
    <3> QED
      BY <3>1 DEF MemoryOK, WindowsOK
  <2>2. CASE q # p
    BY <1>1, <1>2, <1>4, <1>5, <2>2, MemoryStays DEF QuotaInv
  <2> QED
    BY <2>1, <2>2
<1> QED
  BY <1>4, <1>5, <1>6, <1>8, <1>9 DEF QuotaInv

\* Windows lapse.
LEMMA TickKeepsQuota ==
  ASSUME ServicesInv, QuotaInv, Tick
  PROVE  QuotaInv'
<1>1. /\ UNCHANGED <<call, allowed>>
      /\ now' = now + 1
      /\ counter' = [k \in CounterKeys |-> UnlapsedCounter(now', counter[k])]
      /\ memoryCounter' =
            [p \in Processes |-> [k \in CounterKeys |-> UnlapsedCounter(now', memoryCounter[p][k])]]
  BY DEF Tick, StoreTick, historyVars
<1>2. /\ now \in Nat /\ counter \in [CounterKeys -> CounterSet]
      /\ memoryCounter \in [Processes -> [CounterKeys -> CounterSet]]
  BY DEF ServicesInv, ServicesTypeOK, QuotaInv, CounterSet
<1>3. ASSUME NEW key \in CounterKeys
      PROVE  SharedOK(key)'
  <2>1. PICK entry \in CounterSet : entry = counter[key]
    BY <1>2
  <2>2. PICK next : next = UnlapsedCounter(now + 1, entry)
    OBVIOUS
  <2>3. counter'[key] = next
    BY <1>1, <2>1, <2>2
  <2>4. SharedOK(key) /\ WindowsOK(entry, CountedFor(key), now)
    BY <2>1 DEF QuotaInv, SharedOK
  <2>5. WindowsOK(next, CountedFor(key), now + 1)
    BY <1>2, <2>2, <2>4, LaterWindows
  <2>6. entry.until = 0 => next = entry
    BY <2>2 DEF UnlapsedCounter
  <2>7. \A d \in Calls : Counts(call'[d], key) /\ call'[d].pc = "expire" =>
           next.count > 0 /\ next.until = 0
    BY <1>1, <2>1, <2>4, <2>6 DEF SharedOK
  <2>8. \A d \in Calls : Keeps(d, key)
    BY <1>1, CallKeeps
  <2> QED
    BY <1>1, <2>3, <2>4, <2>5, <2>7, <2>8, SharedKept
<1>4. ASSUME NEW p \in Processes, NEW key \in CounterKeys
      PROVE  MemoryOK(p, key)' /\ memoryCounter'[p][key] \in CounterSet
  <2>1. PICK entry \in CounterSet : entry = memoryCounter[p][key]
    BY <1>2
  <2>2. PICK next : next = UnlapsedCounter(now + 1, entry)
    OBVIOUS
  <2>3. memoryCounter'[p][key] = next
    BY <1>1, <2>1, <2>2
  <2>4. WindowsOK(entry, allowed[p][key], now)
    BY <2>1 DEF QuotaInv, MemoryOK
  <2>5. next \in CounterSet /\ WindowsOK(next, allowed[p][key], now + 1)
    BY <1>2, <2>2, <2>4, LaterWindows
  <2>6. WindowsOK(memoryCounter'[p][key], allowed'[p][key], now')
    BY <1>1, <2>3, <2>5
  <2> QED
    BY <2>3, <2>5, <2>6 DEF MemoryOK, WindowsOK
<1>5. memoryCounter' \in [Processes -> [CounterKeys -> CounterSet]]
  BY <1>1, <1>4
<1> QED
  BY <1>1, <1>3, <1>4, <1>5 DEF QuotaInv

\* No call counts that did not count before.
Uncounted == \A d \in Calls : call'[d] = call[d] \/ call'[d].pc \notin {"expire", "ttl"}

\* So when a call ends,
LEMMA FinishUncounted ==
  ASSUME ServicesInv, NEW c, Finish(c)
  PROVE  Uncounted
BY DEF ServicesInv, ServicesTypeOK, Finish, Idle, Uncounted

\* when it goes on to a phase that counts nothing,
LEMMA GoUncounted ==
  ASSUME ServicesInv, NEW c, NEW pc, pc \notin {"expire", "ttl"}, Go(c, pc)
  PROVE  Uncounted
BY DEF ServicesInv, ServicesTypeOK, CallSet, Go, Uncounted

\* and when it answers.
LEMMA AnswerUncounted ==
  ASSUME ServicesInv, NEW c, NEW same, Answer(c, same)
  PROVE  Uncounted
BY DEF ServicesInv, ServicesTypeOK, CallSet, Answer, Uncounted

\* The replay check and what follows it use no counter.
LEMMA ReplayKeepsQuota ==
  ASSUME ServicesInv, QuotaInv, NEW c \in Calls, ReplayAnswered(c) \/ ReplayLost(c)
  PROVE  QuotaInv'
<1>1. /\ UNCHANGED <<now, counter, memoryCounter, allowed>>
      /\ AfterReplay(c) \/ Finish(c)
  BY DEF ReplayAnswered, ReplayLost, UseMemory, JudgeReplay, historyVars
<1>2. Uncounted
  <2>1. CASE Finish(c)
    BY <2>1, FinishUncounted
  <2>2. CASE RelayPassed(c) \/ ChatPassed(c)
    BY <2>2, GoUncounted DEF RelayPassed, ChatPassed
  <2>3. CASE DemoAgentPassed(c)
    BY <2>3 DEF DemoAgentPassed, ServicesInv, ServicesTypeOK, CallSet, Uncounted
  <2> QED
    BY <1>1, <2>1, <2>2, <2>3 DEF AfterReplay, VerifyPassed, CensusPassed
<1> QED
  BY <1>1, <1>2, QuietKeepsQuota DEF Uncounted

\* Nor does any other step of a request, but for those of its count.
LEMMA PlainStepKeepsQuota ==
  ASSUME ServicesInv, QuotaInv, NEW c \in Calls,
         \/ Accepted(c) \/ CallFailed(c) \/ AgentIdAnswered(c) \/ NullifierAnswered(c)
         \/ CredentialsAnswered(c) \/ Send(c) \/ ReceiptAnswered(c) \/ ReceiptLate(c)
         \/ CountsAnswered(c) \/ FactAnswered(c) \/ FactsComplete(c) \/ SameHumanAnswered(c)
         \/ UpstreamAnswered(c)
  PROVE  QuotaInv'
<1>1. UNCHANGED <<now, counter, memoryCounter, allowed>>
  BY DEF Accepted, CallFailed, AgentIdAnswered, NullifierAnswered, CredentialsAnswered, Send,
         ReceiptAnswered, ReceiptLate, CountsAnswered, FactAnswered, FactsComplete,
         SameHumanAnswered, UpstreamAnswered, storeVars, historyVars
<1>2. call \in [Calls -> CallSet]
  BY DEF ServicesInv, ServicesTypeOK
<1>3. CASE \/ CallFailed(c) \/ NullifierAnswered(c) \/ CredentialsAnswered(c)
           \/ ReceiptAnswered(c) \/ ReceiptLate(c) \/ UpstreamAnswered(c)
  <2>1. Finish(c) \/ \E pc \in {"credentials", "send", "counts"} : Go(c, pc)
    BY <1>3 DEF CallFailed, NullifierAnswered, CredentialsAnswered, ReceiptAnswered, ReceiptLate,
                UpstreamAnswered
  <2>2. Uncounted
    BY <2>1, FinishUncounted, GoUncounted
  <2> QED
    BY <1>1, <2>2, QuietKeepsQuota DEF Uncounted
<1>4. CASE FactsComplete(c) \/ SameHumanAnswered(c)
  <2>1. Go(c, "sameHuman") \/ \E same : Answer(c, same)
    BY <1>4 DEF FactsComplete, SameHumanAnswered
  <2>2. Uncounted
    BY <2>1, GoUncounted, AnswerUncounted
  <2> QED
    BY <1>1, <2>2, QuietKeepsQuota DEF Uncounted
<1>5. CASE Accepted(c)
  <2>1. Uncounted
    BY <1>2, <1>5 DEF Accepted, CheckReplay, CallSet, Uncounted
  <2> QED
    BY <1>1, <2>1, QuietKeepsQuota DEF Uncounted
<1>6. CASE AgentIdAnswered(c) \/ CountsAnswered(c)
  <2>1. Uncounted
    BY <1>2, <1>6 DEF AgentIdAnswered, CountsAnswered, CallSet, Uncounted
  <2> QED
    BY <1>1, <2>1, QuietKeepsQuota DEF Uncounted
<1>7. CASE FactAnswered(c)
  <2>1. call[c].pc = "facts"
    BY <1>7 DEF FactAnswered
  <2>2. Uncounted
    BY ZenonT(40), <1>2, <1>7, <2>1 DEF FactAnswered, CallSet, Uncounted
  <2> QED
    BY <1>1, <2>2, QuietKeepsQuota DEF Uncounted
<1>8. CASE Send(c)
  <2>1. Uncounted
    <3>1. CASE Finish(c)
      BY <3>1, FinishUncounted
    <3>2. CASE call' = [call EXCEPT ![c].pc = "receipt", ![c].tx = Len(txs')]
      BY <1>2, <3>2 DEF CallSet, Uncounted
    <3> QED
      BY <1>8, <3>1, <3>2 DEF Send
  <2> QED
    BY <1>1, <2>1, QuietKeepsQuota DEF Uncounted
<1> QED
  BY <1>3, <1>4, <1>5, <1>6, <1>7, <1>8

\* A request that comes is not counted yet.
LEMMA ReceiveKeepsQuota ==
  ASSUME ServicesInv, QuotaInv, NEW c \in Calls, NEW p,
         \/ \E request \in scene.requests : Receive(c, p, request)
         \/ \E route \in ProxyRoutes, client \in Clients : ReceiveProxy(c, p, route, client)
  PROVE  QuotaInv'
<1>1. UNCHANGED <<now, counter, memoryCounter, allowed>>
  BY DEF Receive, ReceiveProxy, storeVars, historyVars
<1>2. PICK new : call' = [call EXCEPT ![c] = new] /\ new.pc \notin {"expire", "ttl"}
  <2>1. ASSUME NEW request, Receive(c, p, request)
        PROVE  \E new : call' = [call EXCEPT ![c] = new] /\ new.pc \notin {"expire", "ttl"}
    <3> DEFINE new == [Idle EXCEPT !.pc = IF request.route \in Relays THEN "simulate" ELSE "verify",
                                   !.process = p, !.request = request]
    <3>1. call' = [call EXCEPT ![c] = new]
      BY <2>1 DEF Receive, Begin
    <3>2. new.pc \notin {"expire", "ttl"}
      BY DEF Idle
    <3> QED
      BY <3>1, <3>2
  <2>2. ASSUME NEW route, NEW client, ReceiveProxy(c, p, route, client)
        PROVE  \E new : call' = [call EXCEPT ![c] = new] /\ new.pc \notin {"expire", "ttl"}
    <3> DEFINE new == [Idle EXCEPT !.pc = "increment", !.process = p,
                                   !.counterKey = <<route, client>>]
    <3>1. call' = [call EXCEPT ![c] = new]
      BY <2>2 DEF ReceiveProxy
    <3>2. new.pc \notin {"expire", "ttl"}
      BY DEF Idle
    <3> QED
      BY <3>1, <3>2
  <2> QED
    BY <2>1, <2>2
<1>3. Uncounted
  BY <1>2 DEF ServicesInv, ServicesTypeOK, Uncounted
<1> QED
  BY <1>1, <1>3, QuietKeepsQuota DEF Uncounted

\* At first nothing is counted.
LEMMA InitHoldsQuota ==
  ASSUME Init
  PROVE  QuotaInv
<1>1. /\ \A key \in CounterKeys : counter[key] = NoCounter
      /\ memoryCounter \in [Processes -> [CounterKeys -> CounterSet]]
      /\ \A p \in Processes, key \in CounterKeys : memoryCounter[p][key] = NoCounter
      /\ allowed \in [Stores -> [CounterKeys -> SUBSET AllowanceSet]]
      /\ \A s \in Stores, key \in CounterKeys : allowed[s][key] = {}
      /\ \A c \in Calls : call[c].pc = "idle"
      /\ "shared" \in Stores /\ \A p \in Processes : p \in Stores
  BY EmptyWindows DEF Init, StoreInit, EmptyMemory, Idle, Stores
<1>2. ASSUME NEW key \in CounterKeys
      PROVE  SharedOK(key)
  <2>1. \A c \in Calls : ~ Counts(call[c], key)
    BY <1>1 DEF Counts
  <2>2. CountedFor(key) = {}
    BY <1>1, <2>1 DEF CountedFor
  <2> QED
    BY <1>1, <2>1, <2>2, EmptyWindows DEF SharedOK
<1>3. \A p \in Processes, key \in CounterKeys : MemoryOK(p, key)
  BY <1>1, EmptyWindows DEF MemoryOK
<1> QED
  BY <1>1, <1>2, <1>3 DEF QuotaInv

\* Every step keeps what the counters tell.
LEMMA NextKeepsQuota ==
  ASSUME ServicesInv, QuotaInv, [Next]_vars
  PROVE  QuotaInv'
<1>1. scene.calls \subseteq Calls /\ scene.processes \subseteq Processes
  BY Chosen DEF ServicesInv, ServicesTypeOK
<1>2. CASE UNCHANGED <<storeVars, call, historyVars>>
  BY <1>2, QuietKeepsQuota DEF storeVars, historyVars
<1>3. ASSUME NEW c \in scene.calls, NEW p \in scene.processes,
             \/ \E request \in scene.requests : Receive(c, p, request)
             \/ \E route \in ProxyRoutes, client \in Clients : ReceiveProxy(c, p, route, client)
      PROVE  QuotaInv'
  BY <1>1, <1>3, ReceiveKeepsQuota
<1>4. ASSUME NEW c \in scene.calls,
             \/ Accepted(c) \/ CallFailed(c) \/ AgentIdAnswered(c) \/ NullifierAnswered(c)
             \/ CredentialsAnswered(c) \/ Send(c) \/ ReceiptAnswered(c) \/ ReceiptLate(c)
             \/ CountsAnswered(c) \/ FactAnswered(c) \/ FactsComplete(c) \/ SameHumanAnswered(c)
             \/ UpstreamAnswered(c)
      PROVE  QuotaInv'
  BY <1>1, <1>4, PlainStepKeepsQuota
<1>5. ASSUME NEW c \in scene.calls,
             \/ ReplayAnswered(c) \/ ReplayLost(c) \/ Incremented(c) \/ WindowSet(c)
             \/ TtlAnswered(c) \/ CounterLost(c)
      PROVE  QuotaInv'
  BY <1>1, <1>5, ReplayKeepsQuota, IncrementedKeepsQuota, WindowSetKeepsQuota,
     TtlAnsweredKeepsQuota, CounterLostKeepsQuota
<1>6. ASSUME NEW p \in scene.processes, Restart(p)
      PROVE  QuotaInv'
  BY <1>1, <1>6, RestartKeepsQuota
<1>7. CASE (\E i \in DOMAIN txs : Mine(i)) \/ RegistryStep \/ UNCHANGED vars
  BY <1>2, <1>7 DEF Mine, RegistryStep, vars
<1>8. CASE Tick
  BY <1>8, TickKeepsQuota
<1> QED
  BY <1>3, <1>4, <1>5, <1>6, <1>7, <1>8 DEF Next

\* Whatever commands to the shared counters fail and whichever processes end, no store lets
\* a client have twice the quota in a time of one window.
THEOREM QuotaCorrect == Spec => []QuotaHolds
<1>1. ASSUME QuotaInv
      PROVE  QuotaHolds
  <2> SUFFICES ASSUME NEW s \in Stores, NEW key \in CounterKeys, NEW t \in 1 .. MaxTime
               PROVE  Cardinality({e \in allowed[s][key] : t - Window < e.at /\ e.at <= t})
                         <= 2 * Quota - 1
    BY DEF QuotaHolds
  <2>1. allowed[s][key] \subseteq AllowanceSet /\ \A e \in allowed[s][key] : e.count <= Quota
    BY <1>1 DEF QuotaInv
  <2>2. Spread(allowed[s][key])
    <3>1. CASE s = "shared"
      <4>1. WindowsOK(counter[key], CountedFor(key), now)
        BY <1>1 DEF QuotaInv, SharedOK
      <4>2. allowed[s][key] \subseteq CountedFor(key)
        BY <3>1 DEF CountedFor
      <4> QED
        BY <4>1, <4>2 DEF WindowsOK, Spread
    <3>2. CASE s \in Processes
      BY <1>1, <3>2 DEF QuotaInv, MemoryOK, WindowsOK
    <3> QED
      BY <3>1, <3>2 DEF Stores
  <2>3. t \in Nat
    OBVIOUS
  <2> QED
    BY <2>1, <2>2, <2>3, TwiceTheQuota
<1>2. Init => QuotaInv
  BY InitHoldsQuota
<1>3. ServicesInv /\ QuotaInv /\ [Next]_vars => QuotaInv'
  BY NextKeepsQuota
<1> QED
  BY <1>1, <1>2, <1>3, ServicesCorrect, PTL DEF Spec
=============================================================================
