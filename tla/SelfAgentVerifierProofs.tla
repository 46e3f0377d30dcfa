------------------------ MODULE SelfAgentVerifierProofs ------------------------
(***************************************************************************)
(* What a verifier accepts was true, and what it let through it remembers, *)
(* for every number of calls, requests, agents, providers and instants and *)
(* every service.                                                          *)
(***************************************************************************)
EXTENDS SelfAgentVerifier, FiniteSetTheorems, TLAPS

-----------------------------------------------------------------------------
(* The invariant.                                                          *)

Slots == 0 .. MaxIssued

QuestionSet == DOMAIN NoAnswers

CallSet ==
    [pc : Phases, job : [req : Requests \cup {NoRequest}, entered : Nat], since : Nat,
     known : SUBSET QuestionSet, answers : Answers]

Entries == [answers : Answers, expiresAt : Nat]

\* The chain: numbers are never used twice, and what was last so is so now or was.
ChainOK ==
    /\ Registry!LedgerOK
    /\ IsFiniteSet(ledger)
    /\ now \in Nat \ {0}
    /\ expiresAt \in [Slots -> Nat]
    /\ providerOf \in [Slots -> Providers \cup {NoProvider}]
    /\ selfProofProvider \in Providers
    /\ ledger \subseteq ever
    /\ ever \subseteq Registry!Entries
    /\ \A a \in ever : a.number <= issued
    /\ \A a, b \in ever : a.number = b.number => a = b
    /\ lastFresh \in [AgentIds -> Nat]
    /\ lastFew \in [Humans -> Nat]
    /\ lastSelf \in [Providers -> Nat]
    /\ \A id \in AgentIds : lastFresh[id] <= now /\ (Fresh(id) => lastFresh[id] = now)
    /\ \A h \in Humans :
          /\ lastFew[h] <= now
          /\ MaxAgentsPerHuman > 0 /\ Cardinality(Registry!HeldBy(h)) <= MaxAgentsPerHuman =>
                lastFew[h] = now
    /\ \A p \in Providers : lastSelf[p] <= now
    /\ lastSelf[selfProofProvider] = now

VerifierTypeOK ==
    /\ service \in Services
    /\ call \in [Calls -> CallSet]
    /\ cache \in [AgentKeySet -> Entries]
    /\ replayCache \subseteq Requests
    /\ IsFiniteSet(replayCache)
    /\ selfProviderCache \in [address : Providers \cup {NoProvider}, expiresAt : Nat]
    /\ passed \in [Requests -> Nat]

\* An agent of the key, and of the human when one is named.
Named(answers, key) ==
    \E a \in ever :
       /\ a.number = answers.getAgentId
       /\ a.key = key
       /\ answers.getHumanNullifier \in {a.human, NoHuman}

\* What was answered of an agent's proof and of its human's agents was so at the time
\* given or later.
FreshSince(answers, time) ==
    answers.isProofFresh =>
       answers.getAgentId \in AgentIds /\ lastFresh[answers.getAgentId] >= time

FewSince(answers, time) ==
    /\ MaxAgentsPerHuman > 0
    /\ answers.getHumanNullifier # NoHuman
    /\ answers.getAgentCountForHuman <= MaxAgentsPerHuman
    => lastFew[answers.getHumanNullifier] >= time

\* Something was asked of the agent that the key has.
IdentOK(k) ==
    /\ k.known \subseteq {"isVerifiedAgent", "getAgentId"}
    /\ k.answers.getHumanNullifier = NoHuman /\ ~ k.answers.isProofFresh
    /\ k.answers.getAgentId # 0 => Named(k.answers, k.job.req.key)

\* Then of its proof and its human.
DetailOK(k) ==
    /\ Named(k.answers, k.job.req.key)
    /\ FreshSince(k.answers, k.since)
    /\ "getHumanNullifier" \notin k.known => k.answers.getHumanNullifier = NoHuman
    /\ "getAgentCountForHuman" \in k.known =>
          "getHumanNullifier" \in k.known /\ FewSince(k.answers, k.since)

\* What a call goes on with was so since it entered, or shortly before.
JudgedOK(job, answers) ==
    LET earliest == job.entered - CacheTtl - RpcTimeout IN
    /\ answers.isProofFresh
    /\ Named(answers, job.req.key)
    /\ FreshSince(answers, earliest + 1)
    /\ FewSince(answers, earliest + 1)

\* A provider was the registry's own since the time given, or its address was cached then.
SelfSince(provider, time) ==
    /\ provider \in Providers
    /\ \/ lastSelf[provider] >= time
       \/ lastSelf[provider] > time - CacheTtl * ProviderTtlFactor

ScreenedOK(job, answers) ==
    /\ MaxAgentsPerHuman > 0 => answers.getAgentCountForHuman <= MaxAgentsPerHuman
    /\ RequireSelfProvider => SelfSince(answers.getProofProvider, job.entered)

CallOK(k) ==
    /\ k.pc \in Waiting => k.since <= now /\ now <= k.since + RpcTimeout
    /\ k.pc # "idle" => k.job.req \in Requests /\ k.job.entered <= now
    /\ k.pc \in {"ident", "detail"} => k.job.entered <= k.since
    /\ k.pc = "ident" => IdentOK(k)
    /\ k.pc = "detail" => DetailOK(k)
    /\ k.pc \in {"provider", "credentials", "valid"} => JudgedOK(k.job, k.answers)
    /\ k.pc \in {"credentials", "valid"} => ScreenedOK(k.job, k.answers)

CallsOK == \A c \in Calls : CallOK(call[c])

\* A cached entry that says that a proof is fresh is about an agent of the key, and was
\* so a wait before it was stored.
EntryOK(key, e) ==
    LET stored == e.expiresAt - CacheTtl IN
    e.answers.isProofFresh =>
       /\ Named(e.answers, key)
       /\ FreshSince(e.answers, stored - RpcTimeout)
       /\ FewSince(e.answers, stored - RpcTimeout)

CacheOK == \A key \in AgentKeySet : EntryOK(key, cache[key])

SelfProviderCacheOK ==
    selfProviderCache.expiresAt > 0 =>
       /\ selfProviderCache.address \in Providers
       /\ lastSelf[selfProviderCache.address] >=
             selfProviderCache.expiresAt - CacheTtl * ProviderTtlFactor

VerifierInv ==
    /\ VerifierTypeOK
    /\ ChainOK
    /\ CallsOK
    /\ CacheOK
    /\ SelfProviderCacheOK
    /\ RememberedUnlessFull

-----------------------------------------------------------------------------
(* The ledger of the registry stays in order.                              *)

\* The empty ledger is in order.
LEMMA InitLedgerOK ==
  ASSUME MaxIssued \in Nat, Registry!Init
  PROVE  Registry!LedgerOK
BY DEF Registry!Init, Registry!LedgerOK

\* An agent is admitted under the next number and a key that no live agent has.
LEMMA AdmitLedgerOK ==
  ASSUME MaxIssued \in Nat, Registry!LedgerOK, NEW h \in Humans, NEW k \in AgentKeySet,
         Registry!Admit(h, k)
  PROVE  Registry!LedgerOK'
BY DEF Registry!Admit, Registry!LedgerOK, Registry!Entries

\* A removal leaves the rest as it is.
LEMMA RemoveLedgerOK ==
  ASSUME Registry!LedgerOK, NEW a, Registry!Remove(a)
  PROVE  Registry!LedgerOK'
BY DEF Registry!Remove, Registry!LedgerOK

\* What leaves the agents and the count alone leaves them in order.
LEMMA StutterLedgerOK ==
  ASSUME Registry!LedgerOK, UNCHANGED <<ledger, issued>>
  PROVE  Registry!LedgerOK'
BY DEF Registry!LedgerOK

-----------------------------------------------------------------------------
(* Types.                                                                  *)

\* The bounds are natural numbers.
LEMMA Bounds ==
    /\ MaxIssued \in Nat /\ ProofAge \in Nat /\ ProviderTtlFactor \in Nat
    /\ RpcTimeout \in Nat /\ RpcTimeout > 0 /\ MaxTime \in Nat
    /\ AgentIds \subseteq Slots
    /\ \A r \in Requests : r.key \in AgentKeySet /\ r.ts \in Nat
BY VerifierAssumption DEF AgentIds, Slots

\* What a service chooses from.
LEMMA Chosen ==
  ASSUME service \in Services
  PROVE  /\ service.calls \subseteq Calls /\ service.requests \subseteq Requests
         /\ service.keys \subseteq AgentKeySet /\ service.humans \subseteq Humans
         /\ service.providers \subseteq Providers
         /\ service.registrations \in 0 .. MaxIssued
         /\ MaxAge \in Nat /\ CacheTtl \in Nat /\ MaxAgentsPerHuman \in Nat
         /\ ReplayCacheMaxEntries \in Nat
         /\ CacheTtl * ProviderTtlFactor \in Nat
<1>1. service \in Settings
  BY VerifierAssumption
<1>2. /\ service.calls \subseteq Calls /\ service.requests \subseteq Requests
      /\ service.keys \subseteq AgentKeySet /\ service.humans \subseteq Humans
      /\ service.providers \subseteq Providers
      /\ service.registrations \in 0 .. MaxIssued
      /\ service.maxAge \in Nat /\ service.cacheTtl \in Nat
      /\ service.maxAgentsPerHuman \in Nat /\ service.replayCacheMax \in Nat
  BY <1>1 DEF Settings
<1>3. service.cacheTtl * ProviderTtlFactor \in Nat
  BY <1>2, Bounds
<1> QED
  BY <1>2, <1>3 DEF MaxAge, CacheTtl, MaxAgentsPerHuman, ReplayCacheMaxEntries

\* The settings stay.
LEMMA SettingsStay ==
  ASSUME UNCHANGED service
  PROVE  /\ MaxAge' = MaxAge /\ CacheTtl' = CacheTtl
         /\ MaxAgentsPerHuman' = MaxAgentsPerHuman
         /\ RequireSelfProvider' = RequireSelfProvider
         /\ EnableReplayProtection' = EnableReplayProtection
         /\ ReplayCacheMaxEntries' = ReplayCacheMaxEntries
BY DEF MaxAge, CacheTtl, MaxAgentsPerHuman, RequireSelfProvider, EnableReplayProtection,
       ReplayCacheMaxEntries

-----------------------------------------------------------------------------
(* The chain.                                                              *)

\* What the verifier relies on: the past stays as it was, and time goes on.
Later ==
    /\ now' \in Nat /\ now' >= now
    /\ ever \subseteq ever'
    /\ \A id \in AgentIds : lastFresh'[id] \in Nat /\ lastFresh'[id] >= lastFresh[id]
    /\ \A h \in Humans : lastFew'[h] \in Nat /\ lastFew'[h] >= lastFew[h]
    /\ \A p \in Providers : lastSelf'[p] \in Nat /\ lastSelf'[p] >= lastSelf[p]

\* The agents, their proofs and the clock, whatever the history says of them.
LedgerAndClock ==
    /\ Registry!LedgerOK
    /\ IsFiniteSet(ledger)
    /\ now \in Nat \ {0}
    /\ expiresAt \in [Slots -> Nat]
    /\ providerOf \in [Slots -> Providers \cup {NoProvider}]
    /\ selfProofProvider \in Providers
    /\ ledger \subseteq ever
    /\ ever \subseteq Registry!Entries
    /\ \A a \in ever : a.number <= issued
    /\ \A a, b \in ever : a.number = b.number => a = b

\* A registration takes a number that no agent ever had.
LEMMA RegisterKeepsLedger ==
  ASSUME service \in Services, LedgerAndClock,
         NEW h \in service.humans, NEW k \in service.keys, NEW p \in service.providers,
         Register(h, k, p)
  PROVE  LedgerAndClock' /\ now' = now /\ ever \subseteq ever'
<1> DEFINE new == [number |-> issued + 1, human |-> h, key |-> k]
<1>1. h \in Humans /\ k \in AgentKeySet /\ p \in Providers
  BY Chosen
<1>2. /\ issued < MaxIssued
      /\ Registry!Admit(h, k)
      /\ ledger' = ledger \cup {new}
      /\ issued' = issued + 1
      /\ expiresAt' = [expiresAt EXCEPT ![issued'] = now + ProofAge]
      /\ providerOf' = [providerOf EXCEPT ![issued'] = p]
      /\ ever' = ever \cup ledger'
      /\ UNCHANGED <<selfProofProvider, now>>
  BY DEF Register, Registry!Admit
<1>3. Registry!LedgerOK'
  BY <1>1, <1>2, AdmitLedgerOK, Bounds DEF LedgerAndClock
<1>4. IsFiniteSet(ledger')
  BY <1>2, FS_AddElement DEF LedgerAndClock
<1>5. issued \in 0 .. MaxIssued /\ issued + 1 \in 1 .. MaxIssued
  BY <1>2, Bounds DEF LedgerAndClock, Registry!LedgerOK
<1>6. /\ expiresAt' \in [Slots -> Nat]
      /\ providerOf' \in [Slots -> Providers \cup {NoProvider}]
  <2>1. now + ProofAge \in Nat
    BY Bounds DEF LedgerAndClock
  <2>2. expiresAt' = [expiresAt EXCEPT ![issued + 1] = now + ProofAge]
    BY <1>2
  <2>3. providerOf' = [providerOf EXCEPT ![issued + 1] = p]
    BY <1>2
  <2> QED
    BY <1>1, <2>1, <2>2, <2>3 DEF LedgerAndClock
<1>7. ever' = ever \cup {new}
  BY <1>2 DEF LedgerAndClock
<1>8. \A a \in ever : a.number \in Nat /\ a.number <= issued
  BY DEF LedgerAndClock, Registry!Entries
<1>9. new \in Registry!Entries /\ new.number = issued + 1
  BY <1>1, <1>5 DEF Registry!Entries
<1> HIDE DEF new
<1>10. \A a \in ever' : a.number <= issued'
  BY <1>2, <1>5, <1>7, <1>8, <1>9
<1>11. \A a, b \in ever' : a.number = b.number => a = b
  <2>1. \A a \in ever : a.number # new.number
    BY <1>5, <1>8, <1>9
  <2> QED
    BY <1>7, <2>1 DEF LedgerAndClock
<1> QED
  BY <1>2, <1>3, <1>4, <1>6, <1>7, <1>9, <1>10, <1>11 DEF LedgerAndClock

\* The other steps of the chain give out no number.
LEMMA ChainKeepsLedger ==
  ASSUME service \in Services, LedgerAndClock, ChainStep
  PROVE  LedgerAndClock' /\ now' \in Nat /\ now' >= now /\ ever \subseteq ever'
<1> USE DEF LedgerAndClock
<1>0. now \in Nat /\ now + 1 \in Nat \ {0} /\ now + 1 >= now /\ ProofAge \in Nat
  BY Bounds
<1>1. CASE \E h \in service.humans, k \in service.keys, p \in service.providers : Register(h, k, p)
  BY <1>0, <1>1, RegisterKeepsLedger
<1>2. ASSUME NEW a \in ledger, Revoke(a)
      PROVE  LedgerAndClock' /\ now' \in Nat /\ now' >= now /\ ever \subseteq ever'
  <2>1. Registry!Remove(a)
    BY <1>2 DEF Revoke
  <2>2. Registry!LedgerOK'
    BY <2>1, RemoveLedgerOK
  <2>3. ledger' = ledger \ {a} /\ IsFiniteSet(ledger')
    BY <2>1, FS_RemoveElement DEF Registry!Remove
  <2>4. issued' = issued /\ now' = now /\ ever' = ever /\ selfProofProvider' = selfProofProvider
    BY <1>2 DEF Revoke, Registry!Remove
  <2>5. /\ expiresAt' \in [Slots -> Nat]
        /\ providerOf' \in [Slots -> Providers \cup {NoProvider}]
    BY <1>2 DEF Revoke
  <2> QED
    BY <1>0, <2>2, <2>3, <2>4, <2>5
<1>3. ASSUME NEW a \in ledger, Refresh(a)
      PROVE  LedgerAndClock' /\ now' \in Nat /\ now' >= now /\ ever \subseteq ever'
  <2>1. UNCHANGED <<ledger, issued, providerOf, selfProofProvider, now, ever>>
    BY <1>3 DEF Refresh
  <2>2. Registry!LedgerOK'
    BY <2>1, StutterLedgerOK
  <2>3. expiresAt' \in [Slots -> Nat]
    <3>1. now + ProofAge \in Nat
      BY <1>0
    <3>2. expiresAt' = [expiresAt EXCEPT ![a.number] = now + ProofAge]
      BY <1>3 DEF Refresh
    <3> QED
      BY <3>1, <3>2
  <2> QED
    BY <1>0, <2>1, <2>2, <2>3
<1>4. ASSUME NEW l \in service.limits, SetLimit(l)
      PROVE  LedgerAndClock' /\ now' \in Nat /\ now' >= now /\ ever \subseteq ever'
  <2>1. UNCHANGED <<ledger, issued, expiresAt, providerOf, selfProofProvider, now, ever>>
    BY <1>4 DEF SetLimit, Registry!SetLimit
  <2>2. Registry!LedgerOK'
    BY <2>1, StutterLedgerOK
  <2> QED
    BY <1>0, <2>1, <2>2
<1>5. ASSUME NEW p \in service.providers, SetSelfProofProvider(p)
      PROVE  LedgerAndClock' /\ now' \in Nat /\ now' >= now /\ ever \subseteq ever'
  <2>1. /\ UNCHANGED <<ledger, issued, expiresAt, providerOf, now, ever>>
        /\ selfProofProvider' = p /\ p \in Providers
    BY <1>5, Chosen DEF SetSelfProofProvider
  <2>2. Registry!LedgerOK'
    BY <2>1, StutterLedgerOK
  <2> QED
    BY <1>0, <2>1, <2>2
<1>6. CASE Tick
  <2>1. /\ UNCHANGED <<ledger, issued, expiresAt, providerOf, selfProofProvider, ever>>
        /\ now' = now + 1
    BY <1>6 DEF Tick
  <2>2. Registry!LedgerOK'
    BY <2>1, StutterLedgerOK
  <2> QED
    BY <1>0, <2>1, <2>2
<1> QED
  BY <1>1, <1>2, <1>3, <1>4, <1>5, <1>6 DEF ChainStep

\* The history keeps up with the chain.
LEMMA ChainKeepsChain ==
  ASSUME VerifierTypeOK, ChainOK, ChainStep, UNCHANGED service
  PROVE  ChainOK' /\ Later
<1>1. LedgerAndClock
  BY Zenon DEF ChainOK, LedgerAndClock
<1>2. /\ LedgerAndClock' /\ now' \in Nat /\ now' >= now /\ ever \subseteq ever'
      /\ now \in Nat
  BY <1>1, ChainKeepsLedger DEF VerifierTypeOK, LedgerAndClock
<1>3. /\ lastFresh' = [id \in AgentIds |-> IF Fresh(id)' THEN now' ELSE lastFresh[id]]
      /\ lastFew' = [h \in Humans |-> IF /\ MaxAgentsPerHuman > 0
                                        /\ Cardinality(Registry!HeldBy(h)') <= MaxAgentsPerHuman
                                     THEN now' ELSE lastFew[h]]
      /\ lastSelf' = [p \in Providers |-> IF p = selfProofProvider' THEN now' ELSE lastSelf[p]]
  BY DEF ChainStep
<1>4. /\ lastFresh \in [AgentIds -> Nat] /\ \A id \in AgentIds : lastFresh[id] <= now
      /\ lastFew \in [Humans -> Nat] /\ \A h \in Humans : lastFew[h] <= now
      /\ lastSelf \in [Providers -> Nat]
      /\ \A p \in Providers : lastSelf[p] <= now
  BY DEF ChainOK
<1>5. /\ lastFresh' \in [AgentIds -> Nat]
      /\ lastFew' \in [Humans -> Nat]
      /\ lastSelf' \in [Providers -> Nat]
  BY <1>2, <1>3, <1>4
<1>6. \A id \in AgentIds :
         /\ lastFresh'[id] <= now' /\ lastFresh'[id] >= lastFresh[id]
         /\ Fresh(id)' => lastFresh'[id] = now'
  BY <1>2, <1>3, <1>4
<1>7. \A h \in Humans :
         /\ lastFew'[h] <= now' /\ lastFew'[h] >= lastFew[h]
         /\ MaxAgentsPerHuman > 0 /\ Cardinality(Registry!HeldBy(h)') <= MaxAgentsPerHuman =>
               lastFew'[h] = now'
  BY <1>2, <1>3, <1>4
<1>8. \A p \in Providers :
         /\ lastSelf'[p] <= now' /\ lastSelf'[p] >= lastSelf[p]
         /\ p = selfProofProvider' => lastSelf'[p] = now'
  BY <1>2, <1>3, <1>4
<1>9. MaxAgentsPerHuman' = MaxAgentsPerHuman
  BY SettingsStay
<1>10. Later
  BY <1>2, <1>5, <1>6, <1>7, <1>8 DEF Later
<1>11. ChainOK'
  <2>1. /\ Registry!LedgerOK' /\ IsFiniteSet(ledger') /\ now' \in Nat \ {0}
        /\ expiresAt' \in [Slots -> Nat]
        /\ providerOf' \in [Slots -> Providers \cup {NoProvider}]
        /\ selfProofProvider' \in Providers
        /\ ledger' \subseteq ever' /\ ever' \subseteq Registry!Entries
        /\ \A a \in ever' : a.number <= issued'
        /\ \A a, b \in ever' : a.number = b.number => a = b
    BY <1>2 DEF LedgerAndClock
  <2>2. lastSelf'[selfProofProvider'] = now'
    BY <1>8, <2>1
  <2> QED
    BY <1>5, <1>6, <1>7, <1>8, <1>9, <2>1, <2>2 DEF ChainOK
<1> QED
  BY <1>10, <1>11

\* A step of the verifier leaves the chain and its history alone.
LEMMA VerifierKeepsChain ==
  ASSUME ChainOK, UNCHANGED <<service, chainVars>>
  PROVE  ChainOK'
BY SettingsStay DEF ChainOK, chainVars, Registry!LedgerOK, Fresh, Registry!HeldBy

-----------------------------------------------------------------------------
(* What was so stays said.                                                 *)

\* The instants and limits that the calls compare are integers.
LEMMA Instants ==
  ASSUME service \in Services, NEW k \in CallSet
  PROVE  /\ k.since \in Nat /\ k.job.entered \in Nat
         /\ k.job.entered - CacheTtl - RpcTimeout + 1 \in Int
BY Chosen, Bounds DEF CallSet

\* An agent that there was, there was.
LEMMA NamedLater ==
  ASSUME ever \subseteq ever', NEW answers, NEW key, Named(answers, key)
  PROVE  Named(answers, key)'
BY DEF Named

\* What was last so at some time or later was last so then or later still.
LEMMA FreshLater ==
  ASSUME ChainOK, Later, NEW answers, NEW time \in Int, NEW earlier \in Int, earlier <= time,
         FreshSince(answers, time)
  PROVE  FreshSince(answers, earlier)'
<1>1. ASSUME answers.isProofFresh
      PROVE  answers.getAgentId \in AgentIds /\ lastFresh'[answers.getAgentId] >= earlier
  <2> DEFINE id == answers.getAgentId
  <2>1. id \in AgentIds /\ lastFresh[id] >= time
    BY <1>1 DEF FreshSince
  <2>2. lastFresh[id] \in Nat /\ lastFresh'[id] \in Nat /\ lastFresh'[id] >= lastFresh[id]
    BY <2>1 DEF ChainOK, Later
  <2> HIDE DEF id
  <2>3. lastFresh'[id] >= earlier
    BY <2>1, <2>2
  <2> QED
    BY <2>1, <2>3 DEF id
<1> QED
  BY <1>1 DEF FreshSince

\* A human who had few enough agents at some time had so few then.
LEMMA FewLater ==
  ASSUME ChainOK, Later, UNCHANGED service,
         NEW answers \in Answers, NEW time \in Int, NEW earlier \in Int, earlier <= time,
         FewSince(answers, time)
  PROVE  FewSince(answers, earlier)'
<1>1. ASSUME MaxAgentsPerHuman > 0, answers.getHumanNullifier # NoHuman,
             answers.getAgentCountForHuman <= MaxAgentsPerHuman
      PROVE  lastFew'[answers.getHumanNullifier] >= earlier
  <2> DEFINE h == answers.getHumanNullifier
  <2>1. h \in Humans /\ lastFew[h] >= time
    BY <1>1 DEF FewSince, Answers
  <2>2. lastFew[h] \in Nat /\ lastFew'[h] \in Nat /\ lastFew'[h] >= lastFew[h]
    BY <2>1 DEF ChainOK, Later
  <2> HIDE DEF h
  <2>3. lastFew'[h] >= earlier
    BY <2>1, <2>2
  <2> QED
    BY <2>3 DEF h
<1>2. MaxAgentsPerHuman' = MaxAgentsPerHuman
  BY SettingsStay
<1> QED
  BY <1>1, <1>2 DEF FewSince

\* A provider that was the registry's own was its own.
LEMMA SelfLater ==
  ASSUME service \in Services, ChainOK, Later, UNCHANGED service,
         NEW provider, NEW time \in Int, SelfSince(provider, time)
  PROVE  SelfSince(provider, time)'
<1> DEFINE span == CacheTtl * ProviderTtlFactor
<1>1. CacheTtl' = CacheTtl
  BY SettingsStay
<1>2. span \in Nat /\ span' = span
  BY <1>1, Chosen
<1>3. /\ provider \in Providers
      /\ lastSelf[provider] >= time \/ lastSelf[provider] > time - span
  BY DEF SelfSince
<1>4. /\ lastSelf[provider] \in Nat /\ lastSelf'[provider] \in Nat
      /\ lastSelf'[provider] >= lastSelf[provider]
  BY <1>3 DEF ChainOK, Later
<1> HIDE DEF span
<1>5. lastSelf'[provider] >= time \/ lastSelf'[provider] > time - span'
  BY <1>2, <1>3, <1>4
<1> QED
  BY <1>3, <1>5 DEF SelfSince, span

\* A call on whose wait the step puts no end keeps what it knows.
LEMMA CallOKLater ==
  ASSUME service \in Services, ChainOK, Later, UNCHANGED service,
         NEW k \in CallSet, CallOK(k),
         k.pc \in Waiting => now' <= k.since + RpcTimeout
  PROVE  CallOK(k)'
<1>1. /\ k.since \in Nat /\ k.job.entered \in Nat /\ k.answers \in Answers
      /\ now \in Nat /\ now' \in Nat /\ now' >= now
  BY DEF CallSet, ChainOK, Later
<1>2. k.pc \in Waiting => k.since <= now' /\ now' <= k.since + RpcTimeout
  BY <1>1 DEF CallOK
<1>3. k.pc # "idle" => k.job.req \in Requests /\ k.job.entered <= now'
  BY <1>1 DEF CallOK
<1>4. k.pc = "ident" => IdentOK(k)'
  BY NamedLater DEF CallOK, IdentOK, Later
<1>5. k.pc = "detail" => DetailOK(k)'
  BY <1>1, NamedLater, FreshLater, FewLater DEF CallOK, DetailOK, Later
<1>6. k.pc \in {"provider", "credentials", "valid"} => JudgedOK(k.job, k.answers)'
  <2>1. CacheTtl' = CacheTtl
    BY SettingsStay
  <2>2. PICK earliest \in Int : earliest = k.job.entered - CacheTtl - RpcTimeout + 1
    BY Instants
  <2>3. SUFFICES ASSUME JudgedOK(k.job, k.answers)
                 PROVE  JudgedOK(k.job, k.answers)'
    BY DEF CallOK
  <2>4. FreshSince(k.answers, earliest) /\ FewSince(k.answers, earliest)
    BY <2>2, <2>3 DEF JudgedOK
  <2>5. FreshSince(k.answers, earliest)' /\ FewSince(k.answers, earliest)'
    BY <1>1, <2>4, FreshLater, FewLater
  <2>6. earliest = k.job.entered - CacheTtl' - RpcTimeout + 1
    BY <2>1, <2>2
  <2> QED
    BY <2>3, <2>5, <2>6, NamedLater DEF JudgedOK, Later
<1>7. k.pc \in {"credentials", "valid"} => ScreenedOK(k.job, k.answers)'
  <2>1. SUFFICES ASSUME ScreenedOK(k.job, k.answers)
                 PROVE  ScreenedOK(k.job, k.answers)'
    BY DEF CallOK
  <2>2. MaxAgentsPerHuman' = MaxAgentsPerHuman /\ RequireSelfProvider' = RequireSelfProvider
    BY SettingsStay
  <2> QED
    BY <1>1, <2>1, <2>2, SelfLater DEF ScreenedOK
<1> QED
  BY <1>2, <1>3, <1>4, <1>5, <1>6, <1>7 DEF CallOK

\* So do the caches of the verifier, as long as they stay.
LEMMA CacheOKLater ==
  ASSUME VerifierTypeOK, ChainOK, CacheOK, Later, UNCHANGED <<service, cache>>
  PROVE  CacheOK'
<1> SUFFICES ASSUME NEW key \in AgentKeySet
             PROVE  EntryOK(key, cache[key])'
  BY DEF CacheOK
<1>1. CacheTtl' = CacheTtl /\ CacheTtl \in Nat
  BY SettingsStay, Chosen DEF VerifierTypeOK
<1>2. PICK e \in Entries : e = cache[key]
  BY DEF VerifierTypeOK
<1>3. PICK time \in Int : time = e.expiresAt - CacheTtl - RpcTimeout
  BY <1>1, <1>2, Bounds DEF Entries
<1>4. EntryOK(key, e) /\ e.answers \in Answers
  BY <1>2 DEF CacheOK, Entries
<1>5. EntryOK(key, e)'
  <2> SUFFICES ASSUME e.answers.isProofFresh
               PROVE  /\ Named(e.answers, key)'
                      /\ FreshSince(e.answers, time)'
                      /\ FewSince(e.answers, time)'
    BY <1>1, <1>3 DEF EntryOK
  <2>1. Named(e.answers, key) /\ FreshSince(e.answers, time) /\ FewSince(e.answers, time)
    BY <1>3, <1>4 DEF EntryOK
  <2> QED
    BY <1>4, <2>1, NamedLater, FreshLater, FewLater DEF Later
<1> QED
  BY <1>2, <1>5

\* The provider's address was the registry's when it was stored, whatever it is now.
LEMMA SelfProviderCacheOKLater ==
  ASSUME VerifierTypeOK, ChainOK, SelfProviderCacheOK, Later,
         UNCHANGED <<service, selfProviderCache>>
  PROVE  SelfProviderCacheOK'
<1> DEFINE stored == selfProviderCache.expiresAt - CacheTtl * ProviderTtlFactor
<1>1. CacheTtl' = CacheTtl /\ CacheTtl * ProviderTtlFactor \in Nat
  BY SettingsStay, Chosen DEF VerifierTypeOK
<1>2. stored \in Int /\ stored' = stored
  BY <1>1 DEF VerifierTypeOK
<1> SUFFICES ASSUME selfProviderCache.expiresAt > 0
             PROVE  /\ selfProviderCache.address \in Providers
                    /\ lastSelf'[selfProviderCache.address] >= stored'
  BY DEF SelfProviderCacheOK
<1>3. /\ selfProviderCache.address \in Providers
      /\ lastSelf[selfProviderCache.address] >= stored
  BY DEF SelfProviderCacheOK
<1>4. PICK p \in Providers : p = selfProviderCache.address
  BY <1>3
<1>5. lastSelf[p] \in Nat /\ lastSelf'[p] \in Nat /\ lastSelf'[p] >= lastSelf[p]
  BY DEF ChainOK, Later
<1> HIDE DEF stored
<1> QED
  BY <1>2, <1>3, <1>4, <1>5

\* Time only makes fewer timestamps good.
LEMMA RememberedLater ==
  ASSUME VerifierTypeOK, ChainOK, RememberedUnlessFull, Later,
         UNCHANGED <<service, replayCache, passed>>
  PROVE  RememberedUnlessFull'
<1>1. /\ MaxAge' = MaxAge /\ EnableReplayProtection' = EnableReplayProtection
      /\ ReplayCacheMaxEntries' = ReplayCacheMaxEntries
  BY SettingsStay
<1> SUFFICES ASSUME EnableReplayProtection, NEW r \in Requests, passed[r] > 0,
                    now' < r.ts + MaxAge, r \notin replayCache
             PROVE  Cardinality({s \in replayCache : s.ts >= r.ts}) >= ReplayCacheMaxEntries
  BY <1>1 DEF RememberedUnlessFull, WindowEnd
<1>2. now < r.ts + MaxAge
  BY Bounds, Chosen DEF VerifierTypeOK, ChainOK, Later
<1> QED
  BY <1>2 DEF RememberedUnlessFull, WindowEnd

\* A step of the chain takes nothing back that the verifier relies on.
LEMMA ChainStepKeepsInv ==
  ASSUME VerifierInv, ChainStep, UNCHANGED service
  PROVE  VerifierInv'
<1>1. ChainOK' /\ Later
  BY ChainKeepsChain DEF VerifierInv
<1>2. UNCHANGED <<call, cache, replayCache, selfProviderCache, passed>>
  BY DEF ChainStep, verifierVars
<1>3. VerifierTypeOK'
  BY <1>2 DEF VerifierInv, VerifierTypeOK
<1>4. CallsOK'
  <2> SUFFICES ASSUME NEW c \in Calls
               PROVE  CallOK(call[c])'
    BY DEF CallsOK
  <2>1. PICK k \in CallSet : k = call[c]
    BY DEF VerifierInv, VerifierTypeOK
  <2>2. CallOK(k)
    BY <2>1 DEF VerifierInv, CallsOK
  <2>3. k.pc \in Waiting => now' <= k.since + RpcTimeout
    <3> SUFFICES ASSUME k.pc \in Waiting
                 PROVE  now' <= k.since + RpcTimeout
      OBVIOUS
    <3>1. k.since \in Nat /\ now \in Nat /\ now <= k.since + RpcTimeout
      BY <2>2 DEF CallOK, CallSet, VerifierInv, ChainOK
    <3>2. CASE Tick
      <4>1. now < k.since + RpcTimeout /\ now' = now + 1
        BY <2>1, <3>2 DEF Tick
      <4> QED
        BY <3>1, <4>1, Bounds
    <3>3. CASE ~ Tick
      <4>1. now' = now
        BY <3>3 DEF ChainStep, Register, Revoke, Refresh, SetLimit, SetSelfProofProvider
      <4> QED
        BY <3>1, <4>1
    <3> QED
      BY <3>2, <3>3
  <2>4. CallOK(k)'
    BY <1>1, <2>2, <2>3, CallOKLater DEF VerifierInv, VerifierTypeOK
  <2> QED
    BY <1>2, <2>1, <2>4
<1>5. CacheOK'
  BY <1>1, <1>2, CacheOKLater DEF VerifierInv
<1>6. SelfProviderCacheOK'
  BY <1>1, <1>2, SelfProviderCacheOKLater DEF VerifierInv
<1>7. RememberedUnlessFull'
  BY <1>1, <1>2, RememberedLater DEF VerifierInv
<1> QED
  BY <1>1, <1>3, <1>4, <1>5, <1>6, <1>7 DEF VerifierInv

-----------------------------------------------------------------------------
(* The end of a stretch: a call waits, is accepted or is rejected.         *)

Jobs == [req : Requests \cup {NoRequest}, entered : Nat]

\* What the call of a request may go on with.
Justified(job, answers) ==
    /\ job \in Jobs /\ job.req \in Requests /\ job.entered <= now
    /\ answers \in Answers
    /\ JudgedOK(job, answers)

\* The call gets a state in which what it knows was so.
Settled(c) == \E new \in CallSet : CallOK(new) /\ call' = [call EXCEPT ![c] = new]

\* The answers before anything is answered.
LEMMA NoAnswersTyped == NoAnswers \in Answers /\ NoJob \in Jobs
BY Bounds DEF NoAnswers, Answers, NoJob, Jobs

\* A call that is rejected knows nothing.
LEMMA RejectSettles ==
  ASSUME NEW c, Reject(c)
  PROVE  Settled(c)
<1>1. Idle \in CallSet
  BY NoAnswersTyped DEF Idle, CallSet, Phases, Waiting, Jobs
<1>2. CallOK(Idle)
  BY DEF CallOK, Idle, Waiting
<1> QED
  BY <1>1, <1>2 DEF Reject, Settled

\* A call is accepted with what it knows.
LEMMA AcceptSettles ==
  ASSUME NEW c, NEW job, NEW answers, Justified(job, answers), ScreenedOK(job, answers),
         Accept(c, job, answers)
  PROVE  Settled(c)
<1> DEFINE new == [pc |-> "valid", job |-> job, since |-> 0, known |-> {}, answers |-> answers]
<1>1. new \in CallSet
  BY DEF Justified, CallSet, Jobs, Phases
<1>2. CallOK(new)
  BY DEF Justified, CallOK, Waiting
<1>3. call' = [call EXCEPT ![c] = new]
  BY DEF Accept
<1> HIDE DEF new
<1> QED
  BY <1>1, <1>2, <1>3 DEF Settled

\* A call that waits on keeps what it knows.
LEMMA AwaitSettles ==
  ASSUME ChainOK, NEW c, NEW job, NEW answers, Justified(job, answers),
         NEW phase \in {"provider", "credentials"},
         phase = "credentials" => ScreenedOK(job, answers),
         Await(c, job, phase, answers)
  PROVE  Settled(c)
<1> DEFINE new == [pc |-> phase, job |-> job, since |-> now, known |-> {}, answers |-> answers]
<1>1. now \in Nat /\ now <= now + RpcTimeout
  BY Bounds DEF ChainOK
<1>2. new \in CallSet
  BY <1>1 DEF Justified, CallSet, Jobs, Phases, Waiting
<1>3. CallOK(new)
  BY <1>1 DEF Justified, CallOK
<1>4. call' = [call EXCEPT ![c] = new]
  BY DEF Await
<1> HIDE DEF new
<1> QED
  BY <1>2, <1>3, <1>4 DEF Settled

\* The rate limiter accepts or rejects.
LEMMA RateSettles ==
  ASSUME NEW c, NEW job, NEW answers, Justified(job, answers), ScreenedOK(job, answers),
         CheckRate(c, job, answers)
  PROVE  Settled(c)
BY RejectSettles, AcceptSettles DEF CheckRate

\* A provider that is the one the verifier knows was the registry's own.
LEMMA ScreenSettles ==
  ASSUME ChainOK, NEW c, NEW job, NEW answers, Justified(job, answers),
         NEW selfProvider, RequireSelfProvider => SelfSince(selfProvider, job.entered),
         Screen(c, job, answers, selfProvider)
  PROVE  Settled(c)
<1>1. Acceptable(answers, selfProvider) => ScreenedOK(job, answers)
  BY DEF Acceptable, ScreenedOK
<1>2. CASE ~ Acceptable(answers, selfProvider) /\ Reject(c)
  BY <1>2, RejectSettles
<1>3. CASE Acceptable(answers, selfProvider) /\ Await(c, job, "credentials", answers)
  BY <1>1, <1>3, AwaitSettles
<1>4. CASE Acceptable(answers, selfProvider) /\ CheckRate(c, job, answers)
  BY <1>1, <1>4, RateSettles
<1> QED
  BY <1>2, <1>3, <1>4 DEF Screen

\* What is judged is justified if its proof is fresh, and nothing else is kept.
LEMMA JudgeSettles ==
  ASSUME VerifierTypeOK, ChainOK, SelfProviderCacheOK,
         NEW c, NEW job \in Jobs, NEW answers,
         answers.isProofFresh => Justified(job, answers), job.entered <= now,
         Judge(c, job, answers)
  PROVE  Settled(c)
<1> DEFINE proven == answers.isVerifiedAgent /\ answers.isProofFresh
<1>1. proven => Justified(job, answers)
  OBVIOUS
<1>2. ASSUME ProviderKnown, RequireSelfProvider
      PROVE  SelfSince(selfProviderCache.address, job.entered)
  <2> DEFINE span == CacheTtl * ProviderTtlFactor
  <2>1. span \in Nat /\ job.entered \in Nat /\ now \in Nat
    BY Chosen DEF VerifierTypeOK, Jobs, ChainOK
  <2>2. /\ selfProviderCache.expiresAt \in Nat
        /\ selfProviderCache.expiresAt > now
    BY <1>2 DEF ProviderKnown, VerifierTypeOK
  <2>3. /\ selfProviderCache.address \in Providers
        /\ lastSelf[selfProviderCache.address] >= selfProviderCache.expiresAt - span
    BY <2>1, <2>2 DEF SelfProviderCacheOK
  <2>4. lastSelf[selfProviderCache.address] \in Nat
    BY <2>3 DEF ChainOK
  <2> HIDE DEF span
  <2>5. lastSelf[selfProviderCache.address] > job.entered - span
    BY <2>1, <2>2, <2>3, <2>4
  <2> QED
    BY <2>3, <2>5 DEF SelfSince, span
<1>3. CASE Reject(c)
  BY <1>3, RejectSettles
<1>4. CASE proven /\ Await(c, job, "provider", answers)
  BY <1>1, <1>4, AwaitSettles
<1>5. CASE proven /\ ProviderKnown /\ Screen(c, job, answers, selfProviderCache.address)
  BY <1>1, <1>2, <1>5, ScreenSettles
<1> QED
  BY <1>3, <1>4, <1>5 DEF Judge

\* One call that settles leaves the others as they were.
LEMMA SettledKeepsCalls ==
  ASSUME VerifierInv, UNCHANGED <<service, chainVars>>, NEW c \in Calls, Settled(c)
  PROVE  call' \in [Calls -> CallSet] /\ CallsOK'
<1>1. PICK new \in CallSet : CallOK(new) /\ call' = [call EXCEPT ![c] = new]
  BY DEF Settled
<1>2. call \in [Calls -> CallSet]
  BY DEF VerifierInv, VerifierTypeOK
<1>3. call' \in [Calls -> CallSet]
  BY <1>1, <1>2
<1>4. Later
  BY DEF Later, chainVars, VerifierInv, ChainOK
<1>5. ASSUME NEW d \in Calls
      PROVE  CallOK(call[d])'
  <2>1. PICK k \in CallSet : CallOK(k) /\ k = call'[d]
    <3>1. CASE d = c
      BY <1>1, <1>2, <3>1
    <3>2. CASE d # c
      BY <1>1, <1>2, <3>2 DEF VerifierInv, CallsOK
    <3> QED
      BY <3>1, <3>2
  <2>2. k.pc \in Waiting => now' <= k.since + RpcTimeout
    BY <2>1 DEF CallOK, chainVars
  <2>3. CallOK(k)'
    BY <1>4, <2>1, <2>2, CallOKLater DEF VerifierInv, VerifierTypeOK
  <2> QED
    BY <2>1, <2>3
<1> QED
  BY <1>3, <1>5 DEF CallsOK

-----------------------------------------------------------------------------
(* The replay cache.                                                       *)

\* Pruning lets a good request go only when what it keeps fills the cache and stays
\* good at least as long.
LEMMA PruningRemembers ==
  ASSUME VerifierTypeOK, ChainOK, RememberedUnlessFull, EnableReplayProtection,
         NEW kept, Pruned(kept),
         NEW r \in Requests, passed[r] > 0, now < WindowEnd(r), r \notin kept
  PROVE  Cardinality({s \in kept : s.ts >= r.ts}) >= ReplayCacheMaxEntries
<1> DEFINE live == {s \in replayCache : WindowEnd(s) > now}
           dropped == live \ kept
           overflow == Cardinality(live) - ReplayCacheMaxEntries
           Good(S) == {s \in S : s.ts >= r.ts}
<1>1. /\ kept \subseteq live
      /\ Cardinality(dropped) = IF overflow > 0 THEN overflow ELSE 0
      /\ \A s \in dropped, t \in kept : s.ts <= t.ts
  BY DEF Pruned
<1>2. /\ replayCache \subseteq Requests /\ IsFiniteSet(replayCache)
      /\ now \in Nat /\ MaxAge \in Nat /\ ReplayCacheMaxEntries \in Nat
      /\ r.ts \in Nat /\ \A s \in replayCache : s.ts \in Nat
  BY Bounds, Chosen DEF VerifierTypeOK, ChainOK
<1>3. live \subseteq replayCache /\ dropped \subseteq live
  OBVIOUS
<1>4. IsFiniteSet(live) /\ IsFiniteSet(kept) /\ IsFiniteSet(dropped)
  BY <1>1, <1>2, <1>3, FS_Subset
<1>5. Cardinality(live) \in Nat /\ Cardinality(kept) \in Nat /\ Cardinality(dropped) \in Nat
  BY <1>4, FS_CardinalityType
<1>6. Cardinality(dropped) = Cardinality(live) - Cardinality(kept)
  <2>1. live \cap kept = kept
    BY <1>1
  <2> QED
    BY <1>4, <2>1, FS_Difference
<1>7. CASE \E s \in dropped : s.ts >= r.ts
  <2>1. Cardinality(dropped) # 0
    BY <1>4, <1>7, FS_EmptySet
  <2>2. Cardinality(kept) = ReplayCacheMaxEntries
    <3> HIDE DEF live, dropped
    <3> QED
      BY <1>1, <1>2, <1>5, <1>6, <2>1
  <2>3. Good(kept) = kept
    <3>1. PICK s \in dropped : s.ts >= r.ts
      BY <1>7
    <3>2. \A t \in kept : t.ts >= r.ts
      BY <1>1, <1>2, <3>1
    <3> QED
      BY <3>2
  <2>4. Cardinality(Good(kept)) = ReplayCacheMaxEntries
    BY <2>2, <2>3, Zenon
  <2>5. ReplayCacheMaxEntries >= ReplayCacheMaxEntries
    BY <1>2
  <2> QED
    BY <2>4, <2>5, Zenon
<1>8. CASE \A s \in dropped : ~ (s.ts >= r.ts)
  <2>1. \A s \in replayCache : s.ts >= r.ts => s \in kept
    <3> SUFFICES ASSUME NEW s \in replayCache, s.ts >= r.ts, s \notin kept
                 PROVE  FALSE
      OBVIOUS
    <3>1. WindowEnd(s) > now
      BY <1>2 DEF WindowEnd
    <3> QED
      BY <1>8, <3>1
  <2>2. r \notin replayCache
    BY <1>2, <2>1
  <2>3. Cardinality(Good(replayCache)) >= ReplayCacheMaxEntries
    BY <2>2 DEF RememberedUnlessFull
  <2>4. Good(replayCache) = Good(kept)
    BY <1>1, <2>1
  <2> QED
    BY <2>3, <2>4
<1> QED
  BY <1>7, <1>8

\* What is kept and one more.
LEMMA PrunedTyped ==
  ASSUME VerifierTypeOK, NEW kept, Pruned(kept)
  PROVE  /\ kept \subseteq Requests /\ IsFiniteSet(kept)
         /\ \A r : IsFiniteSet(kept \cup {r})
<1>1. kept \subseteq replayCache
  BY DEF Pruned
<1>2. kept \subseteq Requests /\ IsFiniteSet(kept)
  BY <1>1, FS_Subset DEF VerifierTypeOK
<1> QED
  BY <1>2, FS_AddElement

\* A request that is found leaves the cache pruned.
LEMMA FoundKeepsRemembered ==
  ASSUME VerifierInv, UNCHANGED <<service, chainVars>>, NEW kept, Pruned(kept),
         EnableReplayProtection, replayCache' = kept, UNCHANGED passed
  PROVE  RememberedUnlessFull'
<1>1. /\ MaxAge' = MaxAge /\ EnableReplayProtection' = EnableReplayProtection
      /\ ReplayCacheMaxEntries' = ReplayCacheMaxEntries /\ now' = now
  BY SettingsStay DEF chainVars
<1> SUFFICES ASSUME NEW r \in Requests, passed[r] > 0, now < WindowEnd(r), r \notin kept
             PROVE  Cardinality({s \in kept : s.ts >= r.ts}) >= ReplayCacheMaxEntries
  BY <1>1 DEF RememberedUnlessFull, WindowEnd
<1> QED
  BY PruningRemembers DEF VerifierInv

\* A request that passes is in the cache from then on.
LEMMA RecordKeepsRemembered ==
  ASSUME VerifierInv, UNCHANGED <<service, chainVars>>, NEW q \in Requests, RecordRequest(q)
  PROVE  /\ RememberedUnlessFull'
         /\ replayCache' \subseteq Requests /\ IsFiniteSet(replayCache')
         /\ passed' \in [Requests -> Nat]
<1>1. /\ MaxAge' = MaxAge /\ EnableReplayProtection' = EnableReplayProtection
      /\ ReplayCacheMaxEntries' = ReplayCacheMaxEntries /\ now' = now
  BY SettingsStay DEF chainVars
<1>2. /\ passed \in [Requests -> Nat]
      /\ replayCache \subseteq Requests /\ IsFiniteSet(replayCache)
  BY DEF VerifierInv, VerifierTypeOK
<1>3. CASE ~ EnableReplayProtection
  BY <1>1, <1>2, <1>3 DEF RecordRequest, RememberedUnlessFull
<1>4. ASSUME EnableReplayProtection, NEW kept, Pruned(kept),
             replayCache' = kept \cup {q},
             passed' = [passed EXCEPT ![q] = IF @ < 2 THEN @ + 1 ELSE @]
      PROVE  /\ RememberedUnlessFull'
             /\ replayCache' \subseteq Requests /\ IsFiniteSet(replayCache')
             /\ passed' \in [Requests -> Nat]
  <2>1. kept \subseteq Requests /\ IsFiniteSet(kept) /\ IsFiniteSet(kept \cup {q})
    BY <1>4, PrunedTyped DEF VerifierInv
  <2>2. passed' \in [Requests -> Nat]
    BY <1>2, <1>4
  <2>3. RememberedUnlessFull'
    <3> SUFFICES ASSUME NEW r \in Requests, passed'[r] > 0, now < WindowEnd(r),
                        r \notin kept \cup {q}
                 PROVE  Cardinality({s \in kept \cup {q} : s.ts >= r.ts}) >= ReplayCacheMaxEntries
      BY <1>1, <1>4 DEF RememberedUnlessFull, WindowEnd
    <3>1. passed[r] > 0
      BY <1>2, <1>4
    <3> DEFINE good == {s \in kept : s.ts >= r.ts}
               better == {s \in kept \cup {q} : s.ts >= r.ts}
    <3>2. Cardinality(good) >= ReplayCacheMaxEntries
      BY <1>4, <3>1, PruningRemembers DEF VerifierInv
    <3>3. IsFiniteSet(better)
      BY <2>1, FS_Subset
    <3>4. good \subseteq better
      OBVIOUS
    <3>5. IsFiniteSet(good) /\ Cardinality(good) <= Cardinality(better)
      BY <3>3, <3>4, FS_Subset
    <3>6. Cardinality(good) \in Nat /\ Cardinality(better) \in Nat
      BY <3>3, <3>5, FS_CardinalityType
    <3>7. ReplayCacheMaxEntries \in Nat
      BY Chosen DEF VerifierInv, VerifierTypeOK
    <3> HIDE DEF good, better
    <3>8. Cardinality(better) >= ReplayCacheMaxEntries
      BY <3>2, <3>5, <3>6, <3>7
    <3> QED
      BY <3>8 DEF better
  <2> QED
    BY <1>4, <2>1, <2>2, <2>3
<1> QED
  BY <1>3, <1>4 DEF RecordRequest

-----------------------------------------------------------------------------
(* Answers.                                                                *)

\* The number and the human that a node tells are those of a live agent.
LEMMA Views ==
  ASSUME ChainOK
  PROVE  /\ \A key : /\ IdOf(key) \in Slots
                     /\ IdOf(key) # 0 => \E a \in ledger : a.number = IdOf(key) /\ a.key = key
         /\ \A id : /\ HumanOf(id) \in Humans \cup {NoHuman}
                    /\ HumanOf(id) # NoHuman => \E a \in ledger : a.number = id /\ a.human = HumanOf(id)
         /\ \A id : Fresh(id) => id \in AgentIds
         /\ \A h : Cardinality(Registry!HeldBy(h)) \in Nat
<1>1. \A a \in ledger : a.number \in AgentIds /\ a.human \in Humans
  BY DEF ChainOK, Registry!LedgerOK, Registry!Entries, AgentIds
<1>2. ASSUME NEW key
      PROVE  /\ IdOf(key) \in Slots
             /\ IdOf(key) # 0 => \E a \in ledger : a.number = IdOf(key) /\ a.key = key
  <2>1. CASE \E a \in ledger : a.key = key
    <3> DEFINE a == CHOOSE a \in ledger : a.key = key
    <3>1. a \in ledger /\ a.key = key
      BY <2>1
    <3>2. IdOf(key) = a.number
      BY <2>1 DEF IdOf
    <3> QED
      BY <1>1, <3>1, <3>2, Bounds
  <2>2. CASE ~ \E a \in ledger : a.key = key
    <3>1. IdOf(key) = 0
      BY <2>2 DEF IdOf
    <3> QED
      BY <3>1, Bounds DEF Slots
  <2> QED
    BY <2>1, <2>2
<1>3. ASSUME NEW id
      PROVE  /\ HumanOf(id) \in Humans \cup {NoHuman}
             /\ HumanOf(id) # NoHuman => \E a \in ledger : a.number = id /\ a.human = HumanOf(id)
  <2>1. CASE \E a \in ledger : a.number = id
    <3> DEFINE a == CHOOSE a \in ledger : a.number = id
    <3>1. a \in ledger /\ a.number = id
      BY <2>1
    <3>2. HumanOf(id) = a.human
      BY <2>1 DEF HumanOf
    <3> QED
      BY <1>1, <3>1, <3>2
  <2>2. CASE ~ \E a \in ledger : a.number = id
    BY <2>2 DEF HumanOf
  <2> QED
    BY <2>1, <2>2
<1>4. ASSUME NEW id, Fresh(id)
      PROVE  id \in AgentIds
  BY <1>1, <1>4 DEF Fresh
<1>5. ASSUME NEW h
      PROVE  Cardinality(Registry!HeldBy(h)) \in Nat
  <2>1. Registry!HeldBy(h) \in SUBSET ledger
    BY DEF Registry!HeldBy
  <2>2. IsFiniteSet(Registry!HeldBy(h))
    BY <2>1, FS_Subset DEF ChainOK
  <2> QED
    BY <2>2, FS_CardinalityType
<1> QED
  BY <1>2, <1>3, <1>4, <1>5

\* What a node answers has the type of an answer.
LEMMA ViewShape ==
  ASSUME ChainOK, NEW key, NEW id \in Slots, NEW human
  PROVE  OnChain(key, id, human) \in Answers
<1>1. /\ IdOf(key) \in 0 .. MaxIssued
      /\ HumanOf(id) \in Humans \cup {NoHuman}
      /\ Cardinality(Registry!HeldBy(human)) \in Nat
  BY Views DEF Slots
<1>2. expiresAt[id] \in Nat /\ providerOf[id] \in Providers \cup {NoProvider}
  BY DEF ChainOK
<1>3. (IdOf(key) # 0) \in BOOLEAN
  OBVIOUS
<1>4. Fresh(id) \in BOOLEAN
  BY Zenon DEF Fresh
<1> QED
  BY <1>1, <1>2, <1>3, <1>4, Zenon DEF OnChain, Answers

\* The names of the answers.
LEMMA QuestionNames ==
  QuestionSet = {"isVerifiedAgent", "getAgentId", "isProofFresh", "proofExpiresAt",
                 "getHumanNullifier", "getAgentCountForHuman", "getProofProvider"}
BY DEF QuestionSet, NoAnswers

\* A record of answers with one answer of another.
LEMMA AnswerReplaced ==
  ASSUME NEW old \in Answers, NEW view \in Answers, NEW q \in QuestionSet,
         NEW answers, answers = [old EXCEPT ![q] = view[q]]
  PROVE  /\ answers \in Answers
         /\ answers[q] = view[q]
         /\ \A r \in QuestionSet \ {q} : answers[r] = old[r]
<1>1. answers[q] = view[q] /\ \A r \in QuestionSet \ {q} : answers[r] = old[r]
  BY QuestionNames DEF Answers
<1>2. answers \in Answers
  BY QuestionNames DEF Answers
<1> QED
  BY <1>1, <1>2

\* What is asked first, and what later.
LEMMA QuestionShape ==
  /\ Questions.ident = {"isVerifiedAgent", "getAgentId"}
  /\ Questions.detail \subseteq
        {"isProofFresh", "proofExpiresAt", "getHumanNullifier", "getAgentCountForHuman",
         "getProofProvider"}
  /\ "isProofFresh" \in Questions.detail
  /\ MaxAgentsPerHuman > 0 =>
        "getHumanNullifier" \in Questions.detail /\ "getAgentCountForHuman" \in Questions.detail
BY DEF Questions

\* A new answer to the first questions.
LEMMA IdentAnswered ==
  ASSUME ChainOK, NEW k \in CallSet, CallOK(k), k.pc = "ident",
         NEW q \in {"isVerifiedAgent", "getAgentId"},
         NEW answers \in Answers,
         answers[q] = OnChain(k.job.req.key, k.answers.getAgentId, k.answers.getHumanNullifier)[q],
         \A r \in QuestionSet \ {q} : answers[r] = k.answers[r]
  PROVE  IdentOK([k EXCEPT !.known = k.known \cup {q}, !.answers = answers])
<1> DEFINE key == k.job.req.key
           new == [k EXCEPT !.known = k.known \cup {q}, !.answers = answers]
<1>1. /\ new.known = k.known \cup {q} /\ new.answers = answers /\ new.job = k.job
  BY DEF CallSet
<1>2. IdentOK(k)
  BY DEF CallOK
<1>3. /\ answers.getHumanNullifier = k.answers.getHumanNullifier
      /\ answers.isProofFresh = k.answers.isProofFresh
  BY QuestionNames
<1>4. ASSUME answers.getAgentId # 0
      PROVE  Named(answers, key)
  <2>1. CASE q = "getAgentId"
    <3>1. answers.getAgentId = IdOf(key)
      BY <2>1 DEF OnChain
    <3>2. PICK a \in ledger : a.number = answers.getAgentId /\ a.key = key
      BY <1>4, <3>1, Views
    <3> QED
      BY <1>2, <1>3, <3>2 DEF Named, IdentOK, ChainOK
  <2>2. CASE q = "isVerifiedAgent"
    <3>1. answers.getAgentId = k.answers.getAgentId
      BY <2>2, QuestionNames
    <3> QED
      BY <1>2, <1>3, <1>4, <3>1 DEF Named, IdentOK
  <2> QED
    BY <2>1, <2>2
<1> HIDE DEF new
<1>5. IdentOK(new)
  BY <1>1, <1>2, <1>3, <1>4 DEF IdentOK
<1> QED
  BY <1>5 DEF new

\* A new answer about the agent found.
LEMMA DetailAnswered ==
  ASSUME service \in Services, ChainOK, NEW k \in CallSet, CallOK(k), k.pc = "detail",
         NEW q \in Questions.detail \ k.known,
         q = "getAgentCountForHuman" => "getHumanNullifier" \in k.known,
         NEW answers \in Answers,
         answers[q] = OnChain(k.job.req.key, k.answers.getAgentId, k.answers.getHumanNullifier)[q],
         \A r \in QuestionSet \ {q} : answers[r] = k.answers[r]
  PROVE  DetailOK([k EXCEPT !.known = k.known \cup {q}, !.answers = answers])
<1> DEFINE key == k.job.req.key
           id == k.answers.getAgentId
           new == [k EXCEPT !.known = k.known \cup {q}, !.answers = answers]
<1>1. /\ new.known = k.known \cup {q} /\ new.answers = answers /\ new.job = k.job
      /\ new.since = k.since
  BY DEF CallSet
<1>2. DetailOK(k) /\ k.since \in Nat /\ k.since <= now /\ now \in Nat
  BY DEF CallOK, CallSet, ChainOK, Waiting
<1>3. q \in {"isProofFresh", "proofExpiresAt", "getHumanNullifier", "getAgentCountForHuman",
             "getProofProvider"}
  BY QuestionShape
<1>4. /\ answers.getAgentId = id
      /\ q # "isProofFresh" => answers.isProofFresh = k.answers.isProofFresh
      /\ q # "getHumanNullifier" => answers.getHumanNullifier = k.answers.getHumanNullifier
      /\ q # "getAgentCountForHuman" =>
            answers.getAgentCountForHuman = k.answers.getAgentCountForHuman
  BY <1>3, QuestionNames
<1>5. Named(answers, key)
  <2>1. PICK a \in ever : /\ a.number = id /\ a.key = key
                          /\ k.answers.getHumanNullifier \in {a.human, NoHuman}
    BY <1>2 DEF DetailOK, Named
  <2>2. answers.getHumanNullifier \in {a.human, NoHuman}
    <3>1. CASE q = "getHumanNullifier"
      <4>1. answers.getHumanNullifier = HumanOf(id)
        BY <3>1 DEF OnChain
      <4>2. CASE HumanOf(id) = NoHuman
        BY <4>1, <4>2
      <4>3. CASE HumanOf(id) # NoHuman
        <5>1. PICK b \in ledger : b.number = id /\ b.human = HumanOf(id)
          BY <4>3, Views
        <5>2. b = a
          BY <2>1, <5>1 DEF ChainOK
        <5> QED
          BY <4>1, <5>1, <5>2
      <4> QED
        BY <4>2, <4>3
    <3>2. CASE q # "getHumanNullifier"
      BY <1>4, <2>1, <3>2
    <3> QED
      BY <3>1, <3>2
  <2> QED
    BY <1>4, <2>1, <2>2 DEF Named
<1>6. FreshSince(answers, k.since)
  <2> SUFFICES ASSUME answers.isProofFresh
               PROVE  id \in AgentIds /\ lastFresh[id] >= k.since
    BY <1>4 DEF FreshSince
  <2>1. CASE q = "isProofFresh"
    <3>1. Fresh(id)
      BY <2>1 DEF OnChain
    <3>2. id \in AgentIds
      BY <3>1, Views
    <3>3. lastFresh[id] = now
      BY <3>1, <3>2 DEF ChainOK
    <3> QED
      BY <1>2, <3>2, <3>3
  <2>2. CASE q # "isProofFresh"
    BY <1>2, <1>4, <2>2 DEF DetailOK, FreshSince
  <2> QED
    BY <2>1, <2>2
<1>7. "getHumanNullifier" \notin k.known \cup {q} => answers.getHumanNullifier = NoHuman
  BY <1>2, <1>4 DEF DetailOK
<1>8. ASSUME "getAgentCountForHuman" \in k.known \cup {q}
      PROVE  "getHumanNullifier" \in k.known \cup {q} /\ FewSince(answers, k.since)
  <2>1. CASE q = "getAgentCountForHuman"
    <3>1. /\ answers.getAgentCountForHuman = Cardinality(Registry!HeldBy(answers.getHumanNullifier))
          /\ answers.getHumanNullifier \in Humans \cup {NoHuman}
      BY <1>4, <2>1 DEF OnChain, Answers
    <3>2. FewSince(answers, k.since)
      <4> SUFFICES ASSUME MaxAgentsPerHuman > 0, answers.getHumanNullifier # NoHuman,
                          answers.getAgentCountForHuman <= MaxAgentsPerHuman
                   PROVE  lastFew[answers.getHumanNullifier] >= k.since
        BY DEF FewSince
      <4>1. lastFew[answers.getHumanNullifier] = now
        BY <3>1 DEF ChainOK
      <4> QED
        BY <1>2, <4>1
    <3> QED
      BY <2>1, <3>2
  <2>2. CASE q # "getAgentCountForHuman"
    <3>1. "getHumanNullifier" \in k.known /\ FewSince(k.answers, k.since)
      BY <1>2, <1>8, <2>2 DEF DetailOK
    <3>2. q # "getHumanNullifier"
      BY <3>1
    <3> QED
      BY <1>4, <2>2, <3>1, <3>2 DEF FewSince
  <2> QED
    BY <2>1, <2>2
<1> HIDE DEF new
<1>9. DetailOK(new)
  BY <1>1, <1>5, <1>6, <1>7, <1>8 DEF DetailOK
<1> QED
  BY <1>9 DEF new

-----------------------------------------------------------------------------
(* The steps of the verifier.                                              *)

\* The invariant after a step in which one call settled.
LEMMA SettledKeepsInv ==
  ASSUME VerifierInv, UNCHANGED <<service, chainVars>>, NEW c \in Calls, Settled(c),
         UNCHANGED cache \/ (cache' \in [AgentKeySet -> Entries] /\ CacheOK'),
         \/ UNCHANGED selfProviderCache
         \/ /\ selfProviderCache' \in [address : Providers \cup {NoProvider}, expiresAt : Nat]
            /\ SelfProviderCacheOK',
         \/ UNCHANGED <<replayCache, passed>>
         \/ /\ replayCache' \subseteq Requests /\ IsFiniteSet(replayCache')
            /\ passed' \in [Requests -> Nat]
            /\ RememberedUnlessFull'
  PROVE  VerifierInv'
<1>1. Later
  BY DEF Later, chainVars, VerifierInv, ChainOK
<1>2. /\ VerifierTypeOK /\ ChainOK /\ CacheOK /\ SelfProviderCacheOK /\ RememberedUnlessFull
  BY DEF VerifierInv
<1>3. ChainOK'
  BY <1>2, VerifierKeepsChain
<1>4. call' \in [Calls -> CallSet] /\ CallsOK'
  BY SettledKeepsCalls
<1>5. cache' \in [AgentKeySet -> Entries] /\ CacheOK'
  BY <1>1, <1>2, CacheOKLater DEF VerifierTypeOK
<1>6. /\ selfProviderCache' \in [address : Providers \cup {NoProvider}, expiresAt : Nat]
      /\ SelfProviderCacheOK'
  BY <1>1, <1>2, SelfProviderCacheOKLater DEF VerifierTypeOK
<1>7. /\ replayCache' \subseteq Requests /\ IsFiniteSet(replayCache')
      /\ passed' \in [Requests -> Nat]
      /\ RememberedUnlessFull'
  BY <1>1, <1>2, RememberedLater DEF VerifierTypeOK
<1>8. VerifierTypeOK'
  BY <1>2, <1>4, <1>5, <1>6, <1>7 DEF VerifierTypeOK
<1> QED
  BY <1>3, <1>4, <1>5, <1>6, <1>7, <1>8 DEF VerifierInv

\* What was so since some time was so since an earlier one.
LEMMA SinceEarlier ==
  ASSUME ChainOK, NEW answers \in Answers, NEW time \in Int, NEW earlier \in Int,
         earlier <= time, FreshSince(answers, time), FewSince(answers, time)
  PROVE  FreshSince(answers, earlier) /\ FewSince(answers, earlier)
<1>1. /\ \A id \in AgentIds : lastFresh[id] \in Nat
      /\ \A h \in Humans : lastFew[h] \in Nat
  BY DEF ChainOK
<1>2. FreshSince(answers, earlier)
  BY <1>1 DEF FreshSince
<1>3. FewSince(answers, earlier)
  <2>1. answers.getHumanNullifier \in Humans \cup {NoHuman}
    BY DEF Answers
  <2> QED
    BY <1>1, <2>1 DEF FewSince
<1> QED
  BY <1>2, <1>3

\* A call begins to wait for its signature or for the agent of its key.
LEMMA FirstWaitSettles ==
  ASSUME ChainOK, NEW c, NEW r \in Requests, NEW entered \in Nat, entered <= now,
         NEW phase \in {"signature", "ident"},
         Await(c, [req |-> r, entered |-> entered], phase, NoAnswers)
  PROVE  Settled(c)
<1> DEFINE new == [pc |-> phase, job |-> [req |-> r, entered |-> entered], since |-> now,
                   known |-> {}, answers |-> NoAnswers]
<1>1. now \in Nat /\ now <= now + RpcTimeout
  BY Bounds DEF ChainOK
<1>2. new \in CallSet
  BY <1>1, NoAnswersTyped DEF CallSet, Phases, Waiting
<1>3. IdentOK(new)
  BY DEF IdentOK, NoAnswers
<1>4. CallOK(new)
  BY <1>1, <1>3 DEF CallOK, Waiting
<1>5. call' = [call EXCEPT ![c] = new]
  BY DEF Await
<1> HIDE DEF new
<1> QED
  BY <1>2, <1>4, <1>5 DEF Settled

\* A cached entry that has not expired justifies the call that meets it.
LEMMA CachedJustifies ==
  ASSUME VerifierInv, NEW r \in Requests, CacheHit(r.key), cache[r.key].answers.isProofFresh
  PROVE  Justified([req |-> r, entered |-> now], cache[r.key].answers)
<1>1. r.key \in AgentKeySet
  BY Bounds
<1>2. PICK e \in Entries : e = cache[r.key]
  BY <1>1 DEF VerifierInv, VerifierTypeOK
<1>3. /\ EntryOK(r.key, e) /\ e.answers \in Answers /\ e.expiresAt \in Nat
      /\ e.expiresAt > now /\ now \in Nat /\ CacheTtl \in Nat /\ RpcTimeout \in Nat
  BY <1>1, <1>2, Bounds, Chosen
     DEF VerifierInv, VerifierTypeOK, CacheOK, CacheHit, Entries, ChainOK
<1>4. PICK time \in Int : time = e.expiresAt - CacheTtl - RpcTimeout
  BY <1>3
<1>5. PICK earlier \in Int : earlier = now - CacheTtl - RpcTimeout + 1
  BY <1>3
<1>6. earlier <= time
  BY <1>3, <1>4, <1>5
<1>7. /\ Named(e.answers, r.key) /\ FreshSince(e.answers, time) /\ FewSince(e.answers, time)
  BY <1>2, <1>3, <1>4 DEF EntryOK
<1>8. FreshSince(e.answers, earlier) /\ FewSince(e.answers, earlier)
  BY <1>3, <1>6, <1>7, SinceEarlier DEF VerifierInv
<1>9. JudgedOK([req |-> r, entered |-> now], e.answers)
  BY <1>2, <1>5, <1>7, <1>8 DEF JudgedOK
<1>10. [req |-> r, entered |-> now] \in Jobs /\ now <= now
  BY <1>3 DEF Jobs
<1> QED
  BY <1>2, <1>3, <1>9, <1>10 DEF Justified

\* A call that enters is found to be a replay, goes on from the cache or asks.
LEMMA EnterKeepsInv ==
  ASSUME VerifierInv, UNCHANGED <<service, chainVars>>, NEW c \in Calls, NEW r \in Requests,
         Enter(c, r)
  PROVE  VerifierInv'
<1>1. VerifierTypeOK /\ ChainOK /\ SelfProviderCacheOK /\ now \in Nat
  BY DEF VerifierInv, ChainOK
<1>2. UNCHANGED <<cache, selfProviderCache>>
  BY DEF Enter
<1>3. PICK job \in Jobs : job = [req |-> r, entered |-> now]
  BY <1>1 DEF Jobs
<1>4. ASSUME EnableReplayProtection, NEW kept \in SUBSET replayCache, Pruned(kept),
             replayCache' = kept, Reject(c), UNCHANGED passed
      PROVE  VerifierInv'
  <2>1. Settled(c)
    BY <1>4, RejectSettles
  <2>2. kept \subseteq Requests /\ IsFiniteSet(kept)
    BY <1>1, <1>4, PrunedTyped
  <2>3. RememberedUnlessFull'
    BY <1>4, FoundKeepsRemembered
  <2> QED
    BY <1>1, <1>2, <1>4, <2>1, <2>2, <2>3, SettledKeepsInv DEF VerifierTypeOK
<1>5. ASSUME RecordRequest(r), Settled(c)
      PROVE  VerifierInv'
  <2>1. /\ RememberedUnlessFull'
        /\ replayCache' \subseteq Requests /\ IsFiniteSet(replayCache')
        /\ passed' \in [Requests -> Nat]
    BY <1>5, RecordKeepsRemembered
  <2> QED
    BY <1>2, <1>5, <2>1, SettledKeepsInv
<1>6. ASSUME CacheHit(r.key), Judge(c, job, cache[r.key].answers)
      PROVE  Settled(c)
  <2>1. PICK answers : answers = cache[r.key].answers
    OBVIOUS
  <2>2. answers.isProofFresh => Justified(job, answers)
    BY <1>3, <1>6, <2>1, CachedJustifies
  <2>3. job.entered <= now
    BY <1>1, <1>3
  <2> QED
    BY <1>1, <1>6, <2>1, <2>2, <2>3, JudgeSettles
<1>7. ASSUME Await(c, job, "ident", NoAnswers)
      PROVE  Settled(c)
  <2>1. PICK entered \in Nat : entered = now
    BY <1>1
  <2>2. Await(c, [req |-> r, entered |-> entered], "ident", NoAnswers) /\ entered <= now
    BY <1>3, <1>7, <2>1
  <2> QED
    BY <1>1, <2>2, FirstWaitSettles
<1> QED
  BY <1>3, <1>4, <1>5, <1>6, <1>7 DEF Enter

\* An ECDSA signature is recovered at once, an Ed25519 one is awaited.
LEMMA ReceiveKeepsInv ==
  ASSUME VerifierInv, UNCHANGED <<service, chainVars>>, NEW c \in Calls, NEW r \in Requests,
         Receive(c, r)
  PROVE  VerifierInv'
<1>1. CASE Enter(c, r)
  BY <1>1, EnterKeepsInv
<1>2. CASE /\ Await(c, [req |-> r, entered |-> 0], "signature", NoAnswers)
           /\ UNCHANGED <<cache, replayCache, selfProviderCache, buckets, passed, admitted>>
  <2>1. ChainOK /\ 0 \in Nat /\ 0 <= now
    BY DEF VerifierInv, ChainOK
  <2>2. Settled(c)
    BY <1>2, <2>1, FirstWaitSettles
  <2> QED
    BY <1>2, <2>2, SettledKeepsInv
<1> QED
  BY <1>1, <1>2 DEF Receive

\* A call with a good Ed25519 signature enters with its request.
LEMMA SignatureKeepsInv ==
  ASSUME VerifierInv, UNCHANGED <<service, chainVars>>, NEW c \in Calls, SignatureVerified(c)
  PROVE  VerifierInv'
<1>1. PICK r \in Requests : r = call[c].job.req
  BY DEF VerifierInv, VerifierTypeOK, CallsOK, CallOK, SignatureVerified
<1> QED
  BY <1>1, EnterKeepsInv DEF SignatureVerified

\* A read is answered.
LEMMA AnsweredKeepsInv ==
  ASSUME VerifierInv, UNCHANGED <<service, chainVars>>, NEW c \in Calls, NEW q, Answered(c, q)
  PROVE  VerifierInv'
<1>1. PICK k \in CallSet : k = call[c]
  BY DEF VerifierInv, VerifierTypeOK
<1>2. CallOK(k) /\ ChainOK /\ service \in Services
  BY <1>1 DEF VerifierInv, CallsOK, VerifierTypeOK
<1> DEFINE view == OnChain(k.job.req.key, k.answers.getAgentId, k.answers.getHumanNullifier)
<1>3. /\ k.pc \in {"ident", "detail"}
      /\ q \in Questions[k.pc] \ k.known
      /\ q = "getAgentCountForHuman" => "getHumanNullifier" \in k.known
      /\ call' = [call EXCEPT ![c].known = @ \cup {q}, ![c].answers[q] = view[q]]
      /\ UNCHANGED <<cache, replayCache, selfProviderCache, buckets, passed, admitted>>
  BY <1>1 DEF Answered
<1>4. q \in QuestionSet
  BY <1>3, QuestionShape, QuestionNames
<1>5. view \in Answers /\ k.answers \in Answers
  <2>1. k.answers \in Answers /\ k.answers.getAgentId \in Slots
    BY DEF CallSet, Answers, Slots
  <2> QED
    BY <1>2, <2>1, ViewShape
<1>6. PICK answers : answers = [k.answers EXCEPT ![q] = view[q]]
  OBVIOUS
<1>7. /\ answers \in Answers /\ answers[q] = view[q]
      /\ \A r \in QuestionSet \ {q} : answers[r] = k.answers[r]
  <2>1. PICK v \in Answers : v = view
    BY <1>5
  <2>2. answers = [k.answers EXCEPT ![q] = v[q]]
    BY <1>6, <2>1
  <2> QED
    BY <1>4, <1>5, <2>1, <2>2, AnswerReplaced
<1> DEFINE new == [k EXCEPT !.known = k.known \cup {q}, !.answers = answers]
<1> HIDE DEF view
<1>8. call' = [call EXCEPT ![c] = new]
  <2>1. call \in [Calls -> CallSet]
    BY DEF VerifierInv, VerifierTypeOK
  <2> QED
    BY <1>1, <1>3, <1>6, <2>1 DEF CallSet
<1>9. /\ new \in CallSet /\ new.pc = k.pc /\ new.job = k.job /\ new.since = k.since
  BY <1>4, <1>7 DEF CallSet
<1>10. k.pc = "ident" => IdentOK(new)
  BY ZenonT(40), <1>2, <1>3, <1>7, IdentAnswered, QuestionShape DEF view
<1>11. k.pc = "detail" => DetailOK(new)
  BY <1>2, <1>3, <1>7, DetailAnswered DEF view
<1> HIDE DEF new
<1>12. CallOK(new)
  BY <1>2, <1>3, <1>9, <1>10, <1>11 DEF CallOK
<1>13. Settled(c)
  BY <1>8, <1>9, <1>12 DEF Settled
<1> QED
  BY <1>3, <1>13, SettledKeepsInv

\* The rest is asked for about an agent of the key.
LEMMA AskDetailsKeepsInv ==
  ASSUME VerifierInv, UNCHANGED <<service, chainVars>>, NEW c \in Calls, AskDetails(c)
  PROVE  VerifierInv'
<1>1. PICK k \in CallSet : k = call[c]
  BY DEF VerifierInv, VerifierTypeOK
<1>2. CallOK(k) /\ ChainOK /\ now \in Nat /\ now <= now + RpcTimeout
  BY <1>1, Bounds DEF VerifierInv, CallsOK, ChainOK
<1> DEFINE new == [pc |-> "detail", job |-> k.job, since |-> now, known |-> {},
                   answers |-> k.answers]
<1>3. /\ k.pc = "ident" /\ k.answers.getAgentId # 0
      /\ call' = [call EXCEPT ![c] = new]
      /\ UNCHANGED <<cache, replayCache, selfProviderCache, buckets, passed, admitted>>
  BY <1>1 DEF AskDetails, Await
<1>4. IdentOK(k) /\ k.job.req \in Requests /\ k.job.entered <= now
  BY <1>2, <1>3 DEF CallOK
<1>5. DetailOK(new)
  BY <1>3, <1>4 DEF DetailOK, IdentOK, FreshSince
<1>6. new \in CallSet
  BY <1>2 DEF CallSet, Phases, Waiting
<1>7. CallOK(new)
  BY <1>2, <1>4, <1>5 DEF CallOK
<1> HIDE DEF new
<1>8. Settled(c)
  BY <1>3, <1>6, <1>7 DEF Settled
<1> QED
  BY <1>3, <1>8, SettledKeepsInv

\* What a call read is so since its phase began, no longer than a wait ago.
LEMMA StoreKeepsInv ==
  ASSUME VerifierInv, UNCHANGED <<service, chainVars>>, NEW c \in Calls, StoreAnswers(c)
  PROVE  VerifierInv'
<1>1. PICK k \in CallSet : k = call[c]
  BY DEF VerifierInv, VerifierTypeOK
<1>2. /\ CallOK(k) /\ VerifierTypeOK /\ ChainOK /\ SelfProviderCacheOK /\ service \in Services
  BY <1>1 DEF VerifierInv, CallsOK, VerifierTypeOK
<1>3. /\ (k.pc = "ident" /\ k.answers.getAgentId = 0) \/ k.pc = "detail"
      /\ k.known = Questions[k.pc]
      /\ cache' = [cache EXCEPT ![k.job.req.key] =
                       [answers |-> k.answers, expiresAt |-> now + CacheTtl]]
      /\ Judge(c, k.job, k.answers)
      /\ UNCHANGED <<replayCache, selfProviderCache, passed>>
  BY <1>1 DEF StoreAnswers
<1>4. /\ k.job.req \in Requests /\ k.job \in Jobs /\ k.answers \in Answers
      /\ k.job.entered \in Nat /\ k.since \in Nat /\ now \in Nat
      /\ k.job.entered <= now /\ k.job.entered <= k.since
      /\ k.since <= now /\ now <= k.since + RpcTimeout
      /\ CacheTtl \in Nat /\ RpcTimeout \in Nat
  BY <1>2, <1>3, Bounds, Chosen DEF CallOK, CallSet, Jobs, Waiting, ChainOK
<1>5. ASSUME k.answers.isProofFresh
      PROVE  /\ Named(k.answers, k.job.req.key)
             /\ FreshSince(k.answers, k.since) /\ FewSince(k.answers, k.since)
  <2>1. k.pc = "detail"
    BY <1>2, <1>3, <1>5 DEF CallOK, IdentOK
  <2>2. DetailOK(k)
    BY <1>2, <2>1 DEF CallOK
  <2>3. CASE MaxAgentsPerHuman > 0
    <3>1. "getAgentCountForHuman" \in k.known
      BY <1>3, <2>1, <2>3, QuestionShape
    <3> QED
      BY <2>2, <3>1 DEF DetailOK
  <2>4. CASE ~ (MaxAgentsPerHuman > 0)
    BY <2>2, <2>4 DEF DetailOK, FewSince
  <2> QED
    BY <2>3, <2>4
<1>6. k.answers.isProofFresh => Justified(k.job, k.answers)
  <2> SUFFICES ASSUME k.answers.isProofFresh
               PROVE  Justified(k.job, k.answers)
    OBVIOUS
  <2>1. PICK earlier \in Int : earlier = k.job.entered - CacheTtl - RpcTimeout + 1
    BY <1>4
  <2>2. earlier <= k.since /\ k.since \in Int
    BY <1>4, <2>1, Bounds
  <2>3. FreshSince(k.answers, earlier) /\ FewSince(k.answers, earlier)
    BY <1>2, <1>4, <1>5, <2>2, SinceEarlier
  <2>4. JudgedOK(k.job, k.answers)
    BY <1>5, <2>1, <2>3 DEF JudgedOK
  <2> QED
    BY <1>4, <2>4 DEF Justified
<1>7. Settled(c)
  <2>1. PICK job \in Jobs, answers \in Answers : job = k.job /\ answers = k.answers
    BY <1>4
  <2>2. /\ answers.isProofFresh => Justified(job, answers)
        /\ job.entered <= now
        /\ Judge(c, job, answers)
    BY <1>3, <1>4, <1>6, <2>1
  <2> QED
    BY <1>2, <2>2, JudgeSettles
<1>8. PICK e \in Entries : e = [answers |-> k.answers, expiresAt |-> now + CacheTtl]
  <2>1. now + CacheTtl \in Nat
    BY <1>4
  <2> QED
    BY <1>4, <2>1 DEF Entries
<1>9. cache' \in [AgentKeySet -> Entries]
  BY <1>2, <1>3, <1>8 DEF VerifierTypeOK
<1>10. Later
  BY <1>2 DEF Later, chainVars, ChainOK
<1>11. CacheOK'
  <2>1. EntryOK(k.job.req.key, e)
    <3> SUFFICES ASSUME e.answers.isProofFresh
                 PROVE  /\ Named(e.answers, k.job.req.key)
                        /\ FreshSince(e.answers, e.expiresAt - CacheTtl - RpcTimeout)
                        /\ FewSince(e.answers, e.expiresAt - CacheTtl - RpcTimeout)
      BY DEF EntryOK
    <3>1. PICK earlier \in Int : earlier = e.expiresAt - CacheTtl - RpcTimeout
      BY <1>4, <1>8
    <3>2. earlier <= k.since /\ k.since \in Int
      BY <1>4, <1>8, <3>1
    <3>3. e.answers = k.answers
      BY <1>8
    <3>4. FreshSince(k.answers, earlier) /\ FewSince(k.answers, earlier)
      BY <1>2, <1>4, <1>5, <3>2, <3>3, SinceEarlier
    <3> QED
      BY <1>5, <3>1, <3>3, <3>4
  <2> SUFFICES ASSUME NEW key \in AgentKeySet
               PROVE  EntryOK(key, cache[key])'
    BY DEF CacheOK
  <2>2. PICK f \in Entries : f = cache'[key] /\ EntryOK(key, f)
    <3>1. CASE key = k.job.req.key
      BY <1>2, <1>3, <1>8, <2>1, <3>1 DEF VerifierTypeOK
    <3>2. CASE key # k.job.req.key
      BY <1>2, <1>3, <3>2 DEF VerifierTypeOK, VerifierInv, CacheOK
    <3> QED
      BY <3>1, <3>2
  <2>3. EntryOK(key, f)'
    BY <2>2, SettingsStay DEF EntryOK, Named, FreshSince, FewSince, chainVars
  <2> QED
    BY <2>2, <2>3
<1> QED
  BY <1>3, <1>7, <1>9, <1>11, SettledKeepsInv

\* The provider that is answered is the registry's own now.
LEMMA ProviderKeepsInv ==
  ASSUME VerifierInv, UNCHANGED <<service, chainVars>>, NEW c \in Calls, ProviderAnswered(c)
  PROVE  VerifierInv'
<1>1. PICK k \in CallSet : k = call[c]
  BY DEF VerifierInv, VerifierTypeOK
<1>2. /\ CallOK(k) /\ VerifierTypeOK /\ ChainOK /\ service \in Services
      /\ now \in Nat /\ selfProofProvider \in Providers
      /\ lastSelf[selfProofProvider] = now
  BY <1>1 DEF VerifierInv, CallsOK, VerifierTypeOK, ChainOK
<1>3. /\ k.pc = "provider"
      /\ selfProviderCache' = [address |-> selfProofProvider,
                               expiresAt |-> now + CacheTtl * ProviderTtlFactor]
      /\ Screen(c, k.job, k.answers, selfProofProvider)
      /\ UNCHANGED <<cache, replayCache, passed>>
  BY <1>1 DEF ProviderAnswered
<1>4. Justified(k.job, k.answers) /\ k.job.entered \in Nat
  BY <1>2, <1>3 DEF CallOK, CallSet, Jobs, Justified
<1>5. PICK p \in Providers : p = selfProofProvider
  BY <1>2
<1>6. SelfSince(p, k.job.entered)
  BY <1>2, <1>4, <1>5 DEF SelfSince, Justified
<1>7. Settled(c)
  BY <1>2, <1>3, <1>4, <1>5, <1>6, ScreenSettles
<1>8. PICK span \in Nat : span = CacheTtl * ProviderTtlFactor /\ span' = span
  BY <1>2, Chosen
<1>9. selfProviderCache' \in [address : Providers \cup {NoProvider}, expiresAt : Nat]
  BY <1>2, <1>3, <1>5, <1>8
<1>10. SelfProviderCacheOK'
  <2>1. CacheTtl' * ProviderTtlFactor = span
    BY <1>8, SettingsStay
  <2>2. lastSelf' = lastSelf
    BY DEF chainVars
  <2>3. /\ selfProviderCache'.address = p /\ selfProviderCache'.expiresAt = now + span
    BY <1>3, <1>5, <1>8
  <2>4. lastSelf'[p] >= now + span - span
    BY <1>2, <1>5, <1>8, <2>2
  <2>5. /\ selfProviderCache'.address \in Providers
        /\ lastSelf'[selfProviderCache'.address] >= selfProviderCache'.expiresAt - span
    BY <1>2, <1>5, <1>8, <2>3, <2>4
  <2> QED
    BY <2>1, <2>5 DEF SelfProviderCacheOK
<1> QED
  BY <1>3, <1>7, <1>9, <1>10, SettledKeepsInv

\* With or without credentials, a call knows what it knew before.
LEMMA CredentialsKeepInv ==
  ASSUME VerifierInv, UNCHANGED <<service, chainVars>>, NEW c \in Calls,
         CredentialsAnswered(c) \/ CredentialsFailed(c)
  PROVE  VerifierInv'
<1>1. PICK k \in CallSet : k = call[c]
  BY DEF VerifierInv, VerifierTypeOK
<1>2. CallOK(k)
  BY <1>1 DEF VerifierInv, CallsOK
<1>3. /\ k.pc = "credentials"
      /\ CheckRate(c, k.job, k.answers) \/ Reject(c)
      /\ UNCHANGED <<cache, replayCache, selfProviderCache, passed>>
  BY <1>1 DEF CredentialsAnswered, CredentialsFailed
<1>4. Justified(k.job, k.answers) /\ ScreenedOK(k.job, k.answers)
  BY <1>2, <1>3 DEF CallOK, CallSet, Jobs, Justified
<1>5. Settled(c)
  BY <1>3, <1>4, RateSettles, RejectSettles
<1> QED
  BY <1>3, <1>5, SettledKeepsInv

\* A cleared verifier has let nothing through.
LEMMA ClearKeepsInv ==
  ASSUME VerifierInv, UNCHANGED <<service, chainVars>>, ClearCache
  PROVE  VerifierInv'
<1>1. /\ cache' = [key \in AgentKeySet |-> [answers |-> NoAnswers, expiresAt |-> 0]]
      /\ selfProviderCache' = [address |-> NoProvider, expiresAt |-> 0]
      /\ replayCache' = {} /\ passed' = [r \in Requests |-> 0]
      /\ UNCHANGED <<call, service>>
  BY DEF ClearCache
<1>2. Later /\ VerifierTypeOK /\ ChainOK /\ CallsOK
  BY DEF Later, chainVars, VerifierInv, ChainOK
<1>3. VerifierTypeOK'
  BY <1>1, <1>2, NoAnswersTyped, FS_EmptySet DEF VerifierTypeOK, Entries
<1>4. CacheOK'
  <2> SUFFICES ASSUME NEW key \in AgentKeySet
               PROVE  EntryOK(key, cache[key])'
    BY DEF CacheOK
  <2>1. ~ cache'[key].answers.isProofFresh
    BY <1>1 DEF NoAnswers
  <2> QED
    BY <2>1 DEF EntryOK
<1>5. SelfProviderCacheOK'
  BY <1>1 DEF SelfProviderCacheOK
<1>6. RememberedUnlessFull'
  BY <1>1 DEF RememberedUnlessFull
<1>7. CallsOK'
  BY <1>1, <1>2, SettingsStay
     DEF CallsOK, CallOK, IdentOK, DetailOK, JudgedOK, ScreenedOK, SelfSince, Named, FreshSince,
         FewSince, chainVars
<1>8. ChainOK'
  BY <1>2, VerifierKeepsChain
<1> QED
  BY <1>3, <1>4, <1>5, <1>6, <1>7, <1>8 DEF VerifierInv

-----------------------------------------------------------------------------
(* The theorems.                                                           *)

\* At first there is no agent, no call and nothing cached.
LEMMA InitVerifierInv == Init => VerifierInv
<1> SUFFICES ASSUME Init
             PROVE  VerifierInv
  OBVIOUS
<1>1. service \in Services /\ Registry!Init
  BY DEF Init
<1>2. Registry!LedgerOK /\ ledger = {} /\ issued = 0
  BY <1>1, InitLedgerOK, Bounds DEF Registry!Init
<1>3. now = 1 /\ selfProofProvider \in Providers
  BY <1>1, Chosen DEF Init
<1>4. VerifierTypeOK
  <2>1. Idle \in CallSet
    BY NoAnswersTyped DEF Idle, CallSet, Phases, Waiting, Jobs
  <2> QED
    BY <1>1, <2>1, NoAnswersTyped, FS_EmptySet DEF Init, VerifierTypeOK, Entries
<1>5. ChainOK
  <2>1. \A id : ~ Fresh(id)
    BY <1>2 DEF Fresh
  <2>2. /\ expiresAt \in [Slots -> Nat] /\ providerOf \in [Slots -> Providers \cup {NoProvider}]
        /\ lastFresh \in [AgentIds -> Nat] /\ \A id \in AgentIds : lastFresh[id] <= now
        /\ lastFew \in [Humans -> Nat] /\ \A h \in Humans : lastFew[h] = now
        /\ lastSelf \in [Providers -> Nat] /\ \A p \in Providers : lastSelf[p] <= now
        /\ lastSelf[selfProofProvider] = now /\ ever = {}
    BY <1>3 DEF Init, Slots
  <2> QED
    BY <1>2, <1>3, <2>1, <2>2, FS_EmptySet DEF ChainOK
<1>6. CallsOK
  BY DEF Init, CallsOK, CallOK, Idle, Waiting
<1>7. CacheOK
  <2> SUFFICES ASSUME NEW key \in AgentKeySet
               PROVE  EntryOK(key, cache[key])
    BY DEF CacheOK
  <2>1. ~ cache[key].answers.isProofFresh
    BY DEF Init, NoAnswers
  <2> QED
    BY <2>1 DEF EntryOK
<1>8. SelfProviderCacheOK
  BY DEF Init, SelfProviderCacheOK
<1>9. RememberedUnlessFull
  BY DEF Init, RememberedUnlessFull
<1> QED
  BY <1>4, <1>5, <1>6, <1>7, <1>8, <1>9 DEF VerifierInv

\* Every step, of the verifier or of the chain, keeps the invariant.
LEMMA NextVerifierInv == VerifierInv /\ [Next]_vars => VerifierInv'
<1> SUFFICES ASSUME VerifierInv, [Next]_vars
             PROVE  VerifierInv'
  OBVIOUS
<1>1. ASSUME VerifierStep, UNCHANGED service
      PROVE  VerifierInv'
  <2>1. UNCHANGED <<service, chainVars>>
    BY <1>1 DEF VerifierStep
  <2>2. service.calls \subseteq Calls /\ service.requests \subseteq Requests
    BY Chosen DEF VerifierInv, VerifierTypeOK
  <2>3. ASSUME NEW c \in Calls, NEW r \in Requests, Receive(c, r)
        PROVE  VerifierInv'
    BY <2>1, <2>3, ReceiveKeepsInv
  <2>4. ASSUME NEW c \in Calls, SignatureVerified(c)
        PROVE  VerifierInv'
    BY <2>1, <2>4, SignatureKeepsInv
  <2>5. ASSUME NEW c \in Calls, NEW q, Answered(c, q)
        PROVE  VerifierInv'
    BY <2>1, <2>5, AnsweredKeepsInv
  <2>6. ASSUME NEW c \in Calls, AskDetails(c)
        PROVE  VerifierInv'
    BY <2>1, <2>6, AskDetailsKeepsInv
  <2>7. ASSUME NEW c \in Calls, StoreAnswers(c)
        PROVE  VerifierInv'
    BY <2>1, <2>7, StoreKeepsInv
  <2>8. ASSUME NEW c \in Calls, ProviderAnswered(c)
        PROVE  VerifierInv'
    BY <2>1, <2>8, ProviderKeepsInv
  <2>9. ASSUME NEW c \in Calls, CredentialsAnswered(c) \/ CredentialsFailed(c)
        PROVE  VerifierInv'
    BY <2>1, <2>9, CredentialsKeepInv
  <2>10. ASSUME NEW c \in Calls, CallFailed(c)
         PROVE  VerifierInv'
    <3>1. Settled(c)
      BY <2>10, RejectSettles DEF CallFailed
    <3> QED
      BY <2>1, <2>10, <3>1, SettledKeepsInv DEF CallFailed
  <2>11. CASE ClearCache
    BY <2>1, <2>11, ClearKeepsInv
  <2> QED
    BY <1>1, <2>2, <2>3, <2>4, <2>5, <2>6, <2>7, <2>8, <2>9, <2>10, <2>11 DEF VerifierStep
<1>2. ASSUME ChainStep, UNCHANGED service
      PROVE  VerifierInv'
  BY <1>2, ChainStepKeepsInv
<1>3. CASE UNCHANGED vars
  <2>1. UNCHANGED <<service, chainVars, call, cache, replayCache, selfProviderCache, passed>>
    BY <1>3 DEF vars, verifierVars
  <2>2. ChainOK'
    BY <2>1, VerifierKeepsChain DEF VerifierInv
  <2>3. VerifierTypeOK'
    BY <2>1 DEF VerifierInv, VerifierTypeOK
  <2>4. Later
    BY <2>1 DEF Later, chainVars, VerifierInv, ChainOK
  <2>5. CallsOK'
    BY <2>1, SettingsStay
       DEF VerifierInv, CallsOK, CallOK, IdentOK, DetailOK, JudgedOK, ScreenedOK, SelfSince,
           Named, FreshSince, FewSince, chainVars
  <2>6. CacheOK' /\ SelfProviderCacheOK' /\ RememberedUnlessFull'
    BY <2>1, <2>4, CacheOKLater, SelfProviderCacheOKLater, RememberedLater DEF VerifierInv
  <2> QED
    BY <2>2, <2>3, <2>5, <2>6 DEF VerifierInv
<1> QED
  BY <1>1, <1>2, <1>3 DEF Next

\* What a verifier knows, remembers and answers agrees with the chain's past.
THEOREM VerifierCorrect == Spec => []VerifierInv
BY InitVerifierInv, NextVerifierInv, PTL DEF Spec

\* Whatever the service and however its calls interleave with the chain, a valid result
\* names an agent of the key that signed whose proof was fresh, and whose human had few
\* enough agents, no longer ago than the cache and one wait allow.
THEOREM ValidCorrect == Spec => []ValidWasTrue
<1>1. VerifierInv => ValidWasTrue
  <2> SUFFICES ASSUME VerifierInv, NEW c \in Calls, call[c].pc = "valid"
               PROVE  LET answers == call[c].answers
                          job == call[c].job
                          human == answers.getHumanNullifier
                          earliest == job.entered - CacheTtl - RpcTimeout
                      IN
                      /\ \E a \in ever :
                            /\ a.number = answers.getAgentId
                            /\ a.key = job.req.key
                            /\ human \in {a.human, NoHuman}
                      /\ lastFresh[answers.getAgentId] > earliest
                      /\ MaxAgentsPerHuman > 0 /\ human # NoHuman => lastFew[human] > earliest
    BY DEF ValidWasTrue
  <2>1. PICK k \in CallSet : k = call[c]
    BY DEF VerifierInv, VerifierTypeOK
  <2>2. /\ JudgedOK(k.job, k.answers) /\ ScreenedOK(k.job, k.answers) /\ ChainOK
        /\ k.answers \in Answers
    BY <2>1 DEF VerifierInv, CallsOK, CallOK, CallSet
  <2>3. PICK earliest \in Int : earliest = k.job.entered - CacheTtl - RpcTimeout
    BY Chosen, Bounds DEF VerifierInv, VerifierTypeOK, CallSet
  <2>4. /\ Named(k.answers, k.job.req.key)
        /\ k.answers.getAgentId \in AgentIds
        /\ lastFresh[k.answers.getAgentId] >= earliest + 1
    BY <2>2, <2>3 DEF JudgedOK, FreshSince
  <2>5. ASSUME MaxAgentsPerHuman > 0, k.answers.getHumanNullifier # NoHuman
        PROVE  lastFew[k.answers.getHumanNullifier] >= earliest + 1
    BY <2>2, <2>3, <2>5 DEF JudgedOK, FewSince, ScreenedOK
  <2>6. /\ lastFresh[k.answers.getAgentId] > earliest
        /\ MaxAgentsPerHuman > 0 /\ k.answers.getHumanNullifier # NoHuman =>
              lastFew[k.answers.getHumanNullifier] > earliest
    BY <2>2, <2>4, <2>5 DEF ChainOK, Answers
  <2> QED
    BY <2>1, <2>3, <2>4, <2>6 DEF Named
<1> QED
  BY <1>1, VerifierCorrect, PTL

\* The provider behind a valid result was the registry's own.
THEOREM ProviderCorrect == Spec => []ProviderWasSelf
<1>1. VerifierInv => ProviderWasSelf
  BY DEF VerifierInv, CallsOK, CallOK, ScreenedOK, SelfSince, ProviderWasSelf
<1> QED
  BY <1>1, VerifierCorrect, PTL

\* A request let through is remembered for as long as its timestamp is good, unless the
\* cache is full of requests that stay good as long.
THEOREM RememberedCorrect == Spec => []RememberedUnlessFull
BY VerifierCorrect, PTL DEF VerifierInv

-----------------------------------------------------------------------------
(* The rate limiter.                                                       *)

Passages == [nth : Nat, at : Nat]

\* What a limiter let one key through, and the part of it that it keeps: nothing is in
\* the future, what is within an hour is kept, and no window holds more than its limit.
LimitedOK(kept, all) ==
    /\ kept \subseteq all
    /\ all \subseteq Passages
    /\ IsFiniteSet(all)
    /\ \A e \in all : /\ e.at <= now /\ e.nth <= Cardinality(all)
                      /\ e.at > now - Hour => e \in kept
    /\ \A t \in Nat :
          /\ PerMinute > 0 =>
                Cardinality({e \in all : t - Minute < e.at /\ e.at <= t}) <= PerMinute
          /\ PerHour > 0 =>
                Cardinality({e \in all : t - Hour < e.at /\ e.at <= t}) <= PerHour

RateInv ==
    /\ buckets \in [AgentKeySet -> SUBSET Passages]
    /\ admitted \in [AgentKeySet -> SUBSET Passages]
    /\ \A key \in AgentKeySet : LimitedOK(buckets[key], admitted[key])

\* What the limiter does of one request.
RateStep(key) ==
    \/ /\ buckets' = [buckets EXCEPT ![key] = Recent(key, Hour)]
       /\ UNCHANGED admitted
    \/ /\ ~ OverLimit(key)
       /\ buckets' = [buckets EXCEPT ![key] = Pushed(key)]
       /\ admitted' = [admitted EXCEPT ![key] = @ \cup {Passage(key)}]

Limited == NoRateCheck \/ \E key \in AgentKeySet : RateStep(key)

\* The limits and the windows of a service.
LEMMA Windows ==
  ASSUME service \in Services
  PROVE  /\ Minute \in Nat /\ Hour \in Nat /\ Minute <= Hour
         /\ PerMinute \in Nat /\ PerHour \in Nat
<1>1. service \in Settings /\ service.minute <= service.hour
  BY VerifierAssumption
<1> QED
  BY <1>1 DEF Settings, Minute, Hour, PerMinute, PerHour

\* They stay.
LEMMA WindowsStay ==
  ASSUME UNCHANGED service
  PROVE  /\ Minute' = Minute /\ Hour' = Hour
         /\ PerMinute' = PerMinute /\ PerHour' = PerHour
BY DEF Minute, Hour, PerMinute, PerHour

\* One more passage, now, when fewer than the limit are within the window that ends now:
\* no window ends up with more than the limit.
LEMMA OneMorePassage ==
  ASSUME NEW all, all \subseteq Passages, IsFiniteSet(all),
         NEW time \in Nat, NEW new \in Passages, new.at = time,
         NEW window \in Nat, NEW max \in Nat,
         Cardinality({e \in all : e.at > time - window}) < max,
         NEW t \in Nat,
         Cardinality({e \in all : t - window < e.at /\ e.at <= t}) <= max
  PROVE  Cardinality({e \in all \cup {new} : t - window < e.at /\ e.at <= t}) <= max
<1> DEFINE recent == {e \in all : e.at > time - window}
           old == {e \in all : t - window < e.at /\ e.at <= t}
           in == {e \in all \cup {new} : t - window < e.at /\ e.at <= t}
<1>1. \A e \in all : e.at \in Nat
  BY DEF Passages
<1>2. CASE t < time
  <2>1. in = old
    BY <1>1, <1>2
  <2> QED
    BY <2>1
<1>3. CASE t >= time
  <2>1. in \subseteq recent \cup {new}
    BY <1>1, <1>3
  <2>2. IsFiniteSet(recent) /\ Cardinality(recent) \in Nat
    BY FS_Subset, FS_CardinalityType
  <2>3. /\ IsFiniteSet(recent \cup {new})
        /\ Cardinality(recent \cup {new}) = Cardinality(recent)
           \/ Cardinality(recent \cup {new}) = Cardinality(recent) + 1
    BY <2>2, FS_AddElement
  <2>4. /\ Cardinality(in) <= Cardinality(recent \cup {new})
        /\ Cardinality(in) \in Nat
    BY <2>1, <2>3, FS_Subset, FS_CardinalityType
  <2>5. Cardinality(recent) < max
    OBVIOUS
  <2> HIDE DEF in, recent
  <2>6. Cardinality(in) <= max
    BY <2>2, <2>3, <2>4, <2>5
  <2> QED
    BY <2>6 DEF in
<1> QED
  BY <1>2, <1>3

\* What is kept shows every passage of a window that ends now.
LEMMA KeptIsRecent ==
  ASSUME service \in Services, now \in Nat, NEW key \in AgentKeySet,
         LimitedOK(buckets[key], admitted[key]),
         NEW window \in Nat, window <= Hour
  PROVE  Recent(key, window) = {e \in admitted[key] : e.at > now - window}
<1>1. Hour \in Nat
  BY Windows
<1>2. \A e \in admitted[key] : e.at \in Nat /\ (e.at > now - Hour => e \in buckets[key])
  BY DEF LimitedOK, Passages
<1>3. \A e \in admitted[key] : e.at > now - window => e.at > now - Hour
  BY <1>1, <1>2
<1> QED
  BY <1>2, <1>3 DEF Recent, LimitedOK

\* The limiter keeps to its limits.
LEMMA RateStepLimited ==
  ASSUME service \in Services, now \in Nat, RateInv, NEW key \in AgentKeySet, RateStep(key),
         UNCHANGED <<service, now>>
  PROVE  RateInv'
<1>1. /\ Minute \in Nat /\ Hour \in Nat /\ Minute <= Hour
      /\ PerMinute \in Nat /\ PerHour \in Nat
  BY Windows
<1> DEFINE all == admitted[key]
           new == Passage(key)
<1>2. /\ all \subseteq Passages /\ IsFiniteSet(all) /\ Cardinality(all) \in Nat
      /\ LimitedOK(buckets[key], all)
  BY FS_CardinalityType DEF RateInv, LimitedOK
<1>3. /\ Recent(key, Hour) = {e \in all : e.at > now - Hour}
      /\ Recent(key, Minute) = {e \in all : e.at > now - Minute}
  BY <1>1, <1>2, KeptIsRecent
<1>4. CASE /\ buckets' = [buckets EXCEPT ![key] = Recent(key, Hour)]
           /\ UNCHANGED admitted
  <2>1. LimitedOK(Recent(key, Hour), all)
    <3>1. Recent(key, Hour) \subseteq all
      BY <1>3
    <3>2. \A e \in all : e.at > now - Hour => e \in Recent(key, Hour)
      BY <1>3
    <3> QED
      BY <1>2, <3>1, <3>2 DEF LimitedOK
  <2>2. /\ buckets' \in [AgentKeySet -> SUBSET Passages]
        /\ admitted' \in [AgentKeySet -> SUBSET Passages]
        /\ \A k \in AgentKeySet : LimitedOK(buckets'[k], admitted'[k])
    BY <1>2, <1>3, <1>4, <2>1 DEF RateInv
  <2> QED
    BY <2>2, WindowsStay DEF RateInv, LimitedOK
<1>5. CASE /\ ~ OverLimit(key)
           /\ buckets' = [buckets EXCEPT ![key] = Pushed(key)]
           /\ admitted' = [admitted EXCEPT ![key] = @ \cup {new}]
  <2>1. new \in Passages /\ new.at = now /\ new.nth = Cardinality(all) + 1
    BY <1>2 DEF Passage, Passages
  <2>2. /\ PerMinute > 0 => Cardinality({e \in all : e.at > now - Minute}) < PerMinute
        /\ PerHour > 0 => Cardinality({e \in all : e.at > now - Hour}) < PerHour
    <3>1. /\ Cardinality({e \in all : e.at > now - Minute}) \in Nat
          /\ Cardinality({e \in all : e.at > now - Hour}) \in Nat
      BY <1>2, FS_Subset, FS_CardinalityType
    <3> QED
      BY <1>1, <1>3, <1>5, <3>1 DEF OverLimit
  <2>3. Pushed(key) = {e \in all : e.at > now - Hour} \cup {new}
    BY <1>3 DEF Pushed
  <2> HIDE DEF new
  <2>4. new \notin all
    BY <1>2, <2>1 DEF LimitedOK
  <2>5. IsFiniteSet(all \cup {new}) /\ Cardinality(all \cup {new}) = Cardinality(all) + 1
    BY <1>2, <2>4, FS_AddElement
  <2>6. \A e \in all \cup {new} :
           /\ e.at <= now /\ e.nth <= Cardinality(all \cup {new})
           /\ e.at > now - Hour => e \in Pushed(key)
    <3>1. \A e \in all : e.nth \in Nat /\ e.at <= now /\ e.nth <= Cardinality(all)
      BY <1>2 DEF LimitedOK, Passages
    <3>2. \A e \in all : e.nth <= Cardinality(all) + 1
      BY <1>2, <3>1
    <3> QED
      BY <1>2, <2>1, <2>3, <2>5, <3>1, <3>2
  <2>7. ASSUME NEW t \in Nat
        PROVE  /\ PerMinute > 0 =>
                     Cardinality({e \in all \cup {new} : t - Minute < e.at /\ e.at <= t})
                        <= PerMinute
               /\ PerHour > 0 =>
                     Cardinality({e \in all \cup {new} : t - Hour < e.at /\ e.at <= t})
                        <= PerHour
    <3>1. /\ PerMinute > 0 =>
                Cardinality({e \in all : t - Minute < e.at /\ e.at <= t}) <= PerMinute
          /\ PerHour > 0 =>
                Cardinality({e \in all : t - Hour < e.at /\ e.at <= t}) <= PerHour
      BY <1>2, <2>7 DEF LimitedOK
    <3> HIDE DEF all
    <3> QED
      BY SMTT(20), <1>1, <1>2, <2>1, <2>2, <3>1, OneMorePassage
  <2>8. LimitedOK(Pushed(key), all \cup {new})
    BY <1>2, <2>1, <2>3, <2>5, <2>6, <2>7 DEF LimitedOK
  <2>9. /\ buckets' \in [AgentKeySet -> SUBSET Passages]
        /\ admitted' \in [AgentKeySet -> SUBSET Passages]
        /\ \A k \in AgentKeySet : LimitedOK(buckets'[k], admitted'[k])
    BY <1>2, <1>5, <2>1, <2>3, <2>8 DEF RateInv
  <2> QED
    BY <2>9, WindowsStay DEF RateInv, LimitedOK
<1> QED
  BY <1>4, <1>5 DEF RateStep

\* As time goes on, less is within an hour.
LEMMA LimitedLater ==
  ASSUME service \in Services, now \in Nat, RateInv, UNCHANGED <<service, buckets, admitted>>,
         now' \in Nat, now' >= now
  PROVE  RateInv'
<1>1. Hour \in Nat
  BY Windows
<1>2. ASSUME NEW key \in AgentKeySet, NEW e \in admitted[key]
      PROVE  /\ e.at <= now' /\ e.nth <= Cardinality(admitted[key])
             /\ e.at > now' - Hour => e \in buckets[key]
  <2>1. /\ e.at \in Nat /\ e.at <= now /\ e.nth <= Cardinality(admitted[key])
        /\ e.at > now - Hour => e \in buckets[key]
    BY DEF RateInv, LimitedOK, Passages
  <2>2. e.at <= now' /\ (e.at > now' - Hour => e.at > now - Hour)
    BY <1>1, <2>1
  <2> QED
    BY <2>1, <2>2
<1> QED
  BY <1>2, WindowsStay DEF RateInv, LimitedOK

\* Whatever a check of the rate decides.
LEMMA RateLimits ==
  ASSUME NEW c, NEW job, job.req.key \in AgentKeySet, NEW answers, CheckRate(c, job, answers)
  PROVE  Limited
BY DEF CheckRate, Limited, RateStep, NoRateCheck

\* A screening checks the rate last, or not at all.
LEMMA ScreenLimits ==
  ASSUME NEW c, NEW job, job.req.key \in AgentKeySet, NEW answers, NEW selfProvider,
         Screen(c, job, answers, selfProvider)
  PROVE  Limited
BY RateLimits DEF Screen, Limited

\* So does a judgement.
LEMMA JudgeLimits ==
  ASSUME NEW c, NEW job, job.req.key \in AgentKeySet, NEW answers, Judge(c, job, answers)
  PROVE  Limited
BY ScreenLimits DEF Judge, Limited

\* And a call that enters.
LEMMA EnterLimits ==
  ASSUME NEW c, NEW r \in Requests, Enter(c, r)
  PROVE  Limited
<1> DEFINE job == [req |-> r, entered |-> now]
<1>1. job.req = r /\ r.key \in AgentKeySet
  BY Bounds
<1>2. NoRateCheck \/ Judge(c, job, cache[r.key].answers)
  BY DEF Enter
<1> HIDE DEF job
<1> QED
  BY <1>1, <1>2, JudgeLimits DEF Limited

\* Nothing else in a step of the verifier touches the limiter.
LEMMA VerifierLimits ==
  ASSUME VerifierInv, VerifierStep
  PROVE  Limited
<1>1. service.calls \subseteq Calls /\ service.requests \subseteq Requests
  BY Chosen DEF VerifierInv, VerifierTypeOK
<1>2. \A r \in Requests : r.key \in AgentKeySet
  BY Bounds
<1>3. \A c \in Calls : call[c].pc # "idle" => call[c].job.req \in Requests
  BY DEF VerifierInv, CallsOK, CallOK
<1>4. ASSUME NEW c \in Calls, NEW r \in Requests, Receive(c, r)
      PROVE  Limited
  BY <1>4, EnterLimits DEF Receive, Limited, NoRateCheck
<1>5. ASSUME NEW c \in Calls, SignatureVerified(c)
      PROVE  Limited
  BY <1>3, <1>5, EnterLimits DEF SignatureVerified
<1>6. ASSUME NEW c \in Calls, NEW q, Answered(c, q) \/ AskDetails(c) \/ CallFailed(c)
      PROVE  Limited
  BY <1>6 DEF Answered, AskDetails, CallFailed, Limited, NoRateCheck
<1>7. ASSUME NEW c \in Calls, StoreAnswers(c)
      PROVE  Limited
  <2>1. call[c].pc # "idle" /\ Judge(c, call[c].job, call[c].answers)
    BY <1>7 DEF StoreAnswers
  <2> QED
    BY <1>2, <1>3, <2>1, JudgeLimits
<1>8. ASSUME NEW c \in Calls, ProviderAnswered(c)
      PROVE  Limited
  <2>1. /\ call[c].pc # "idle"
        /\ Screen(c, call[c].job, call[c].answers, selfProofProvider)
    BY <1>8 DEF ProviderAnswered
  <2> QED
    BY <1>2, <1>3, <2>1, ScreenLimits
<1>9. ASSUME NEW c \in Calls, CredentialsAnswered(c) \/ CredentialsFailed(c)
      PROVE  Limited
  <2>1. /\ call[c].pc # "idle"
        /\ CheckRate(c, call[c].job, call[c].answers) \/ NoRateCheck
    BY <1>9 DEF CredentialsAnswered, CredentialsFailed
  <2> QED
    BY <1>2, <1>3, <2>1, RateLimits DEF Limited
<1>10. CASE ClearCache
  BY <1>10 DEF ClearCache, Limited, NoRateCheck
<1> QED
  BY <1>1, <1>4, <1>5, <1>6, <1>7, <1>8, <1>9, <1>10 DEF VerifierStep

\* Every step keeps to the limits.
LEMMA NextRateInv == VerifierInv /\ RateInv /\ [Next]_vars => RateInv'
<1> SUFFICES ASSUME VerifierInv, RateInv, [Next]_vars
             PROVE  RateInv'
  OBVIOUS
<1>1. service \in Services /\ now \in Nat
  BY DEF VerifierInv, VerifierTypeOK, ChainOK
<1>2. CASE VerifierStep /\ UNCHANGED service
  <2>1. UNCHANGED <<service, now>> /\ now' \in Nat /\ now' >= now
    BY <1>1, <1>2 DEF VerifierStep, chainVars
  <2>2. Limited
    BY <1>2, VerifierLimits
  <2>3. CASE NoRateCheck
    BY <1>1, <2>1, <2>3, LimitedLater DEF NoRateCheck
  <2>4. ASSUME NEW key \in AgentKeySet, RateStep(key)
        PROVE  RateInv'
    BY <1>1, <2>1, <2>4, RateStepLimited
  <2> QED
    BY <2>2, <2>3, <2>4 DEF Limited
<1>3. CASE ChainStep /\ UNCHANGED service
  <2>1. UNCHANGED <<service, buckets, admitted>>
    BY <1>3 DEF ChainStep, verifierVars
  <2>2. Later
    BY <1>3, ChainKeepsChain DEF VerifierInv
  <2> QED
    BY <1>1, <2>1, <2>2, LimitedLater DEF Later
<1>4. CASE UNCHANGED vars
  <2>1. UNCHANGED <<service, buckets, admitted>> /\ now' \in Nat /\ now' >= now
    BY <1>1, <1>4 DEF vars, chainVars, verifierVars
  <2> QED
    BY <1>1, <2>1, LimitedLater
<1> QED
  BY <1>2, <1>3, <1>4 DEF Next

\* A limiter that has let nothing through has kept to its limits.
LEMMA InitRateInv == Init => RateInv
<1> SUFFICES ASSUME Init
             PROVE  RateInv
  OBVIOUS
<1>1. PerMinute \in Nat /\ PerHour \in Nat /\ Cardinality({}) = 0 /\ IsFiniteSet({})
  BY Windows, FS_EmptySet DEF Init
<1>2. ASSUME NEW t \in Nat
      PROVE  /\ {e \in {} : t - Minute < e.at /\ e.at <= t} = {}
             /\ {e \in {} : t - Hour < e.at /\ e.at <= t} = {}
  OBVIOUS
<1>3. LimitedOK({}, {})
  BY <1>1, <1>2 DEF LimitedOK
<1> QED
  BY <1>3 DEF Init, RateInv

\* In no window of a minute or an hour, wherever it starts and however the calls that
\* end in it interleave, does one agent get more requests through than the limit.
THEOREM RateCorrect == Spec => []RateHolds
<1>1. VerifierInv /\ RateInv => RateHolds
  <2>1. 1 .. MaxTime \subseteq Nat
    BY Bounds
  <2> QED
    BY <2>1 DEF RateInv, LimitedOK, RateHolds, AdmittedIn
<1>2. Init => VerifierInv /\ RateInv
  BY InitVerifierInv, InitRateInv
<1>3. (VerifierInv /\ RateInv) /\ [Next]_vars => (VerifierInv /\ RateInv)'
  BY NextVerifierInv, NextRateInv
<1> QED
  BY <1>1, <1>2, <1>3, PTL DEF Spec
=============================================================================
