--------------------------- MODULE AgentAnswersProofs ---------------------------
(***************************************************************************)
(* What is said of an agent was so, for every number of humans, keys,      *)
(* agents, processes, requests and instants: by the lookups of the SDK,    *)
(* the MCP tools and the API, and by the A2A endpoint.  Both put an answer *)
(* together from reads that a registry in motion serves one at a time, so  *)
(* both rest on what was seen while the answer was on its way.             *)
(*                                                                         *)
(* The lookups are an instance beside the endpoint: the names of their     *)
(* module, and of the registry there, begin with Lookups.                  *)
(***************************************************************************)
EXTENDS A2AEndpoint, LookupAnswers, FiniteSetTheorems, SequenceTheorems, TLAPS

CONSTANTS Providers, NoProvider, Kinds

VARIABLES providerOf, selfProofProvider

Lookups == INSTANCE AgentLookups

-----------------------------------------------------------------------------
(* The ledger of the registry stays in order.                              *)

\* The empty ledger is in order.
LEMMA InitLedgerOK ==
  ASSUME MaxIssued \in Nat, Lookups!Registry!Init
  PROVE  Lookups!Registry!LedgerOK
BY DEF Lookups!Registry!Init, Lookups!Registry!LedgerOK

\* An agent is admitted under the next number and a key that no live agent has.
LEMMA AdmitLedgerOK ==
  ASSUME MaxIssued \in Nat, Lookups!Registry!LedgerOK, NEW h \in Humans, NEW k \in AgentKeySet,
         Lookups!Registry!Admit(h, k)
  PROVE  Lookups!Registry!LedgerOK'
BY DEF Lookups!Registry!Admit, Lookups!Registry!LedgerOK, Lookups!Registry!Entries

\* A removal leaves the rest as it is.
LEMMA RemoveLedgerOK ==
  ASSUME Lookups!Registry!LedgerOK, NEW a, Lookups!Registry!Remove(a)
  PROVE  Lookups!Registry!LedgerOK'
BY DEF Lookups!Registry!Remove, Lookups!Registry!LedgerOK

\* What leaves the agents and the count alone leaves them in order.
LEMMA StutterLedgerOK ==
  ASSUME Lookups!Registry!LedgerOK, UNCHANGED <<ledger, issued>>
  PROVE  Lookups!Registry!LedgerOK'
BY DEF Lookups!Registry!LedgerOK

-----------------------------------------------------------------------------
(* The invariant.                                                          *)

LookupKinds == {"verifyAgent", "getInfo", "handleVerifyAgent", "info", "verify", "agents"}

Slots == 0 .. MaxIssued

AnswerSet ==
    [agentId : Slots, verified : BOOLEAN, key : AgentKeySet \cup {NoKey},
     hasProof : BOOLEAN, fresh : BOOLEAN, expiresAt : Nat,
     nullifier : Humans \cup {Nobody}, count : Nat,
     provider : Providers \cup {NoProvider}, selfProvider : Providers \cup {NoProvider}]

Questions == DOMAIN Lookups!Unanswered

LookupSet ==
    [pc : {"idle", "reading", "answered", "failed"}, kind : LookupKinds \cup {"none"},
     subject : AgentKeySet \cup {NoKey}, number : Slots, strict : BOOLEAN, at : Nat \ {0},
     known : SUBSET Questions, answers : AnswerSet,
     said : {"none", "not registered", "no proof", "not found", "expired", "third party",
             "verified"}]

FactSet ==
    [live : SUBSET Lookups!Registry!Entries, fresh : SUBSET Lookups!AgentIds, without : SUBSET AgentKeySet,
     gone : SUBSET Lookups!AgentIds, held : SUBSET (Humans \X Nat)]

\* The slots of agents that are gone are empty; those of the living name a provider.
RegistryOK ==
    /\ Lookups!LookupConstants
    /\ Lookups!Registry!LedgerOK
    /\ IsFiniteSet(ledger)
    /\ now \in Nat \ {0}
    /\ expiresAt \in [Slots -> Nat]
    /\ providerOf \in [Slots -> Providers \cup {NoProvider}]
    /\ selfProofProvider \in Providers
    /\ \A id \in Slots : ~ Lookups!HasHumanProof(id) => expiresAt[id] = 0
    /\ \A id \in Slots : Lookups!HasHumanProof(id) => providerOf[id] # NoProvider

\* A lookup that runs has noted what is so now.
SeenOK ==
    lookup.pc = "reading" =>
        /\ Lookups!Facts.live \subseteq noted.live
        /\ Lookups!Facts.fresh \subseteq noted.fresh
        /\ Lookups!Facts.without \subseteq noted.without
        /\ Lookups!Facts.gone \subseteq noted.gone
        /\ Lookups!Facts.held \subseteq noted.held

\* A lookup has read what it asked for before and nothing of what comes later; it goes
\* on about an agent only when it found one.
OrderOK ==
    IF lookup.pc = "idle" THEN lookup = Lookups!NoLookup
    ELSE
    /\ lookup.kind \in LookupKinds
    /\ lookup.at \in 1 .. Len(Lookups!Reads[lookup.kind])
    /\ lookup.known \subseteq UNION {Lookups!Reads[lookup.kind][i] : i \in 1 .. lookup.at}
    /\ \A i \in 1 .. lookup.at - 1 : Lookups!Reads[lookup.kind][i] \ {"count"} \subseteq lookup.known
    /\ IF lookup.kind \in Lookups!ByKey THEN lookup.subject \in AgentKeySet ELSE lookup.number \in Lookups!AgentIds
    /\ lookup.kind \in {"verifyAgent", "getInfo", "agents"} /\ lookup.at > 1 =>
          lookup.answers.agentId # 0

Came(question) == question \in lookup.known

\* Each answer was so at some time since the lookup began.  The expiry is to be ahead
\* still when it is used, and a number without a proof stays without.
AnswersOK ==
    /\ \A q \in Questions \ lookup.known : Lookups!Answers[q] = Lookups!Unanswered[q]
    /\ Came("agentId") =>
          IF Lookups!Answers.agentId = 0 THEN lookup.subject \in noted.without
          ELSE /\ Lookups!Answers.agentId <= issued
               /\ \E a \in noted.live : a.number = Lookups!Answers.agentId /\ a.key = lookup.subject
    /\ Came("verified") /\ ~ Lookups!Answers.verified => lookup.subject \in noted.without
    /\ Came("key") /\ Lookups!Answers.key = NoKey => Lookups!Number(lookup) \in noted.gone
    /\ Came("hasProof") /\ ~ Lookups!Answers.hasProof => Lookups!Number(lookup) \in noted.gone
    /\ Came("provider") /\ Lookups!Answers.provider = NoProvider /\ lookup.kind = "verify" =>
          Lookups!Number(lookup) \in noted.gone
    /\ Came("expiresAt") /\ Lookups!Answers.expiresAt > now => Lookups!Number(lookup) \in noted.fresh
    /\ Came("fresh") /\ Lookups!Answers.fresh => Lookups!Answers.hasProof /\ Lookups!Number(lookup) \in noted.fresh
    /\ Came("nullifier") /\ Lookups!Answers.nullifier # Nobody =>
          \E a \in noted.live : a.number = Lookups!Number(lookup) /\ a.human = Lookups!Answers.nullifier
    /\ Came("count") /\ Lookups!Answers.nullifier # Nobody =>
          <<Lookups!Answers.nullifier, Lookups!Answers.count>> \in noted.held
    /\ lookup.kind = "getInfo" /\ Came("hasProof") /\ ~ Lookups!Answers.hasProof =>
          ~ Lookups!HasHumanProof(Lookups!Answers.agentId)

LookupInv ==
    /\ RegistryOK
    /\ lookup \in LookupSet
    /\ noted \in FactSet
    /\ SeenOK
    /\ OrderOK
    /\ AnswersOK
    /\ Lookups!LookupWasTrue

\* What is asked about a number is asked when the number is known, the count of a human
\* when the human is, and the freshness of a proof when it is known whether there is one.
AboutNumber == {"key", "hasProof", "fresh", "expiresAt", "nullifier", "provider"}

ReadsOrder ==
    \A k \in LookupKinds : \A i \in 1 .. Len(Lookups!Reads[k]) : \A q \in Lookups!Reads[k][i] :
        /\ q \in Questions
        /\ k \in Lookups!ByKey /\ q \in AboutNumber => \E j \in 1 .. i - 1 : "agentId" \in Lookups!Reads[k][j]
        /\ q = "count" => \E j \in 1 .. i - 1 : "nullifier" \in Lookups!Reads[k][j]
        /\ q = "fresh" => k = "getInfo" /\ \E j \in 1 .. i - 1 : "hasProof" \in Lookups!Reads[k][j]
        /\ q \in {"agentId", "verified"} => k \in Lookups!ByKey
        /\ q = "key" => k \notin Lookups!ByKey
        /\ q = "hasProof" => k # "handleVerifyAgent"

\* The reads of each lookup.
LEMMA ReadsShape ==
      /\ Lookups!Reads["verifyAgent"] = << {"agentId"}, {"hasProof"}, {"expiresAt"} >>
      /\ Lookups!Reads["getInfo"] =
           << {"agentId"}, {"hasProof", "nullifier"}, {"count", "expiresAt", "fresh"} >>
      /\ Lookups!Reads["handleVerifyAgent"] =
           << {"verified"}, {"agentId"}, {"nullifier"}, {"count"}, {"provider"},
              {"selfProvider"}, {"expiresAt"} >>
      /\ Lookups!Reads["info"] = << {"key", "hasProof", "provider"} >>
      /\ Lookups!Reads["verify"] =
           << {"hasProof", "provider", "nullifier", "selfProvider"}, {"count"} >>
      /\ Lookups!Reads["agents"] = << {"agentId"}, {"hasProof", "nullifier"}, {"count"} >>
BY DEF Lookups!Reads, Lookups!InfoReads

\* Every lookup reads something.
LEMMA ReadsLength == \A k \in LookupKinds : Len(Lookups!Reads[k]) \in Nat /\ Len(Lookups!Reads[k]) >= 1
<1>1. /\ Len(Lookups!Reads["verifyAgent"]) = 3 /\ Len(Lookups!Reads["getInfo"]) = 3
      /\ Len(Lookups!Reads["handleVerifyAgent"]) = 7 /\ Len(Lookups!Reads["info"]) = 1
      /\ Len(Lookups!Reads["verify"]) = 2 /\ Len(Lookups!Reads["agents"]) = 3
  BY ReadsShape
<1>2. \A k \in LookupKinds : Len(Lookups!Reads[k]) \in {1, 2, 3, 7}
  BY <1>1, Zenon DEF LookupKinds
<1>3. \A n \in {1, 2, 3, 7} : n \in Nat /\ n >= 1
  OBVIOUS
<1> QED
  BY <1>2, <1>3, Zenon

\* They go out in order.
LEMMA ReadsInOrder == ReadsOrder
<1> DEFINE Ordered(k, i) ==
      \A q \in Lookups!Reads[k][i] :
        /\ q \in Questions
        /\ k \in Lookups!ByKey /\ q \in AboutNumber => \E j \in 1 .. i - 1 : "agentId" \in Lookups!Reads[k][j]
        /\ q = "count" => \E j \in 1 .. i - 1 : "nullifier" \in Lookups!Reads[k][j]
        /\ q = "fresh" => k = "getInfo" /\ \E j \in 1 .. i - 1 : "hasProof" \in Lookups!Reads[k][j]
        /\ q \in {"agentId", "verified"} => k \in Lookups!ByKey
        /\ q = "key" => k \notin Lookups!ByKey
        /\ q = "hasProof" => k # "handleVerifyAgent"
<1>2. Questions = {"agentId", "verified", "key", "hasProof", "fresh", "expiresAt", "nullifier",
                   "count", "provider", "selfProvider"}
  BY DEF Questions, Lookups!Unanswered
<1>3. \A i \in 1 .. Len(Lookups!Reads["verifyAgent"]) : Ordered("verifyAgent", i)
  BY ReadsShape, <1>2 DEF Lookups!ByKey, AboutNumber
<1>4. \A i \in 1 .. Len(Lookups!Reads["getInfo"]) : Ordered("getInfo", i)
  BY ReadsShape, <1>2 DEF Lookups!ByKey, AboutNumber
<1>5. \A i \in 1 .. Len(Lookups!Reads["handleVerifyAgent"]) : Ordered("handleVerifyAgent", i)
  BY ReadsShape, <1>2 DEF Lookups!ByKey, AboutNumber
<1>6. \A i \in 1 .. Len(Lookups!Reads["info"]) : Ordered("info", i)
  BY ReadsShape, <1>2 DEF Lookups!ByKey, AboutNumber
<1>7. \A i \in 1 .. Len(Lookups!Reads["verify"]) : Ordered("verify", i)
  BY ReadsShape, <1>2 DEF Lookups!ByKey, AboutNumber
<1>8. \A i \in 1 .. Len(Lookups!Reads["agents"]) : Ordered("agents", i)
  BY ReadsShape, <1>2 DEF Lookups!ByKey, AboutNumber
<1> HIDE DEF Ordered
<1>9. \A k \in LookupKinds : \A i \in 1 .. Len(Lookups!Reads[k]) : Ordered(k, i)
  BY <1>3, <1>4, <1>5, <1>6, <1>7, <1>8, Zenon DEF LookupKinds
<1> QED
  BY <1>9, Zenon DEF ReadsOrder, Ordered

-----------------------------------------------------------------------------
(* Views.                                                                  *)

\* The views agree with the ledger.
LEMMA Views ==
  ASSUME RegistryOK, NEW key, NEW id
  PROVE  /\ Lookups!IdOf(key) \in Slots
         /\ Lookups!IdOf(key) # 0 => /\ Lookups!IdOf(key) <= issued
                             /\ \E a \in ledger : a.key = key /\ a.number = Lookups!IdOf(key)
         /\ Lookups!IdOf(key) = 0 => \A a \in ledger : a.key # key
         /\ Lookups!HasHumanProof(id) => id \in Lookups!AgentIds
         /\ Lookups!KeyOf(id) \in AgentKeySet \cup {NoKey}
         /\ Lookups!KeyOf(id) = NoKey => ~ Lookups!HasHumanProof(id)
         /\ Lookups!HumanOf(id) \in Humans \cup {Nobody}
         /\ Lookups!HumanOf(id) # Nobody => \E a \in ledger : a.number = id /\ a.human = Lookups!HumanOf(id)
<1>1. \A a \in ledger : /\ a.number \in 1 .. MaxIssued /\ a.number <= issued
                        /\ a.human \in Humans /\ a.key \in AgentKeySet
  BY DEF RegistryOK, Lookups!Registry!LedgerOK, Lookups!Registry!Entries
<1>2. MaxIssued \in Nat /\ Nobody \notin Humans /\ NoKey \notin AgentKeySet
  BY DEF RegistryOK, Lookups!LookupConstants
<1>3. Lookups!HasHumanProof(id) => id \in Lookups!AgentIds
  BY <1>1 DEF Lookups!HasHumanProof, Lookups!AgentIds
<1>4. /\ Lookups!IdOf(key) \in Slots
      /\ Lookups!IdOf(key) # 0 => /\ Lookups!IdOf(key) <= issued
                          /\ \E a \in ledger : a.key = key /\ a.number = Lookups!IdOf(key)
      /\ Lookups!IdOf(key) = 0 => \A a \in ledger : a.key # key
  <2>1. CASE \E a \in ledger : a.key = key
    <3> DEFINE b == CHOOSE a \in ledger : a.key = key
    <3>1. b \in ledger /\ b.key = key
      BY <2>1
    <3>2. Lookups!IdOf(key) = b.number
      BY <2>1 DEF Lookups!IdOf
    <3> HIDE DEF b
    <3> QED
      BY <3>1, <3>2, <1>1, <1>2 DEF Slots
  <2>2. CASE ~ \E a \in ledger : a.key = key
    BY <2>2, <1>2 DEF Lookups!IdOf, Slots
  <2> QED
    BY <2>1, <2>2
<1>5. /\ Lookups!KeyOf(id) \in AgentKeySet \cup {NoKey}
      /\ Lookups!KeyOf(id) = NoKey => ~ Lookups!HasHumanProof(id)
      /\ Lookups!HumanOf(id) \in Humans \cup {Nobody}
      /\ Lookups!HumanOf(id) # Nobody => \E a \in ledger : a.number = id /\ a.human = Lookups!HumanOf(id)
  <2>1. CASE Lookups!HasHumanProof(id)
    <3> DEFINE b == CHOOSE a \in ledger : a.number = id
    <3>1. b \in ledger /\ b.number = id
      BY <2>1 DEF Lookups!HasHumanProof
    <3>2. Lookups!KeyOf(id) = b.key /\ Lookups!HumanOf(id) = b.human
      BY <2>1 DEF Lookups!KeyOf, Lookups!HumanOf
    <3> HIDE DEF b
    <3> QED
      BY <3>1, <3>2, <1>1, <1>2
  <2>2. CASE ~ Lookups!HasHumanProof(id)
    BY <2>2 DEF Lookups!KeyOf, Lookups!HumanOf
  <2> QED
    BY <2>1, <2>2
<1> QED
  BY <1>3, <1>4, <1>5

\* The lookups count as everyone does.
LEMMA Counts ==
  ASSUME NEW S
  PROVE  Lookups!Cardinality(S) = Cardinality(S)
BY DEF Lookups!Cardinality, Cardinality

\* Agents are counted.
LEMMA CountOK ==
  ASSUME RegistryOK, NEW human
  PROVE  Lookups!Cardinality(Lookups!Registry!HeldBy(human)) \in Nat
<1>1. Lookups!Registry!HeldBy(human) \subseteq ledger
  BY DEF Lookups!Registry!HeldBy
<1>2. IsFiniteSet(Lookups!Registry!HeldBy(human))
  BY <1>1, FS_Subset DEF RegistryOK
<1> QED
  BY <1>2, FS_CardinalityType, Counts

\* What is so now, fact by fact.
LEMMA FactsShape ==
  ASSUME RegistryOK
  PROVE  /\ Lookups!Facts \in FactSet
         /\ Lookups!Facts.live = ledger
         /\ Lookups!Facts.fresh = {id \in Lookups!AgentIds : Lookups!IsProofFresh(id)}
         /\ Lookups!Facts.without = {k \in AgentKeySet : Lookups!IdOf(k) = 0}
         /\ Lookups!Facts.gone = {id \in Lookups!AgentIds : ~ Lookups!HasHumanProof(id)}
         /\ Lookups!Facts.held = {<<h, Lookups!Cardinality(Lookups!Registry!HeldBy(h))>> : h \in Humans}
<1> DEFINE fresh == {id \in Lookups!AgentIds : Lookups!IsProofFresh(id)}
           without == {k \in AgentKeySet : Lookups!IdOf(k) = 0}
           gone == {id \in Lookups!AgentIds : ~ Lookups!HasHumanProof(id)}
           held == {<<h, Lookups!Cardinality(Lookups!Registry!HeldBy(h))>> : h \in Humans}
<1>1. Lookups!Facts = [live |-> ledger, fresh |-> fresh, without |-> without, gone |-> gone, held |-> held]
  BY DEF Lookups!Facts
<1>2. held \subseteq Humans \X Nat
  BY CountOK
<1>3. fresh \subseteq Lookups!AgentIds /\ without \subseteq AgentKeySet /\ gone \subseteq Lookups!AgentIds
  OBVIOUS
<1>4. ledger \subseteq Lookups!Registry!Entries
  BY DEF RegistryOK, Lookups!Registry!LedgerOK
<1> HIDE DEF fresh, without, gone, held
<1>5. Lookups!Facts \in FactSet
  BY <1>1, <1>2, <1>3, <1>4 DEF FactSet
<1>6. /\ Lookups!Facts.live = ledger /\ Lookups!Facts.fresh = fresh /\ Lookups!Facts.without = without
      /\ Lookups!Facts.gone = gone /\ Lookups!Facts.held = held
  BY <1>1
<1> QED
  BY <1>5, <1>6 DEF fresh, without, gone, held

-----------------------------------------------------------------------------
(* Steps of the registry.                                                  *)

\* A new agent has a new number; nothing else turns a number without an agent into one
\* with an agent, and time goes forwards.
LEMMA ChainShape ==
  ASSUME RegistryOK, Lookups!ChainStep
  PROVE  /\ now' \in Nat /\ now <= now'
         /\ issued' \in Nat /\ issued <= issued'
         /\ \A a \in ledger' : a \in ledger \/ a.number = issued + 1
<1>1. now \in Nat /\ issued \in Nat
  BY DEF RegistryOK, Lookups!Registry!LedgerOK
<1> USE <1>1
<1>2. CASE \E h \in Humans, k \in AgentKeySet, p \in Providers, age \in ProofAges :
              Lookups!Register(h, k, p, age)
  BY <1>2 DEF Lookups!Register, Lookups!Registry!Admit
<1>3. CASE \E a \in ledger : Lookups!Revoke(a)
  BY <1>3 DEF Lookups!Revoke, Lookups!Registry!Remove
<1>4. CASE \E a \in ledger, age \in ProofAges : Lookups!Refresh(a, age)
  BY <1>4 DEF Lookups!Refresh
<1>5. CASE \E l \in LimitValues : Lookups!SetLimit(l)
  BY <1>5 DEF Lookups!SetLimit, Lookups!Registry!SetLimit
<1>6. CASE \E p \in Providers : Lookups!SetSelfProofProvider(p)
  BY <1>6 DEF Lookups!SetSelfProofProvider
<1>7. CASE Lookups!Tick
  BY <1>7 DEF Lookups!Tick
<1> QED
  BY <1>2, <1>3, <1>4, <1>5, <1>6, <1>7 DEF Lookups!ChainStep

\* Slots are filled with an agent and emptied with it.
LEMMA ChainKeepsRegistry ==
  ASSUME RegistryOK, Lookups!ChainStep
  PROVE  RegistryOK'
<1>1. /\ Lookups!Registry!LedgerOK /\ IsFiniteSet(ledger) /\ now \in Nat \ {0}
      /\ expiresAt \in [Slots -> Nat]
      /\ providerOf \in [Slots -> Providers \cup {NoProvider}]
      /\ selfProofProvider \in Providers
      /\ \A id \in Slots : ~ Lookups!HasHumanProof(id) => expiresAt[id] = 0
      /\ \A id \in Slots : Lookups!HasHumanProof(id) => providerOf[id] # NoProvider
      /\ MaxIssued \in Nat /\ ProofAges \subseteq Nat /\ NoProvider \notin Providers
      /\ issued \in 0 .. MaxIssued
      /\ \A a \in ledger : a.number \in 1 .. issued
      /\ \A a, b \in ledger : a.number = b.number => a = b
  BY DEF RegistryOK, Lookups!LookupConstants, Lookups!Registry!LedgerOK, Lookups!Registry!Entries
<1>2. ASSUME NEW h \in Humans, NEW k \in AgentKeySet, NEW p \in Providers, NEW age \in ProofAges,
             Lookups!Register(h, k, p, age)
      PROVE  RegistryOK'
  <2> DEFINE new == [number |-> issued + 1, human |-> h, key |-> k]
  <2>1. Lookups!Registry!Admit(h, k)
    BY <1>2 DEF Lookups!Register
  <2>2. Lookups!Registry!LedgerOK'
    BY <1>1, <2>1, AdmitLedgerOK
  <2>3. ledger' = ledger \cup {new} /\ issued' = issued + 1 /\ issued' \in Slots
    BY <1>1, <2>1 DEF Lookups!Registry!Admit, Slots
  <2>4. IsFiniteSet(ledger')
    BY <1>1, <2>3, FS_AddElement
  <2>5. /\ expiresAt' = [expiresAt EXCEPT ![issued'] = now + age]
        /\ providerOf' = [providerOf EXCEPT ![issued'] = p]
        /\ UNCHANGED <<selfProofProvider, now>>
    BY <1>2 DEF Lookups!Register
  <2>6. now + age \in Nat
    BY <1>1
  <2>7. expiresAt' \in [Slots -> Nat] /\ providerOf' \in [Slots -> Providers \cup {NoProvider}]
    BY <1>1, <2>3, <2>5, <2>6
  <2>8. \A id : Lookups!HasHumanProof(id)' <=> Lookups!HasHumanProof(id) \/ id = issued'
    <3>1. new.number = issued'
      BY <2>3
    <3>2. ledger' = ledger \cup {new}
      BY <2>3
    <3> HIDE DEF new
    <3> QED
      BY <3>1, <3>2 DEF Lookups!HasHumanProof
  <2>9. \A id \in Slots : ~ Lookups!HasHumanProof(id)' => expiresAt'[id] = 0
    BY <1>1, <2>3, <2>5, <2>8
  <2>10. \A id \in Slots : Lookups!HasHumanProof(id)' => providerOf'[id] # NoProvider
    BY <1>1, <2>3, <2>5, <2>8
  <2> QED
    BY <1>1, <2>2, <2>4, <2>5, <2>7, <2>9, <2>10 DEF RegistryOK
<1>3. ASSUME NEW a \in ledger, Lookups!Revoke(a)
      PROVE  RegistryOK'
  <2>1. Lookups!Registry!Remove(a) /\ ledger' = ledger \ {a}
    BY <1>3 DEF Lookups!Revoke, Lookups!Registry!Remove
  <2>2. Lookups!Registry!LedgerOK'
    BY <1>1, <2>1, RemoveLedgerOK
  <2>3. IsFiniteSet(ledger')
    BY <1>1, <2>1, FS_RemoveElement
  <2>4. /\ expiresAt' = [expiresAt EXCEPT ![a.number] = 0]
        /\ providerOf' = [providerOf EXCEPT ![a.number] = NoProvider]
        /\ UNCHANGED <<selfProofProvider, now>>
    BY <1>3 DEF Lookups!Revoke
  <2>5. a.number \in Slots
    BY <1>1 DEF Slots
  <2>6. expiresAt' \in [Slots -> Nat] /\ providerOf' \in [Slots -> Providers \cup {NoProvider}]
    BY <1>1, <2>4, <2>5
  <2>7. \A id : Lookups!HasHumanProof(id)' <=> Lookups!HasHumanProof(id) /\ id # a.number
    BY <1>1, <2>1 DEF Lookups!HasHumanProof
  <2>8. \A id \in Slots : ~ Lookups!HasHumanProof(id)' => expiresAt'[id] = 0
    BY <1>1, <2>4, <2>5, <2>7
  <2>9. \A id \in Slots : Lookups!HasHumanProof(id)' => providerOf'[id] # NoProvider
    BY <1>1, <2>4, <2>5, <2>7
  <2> QED
    BY <1>1, <2>2, <2>3, <2>4, <2>6, <2>8, <2>9 DEF RegistryOK
<1>4. ASSUME NEW a \in ledger, NEW age \in ProofAges, Lookups!Refresh(a, age)
      PROVE  RegistryOK'
  <2>1. /\ UNCHANGED <<ledger, issued, providerOf, selfProofProvider, now>>
        /\ expiresAt' = [expiresAt EXCEPT ![a.number] = now + age]
    BY <1>4 DEF Lookups!Refresh
  <2>2. now + age \in Nat /\ a.number \in Slots /\ Lookups!HasHumanProof(a.number)
    BY <1>1 DEF Slots, Lookups!HasHumanProof
  <2>3. \A id : Lookups!HasHumanProof(id)' <=> Lookups!HasHumanProof(id)
    BY <2>1 DEF Lookups!HasHumanProof
  <2>4. expiresAt' \in [Slots -> Nat]
    BY <1>1, <2>1, <2>2
  <2>5. \A id \in Slots : ~ Lookups!HasHumanProof(id)' => expiresAt'[id] = 0
    BY <1>1, <2>1, <2>2, <2>3
  <2>6. Lookups!Registry!LedgerOK'
    BY <1>1, <2>1, StutterLedgerOK
  <2> QED
    BY <1>1, <2>1, <2>3, <2>4, <2>5, <2>6 DEF RegistryOK
<1>5. ASSUME UNCHANGED <<ledger, issued, expiresAt, providerOf>>,
             now' \in Nat \ {0}, selfProofProvider' \in Providers
      PROVE  RegistryOK'
  <2>1. \A id : Lookups!HasHumanProof(id)' <=> Lookups!HasHumanProof(id)
    BY <1>5 DEF Lookups!HasHumanProof
  <2>2. Lookups!Registry!LedgerOK'
    BY <1>1, <1>5, StutterLedgerOK
  <2> QED
    BY <1>1, <1>5, <2>1, <2>2 DEF RegistryOK
<1>6. CASE \E l \in LimitValues : Lookups!SetLimit(l)
  BY <1>1, <1>5, <1>6 DEF Lookups!SetLimit, Lookups!Registry!SetLimit
<1>7. CASE \E p \in Providers : Lookups!SetSelfProofProvider(p)
  BY <1>1, <1>5, <1>7 DEF Lookups!SetSelfProofProvider
<1>8. CASE Lookups!Tick
  BY <1>1, <1>5, <1>8 DEF Lookups!Tick
<1> QED
  BY <1>2, <1>3, <1>4, <1>6, <1>7, <1>8 DEF Lookups!ChainStep

\* What has been noted stays noted, and what is so next is noted too.
LEMMA WatchShape ==
  ASSUME noted \in FactSet, NEW facts \in FactSet, noted' = Lookups!Watch(facts)
  PROVE  /\ noted' \in FactSet
         /\ noted.live \subseteq noted'.live /\ facts.live \subseteq noted'.live
         /\ noted.fresh \subseteq noted'.fresh /\ facts.fresh \subseteq noted'.fresh
         /\ noted.without \subseteq noted'.without /\ facts.without \subseteq noted'.without
         /\ noted.gone \subseteq noted'.gone /\ facts.gone \subseteq noted'.gone
         /\ noted.held \subseteq noted'.held /\ facts.held \subseteq noted'.held
<1>1. noted' = [live |-> noted.live \cup facts.live, fresh |-> noted.fresh \cup facts.fresh,
               without |-> noted.without \cup facts.without, gone |-> noted.gone \cup facts.gone,
               held |-> noted.held \cup facts.held]
  BY DEF Lookups!Watch, FactSet
<1>2. /\ noted'.live = noted.live \cup facts.live /\ noted'.fresh = noted.fresh \cup facts.fresh
      /\ noted'.without = noted.without \cup facts.without
      /\ noted'.gone = noted.gone \cup facts.gone /\ noted'.held = noted.held \cup facts.held
  BY <1>1
<1>3. noted' \in FactSet
  <2>1. /\ noted.live \cup facts.live \in SUBSET Lookups!Registry!Entries
        /\ noted.fresh \cup facts.fresh \in SUBSET Lookups!AgentIds
        /\ noted.without \cup facts.without \in SUBSET AgentKeySet
        /\ noted.gone \cup facts.gone \in SUBSET Lookups!AgentIds
        /\ noted.held \cup facts.held \in SUBSET (Humans \X Nat)
    BY DEF FactSet
  <2> QED
    BY <1>1, <2>1 DEF FactSet
<1> QED
  BY <1>2, <1>3

-----------------------------------------------------------------------------
(* The order of the reads.                                                 *)

\* What is asked at an await that was reached rests on what is known by then.
LEMMA AwaitOrder ==
  ASSUME OrderOK, lookup.pc # "idle", lookup.at \in Nat,
         NEW i \in 1 .. lookup.at, NEW q \in Lookups!Reads[lookup.kind][i]
  PROVE  /\ q \in Questions
         /\ lookup.kind \in Lookups!ByKey /\ q \in AboutNumber => Came("agentId") /\ lookup.at > 1
         /\ q = "count" => Came("nullifier")
         /\ q = "fresh" => lookup.kind = "getInfo" /\ Came("hasProof")
         /\ q \in {"agentId", "verified"} => lookup.kind \in Lookups!ByKey
         /\ q = "key" => lookup.kind \notin Lookups!ByKey
         /\ q = "hasProof" => lookup.kind # "handleVerifyAgent"
<1> DEFINE k == lookup.kind
<1>1. k \in LookupKinds /\ i \in 1 .. Len(Lookups!Reads[k]) /\ i - 1 <= lookup.at - 1
  BY DEF OrderOK
<1>2. /\ q \in Questions
      /\ k \in Lookups!ByKey /\ q \in AboutNumber => \E j \in 1 .. i - 1 : "agentId" \in Lookups!Reads[k][j]
      /\ q = "count" => \E j \in 1 .. i - 1 : "nullifier" \in Lookups!Reads[k][j]
      /\ q = "fresh" => k = "getInfo" /\ \E j \in 1 .. i - 1 : "hasProof" \in Lookups!Reads[k][j]
      /\ q \in {"agentId", "verified"} => k \in Lookups!ByKey
      /\ q = "key" => k \notin Lookups!ByKey
      /\ q = "hasProof" => k # "handleVerifyAgent"
  BY <1>1, ReadsInOrder DEF ReadsOrder
<1>3. \A j \in 1 .. i - 1 : Lookups!Reads[k][j] \ {"count"} \subseteq lookup.known
  BY <1>1 DEF OrderOK
<1>4. \A j \in 1 .. i - 1 : lookup.at > 1
  OBVIOUS
<1> QED
  BY <1>2, <1>3, <1>4 DEF Came

\* What is known rests on the rest.
LEMMA KnownOrder ==
  ASSUME OrderOK, lookup \in LookupSet, NEW q \in lookup.known
  PROVE  /\ lookup.pc # "idle"
         /\ lookup.kind \in Lookups!ByKey /\ q \in AboutNumber => Came("agentId") /\ lookup.at > 1
         /\ q = "count" => Came("nullifier")
         /\ q = "fresh" => lookup.kind = "getInfo" /\ Came("hasProof")
         /\ q \in {"agentId", "verified"} => lookup.kind \in Lookups!ByKey
         /\ q = "key" => lookup.kind \notin Lookups!ByKey
         /\ q = "hasProof" => lookup.kind # "handleVerifyAgent"
<1>1. lookup.pc # "idle"
  BY DEF OrderOK, Lookups!NoLookup
<1>2. PICK i \in 1 .. lookup.at : q \in Lookups!Reads[lookup.kind][i]
  BY <1>1 DEF OrderOK
<1>3. lookup.at \in Nat
  BY DEF LookupSet
<1> QED
  BY <1>1, <1>2, <1>3, AwaitOrder

\* What is asked now rests on what is known.
LEMMA AskedOrder ==
  ASSUME OrderOK, lookup \in LookupSet, lookup.pc = "reading", NEW q \in Lookups!Asked
  PROVE  /\ q \in Questions /\ q \in Lookups!Reads[lookup.kind][lookup.at]
         /\ lookup.kind \in Lookups!ByKey /\ q \in AboutNumber => Came("agentId") /\ lookup.at > 1
         /\ q = "count" => Came("nullifier")
         /\ q = "fresh" => lookup.kind = "getInfo" /\ Came("hasProof")
         /\ q \in {"agentId", "verified"} => lookup.kind \in Lookups!ByKey
         /\ q = "key" => lookup.kind \notin Lookups!ByKey
         /\ q = "hasProof" => lookup.kind # "handleVerifyAgent"
<1>1. q \in Lookups!Reads[lookup.kind][lookup.at]
  BY DEF Lookups!Asked
<1>2. lookup.at \in Nat \ {0}
  BY DEF LookupSet
<1>3. lookup.at \in Nat /\ lookup.at \in 1 .. lookup.at
  BY <1>2
<1> QED
  BY <1>1, <1>3, AwaitOrder

\* The number that the reads are about is a slot; once something is read about it that
\* can be denied, it is the number of an agent.
LEMMA NumberShape ==
  ASSUME LookupInv
  PROVE  /\ Lookups!Number(lookup) \in Slots
         /\ lookup.kind \in Lookups!ByKey => Lookups!Number(lookup) = Lookups!Answers.agentId
         /\ lookup.kind \notin Lookups!ByKey /\ lookup.pc # "idle" => Lookups!Number(lookup) \in Lookups!AgentIds
<1>1. lookup \in LookupSet /\ OrderOK
  BY DEF LookupInv
<1>2. lookup.number \in Slots /\ Lookups!Answers.agentId \in Slots
  BY <1>1 DEF LookupSet, AnswerSet, Lookups!Answers
<1>3. lookup.kind \notin Lookups!ByKey /\ lookup.pc # "idle" => lookup.number \in Lookups!AgentIds
  BY <1>1 DEF OrderOK
<1> QED
  BY <1>2, <1>3 DEF Lookups!Number, Lookups!Answers

-----------------------------------------------------------------------------
(* Answers.                                                                *)

\* What a node answers has the type of an answer.
LEMMA ViewShape ==
  ASSUME RegistryOK, NEW key, NEW id \in Slots, NEW human
  PROVE  Lookups!View(key, id, human) \in AnswerSet
<1>1. /\ Lookups!IdOf(key) \in Slots
      /\ Lookups!KeyOf(id) \in AgentKeySet \cup {NoKey}
      /\ Lookups!HumanOf(id) \in Humans \cup {Nobody}
  BY Views
<1>2. Lookups!Cardinality(Lookups!Registry!HeldBy(human)) \in Nat
  BY CountOK
<1>3. expiresAt[id] \in Nat /\ providerOf[id] \in Providers \cup {NoProvider}
      /\ selfProofProvider \in Providers \cup {NoProvider}
  BY DEF RegistryOK
<1>4. (Lookups!IdOf(key) # 0) \in BOOLEAN
  OBVIOUS
<1>5. Lookups!HasHumanProof(id) \in BOOLEAN
  BY Zenon DEF Lookups!HasHumanProof
<1>6. Lookups!IsProofFresh(id) \in BOOLEAN
  BY Zenon DEF Lookups!IsProofFresh
<1> QED
  BY <1>1, <1>2, <1>3, <1>4, <1>5, <1>6, Zenon DEF Lookups!View, AnswerSet

\* A record of answers with one answer of another.
LEMMA AnswerReplaced ==
  ASSUME NEW old \in AnswerSet, NEW new \in AnswerSet, NEW q \in Questions,
         NEW answers, answers = [old EXCEPT ![q] = new[q]]
  PROVE  /\ answers \in AnswerSet
         /\ answers[q] = new[q]
         /\ \A r \in Questions \ {q} : answers[r] = old[r]
<1>1. Questions = {"agentId", "verified", "key", "hasProof", "fresh", "expiresAt", "nullifier",
                   "count", "provider", "selfProvider"}
  BY DEF Questions, Lookups!Unanswered
<1>2. answers[q] = new[q] /\ \A r \in Questions \ {q} : answers[r] = old[r]
  BY <1>1 DEF AnswerSet
<1>3. answers \in AnswerSet
  BY <1>1 DEF AnswerSet
<1> QED
  BY <1>2, <1>3

\* One answer is added and the rest stays.
LEMMA AnsweredShape ==
  ASSUME LookupInv, NEW q, Lookups!Answered(q)
  PROVE  /\ lookup.pc = "reading" /\ q \in Lookups!Asked /\ q \in Questions /\ ~ Came(q)
         /\ lookup' \in LookupSet
         /\ lookup'.pc = "reading" /\ lookup'.kind = lookup.kind
         /\ lookup'.subject = lookup.subject /\ lookup'.number = lookup.number
         /\ lookup'.strict = lookup.strict /\ lookup'.at = lookup.at /\ lookup'.said = lookup.said
         /\ lookup'.known = lookup.known \cup {q}
         /\ Lookups!Answers'[q] = Lookups!View(lookup.subject, Lookups!Number(lookup), Lookups!Answers.nullifier)[q]
         /\ \A r \in Questions \ {q} : Lookups!Answers'[r] = Lookups!Answers[r]
         /\ UNCHANGED <<Lookups!chainVars, noted>>
<1> DEFINE view == Lookups!View(lookup.subject, Lookups!Number(lookup), Lookups!Answers.nullifier)
           answers == [Lookups!Answers EXCEPT ![q] = view[q]]
<1>1. /\ lookup.pc = "reading" /\ q \in Lookups!Asked /\ ~ Came(q)
      /\ UNCHANGED <<Lookups!chainVars, noted>>
      /\ lookup' = [lookup EXCEPT !.known = @ \cup {q}, !.answers[q] = view[q]]
  BY DEF Lookups!Answered, Came, Lookups!Answers
<1>2. q \in Questions
  BY <1>1, AskedOrder DEF LookupInv
<1>3. view \in AnswerSet /\ Lookups!Answers \in AnswerSet /\ lookup \in LookupSet
  BY ViewShape, NumberShape DEF LookupInv, LookupSet, Lookups!Answers
<1> HIDE DEF view
<1>4. /\ answers \in AnswerSet
      /\ answers[q] = view[q]
      /\ \A r \in Questions \ {q} : answers[r] = Lookups!Answers[r]
  BY <1>2, <1>3, AnswerReplaced
<1>5. lookup' = [lookup EXCEPT !.known = lookup.known \cup {q}, !.answers = answers]
  BY <1>1, <1>3 DEF Lookups!Answers, LookupSet
<1> HIDE DEF answers
<1>6. /\ lookup' \in LookupSet
      /\ lookup'.pc = lookup.pc /\ lookup'.kind = lookup.kind
      /\ lookup'.subject = lookup.subject /\ lookup'.number = lookup.number
      /\ lookup'.strict = lookup.strict /\ lookup'.at = lookup.at /\ lookup'.said = lookup.said
      /\ lookup'.known = lookup.known \cup {q} /\ lookup'.answers = answers
  <2>1. lookup.known \cup {q} \in SUBSET Questions
    BY <1>2, <1>3 DEF LookupSet
  <2> QED
    BY <1>3, <1>4, <1>5, <2>1 DEF LookupSet
<1> QED
  BY <1>1, <1>2, <1>4, <1>6 DEF Lookups!Answers, view

\* The registry is as it is noted.
LEMMA SeenNow ==
  ASSUME LookupInv, lookup.pc = "reading"
  PROVE  /\ ledger \subseteq noted.live
         /\ \A id \in Lookups!AgentIds : Lookups!IsProofFresh(id) => id \in noted.fresh
         /\ \A k \in AgentKeySet : Lookups!IdOf(k) = 0 => k \in noted.without
         /\ \A id \in Lookups!AgentIds : ~ Lookups!HasHumanProof(id) => id \in noted.gone
         /\ \A h \in Humans : <<h, Lookups!Cardinality(Lookups!Registry!HeldBy(h))>> \in noted.held
<1>1. /\ Lookups!Facts.live \subseteq noted.live /\ Lookups!Facts.fresh \subseteq noted.fresh
      /\ Lookups!Facts.without \subseteq noted.without /\ Lookups!Facts.gone \subseteq noted.gone
      /\ Lookups!Facts.held \subseteq noted.held
  BY DEF LookupInv, SeenOK
<1> QED
  BY <1>1, FactsShape DEF LookupInv

\* The registry's views do not change while a node answers.
LEMMA ViewsUnmoved ==
  ASSUME UNCHANGED Lookups!chainVars
  PROVE  /\ UNCHANGED <<ledger, issued, limit, expiresAt, providerOf, selfProofProvider, now>>
         /\ \A id : Lookups!HasHumanProof(id)' <=> Lookups!HasHumanProof(id)
         /\ RegistryOK => RegistryOK'
         /\ Lookups!Facts' = Lookups!Facts
<1>1. UNCHANGED <<ledger, issued, limit, expiresAt, providerOf, selfProofProvider, now>>
  BY DEF Lookups!chainVars
<1>2. \A id : Lookups!HasHumanProof(id)' <=> Lookups!HasHumanProof(id)
  BY <1>1 DEF Lookups!HasHumanProof
<1>3. RegistryOK => RegistryOK'
  BY <1>1, <1>2, StutterLedgerOK DEF RegistryOK
<1>4. Lookups!Facts' = Lookups!Facts
  BY <1>1 DEF Lookups!Facts, Lookups!IsProofFresh, Lookups!HasHumanProof, Lookups!IdOf, Lookups!Registry!HeldBy
<1> QED
  BY <1>1, <1>2, <1>3, <1>4

\* A new answer is so now, and the earlier ones are about the same number.
LEMMA AnsweredKeepsAnswers ==
  ASSUME LookupInv, NEW q, Lookups!Answered(q)
  PROVE  AnswersOK'
<1> DEFINE id == Lookups!Number(lookup)
           view == Lookups!View(lookup.subject, id, Lookups!Answers.nullifier)
<1>1. /\ lookup.pc = "reading" /\ q \in Lookups!Asked /\ q \in Questions /\ ~ Came(q)
      /\ lookup'.kind = lookup.kind /\ lookup'.subject = lookup.subject
      /\ lookup'.number = lookup.number
      /\ lookup'.known = lookup.known \cup {q}
      /\ Lookups!Answers'[q] = view[q]
      /\ \A r \in Questions \ {q} : Lookups!Answers'[r] = Lookups!Answers[r]
      /\ UNCHANGED <<Lookups!chainVars, noted>>
      /\ lookup' \in LookupSet
  BY AnsweredShape
<1>2. /\ RegistryOK /\ OrderOK /\ AnswersOK /\ lookup \in LookupSet
      /\ now \in Nat /\ expiresAt \in [Slots -> Nat]
      /\ \A n \in Slots : ~ Lookups!HasHumanProof(n) => expiresAt[n] = 0
      /\ \A n \in Slots : Lookups!HasHumanProof(n) => providerOf[n] # NoProvider
  BY DEF LookupInv, RegistryOK
<1>3. /\ view.agentId = Lookups!IdOf(lookup.subject)
      /\ view.verified = (Lookups!IdOf(lookup.subject) # 0)
      /\ view.key = Lookups!KeyOf(id)
      /\ view.hasProof = Lookups!HasHumanProof(id)
      /\ view.fresh = Lookups!IsProofFresh(id)
      /\ view.expiresAt = expiresAt[id]
      /\ view.nullifier = Lookups!HumanOf(id)
      /\ view.count = Lookups!Cardinality(Lookups!Registry!HeldBy(Lookups!Answers.nullifier))
      /\ view.provider = providerOf[id]
  BY DEF Lookups!View
<1> HIDE DEF view
<1>4. /\ UNCHANGED <<ledger, issued, now, noted>>
      /\ \A n : Lookups!HasHumanProof(n)' <=> Lookups!HasHumanProof(n)
  BY <1>1, ViewsUnmoved
<1>5. \A r : Came(r)' <=> Came(r) \/ r = q
  BY <1>1 DEF Came
<1>6. /\ lookup.kind \in Lookups!ByKey /\ q \in AboutNumber => Came("agentId") /\ lookup.at > 1
      /\ q = "count" => Came("nullifier")
      /\ q = "fresh" => lookup.kind = "getInfo" /\ Came("hasProof")
      /\ q \in {"agentId", "verified"} => lookup.kind \in Lookups!ByKey
      /\ q = "key" => lookup.kind \notin Lookups!ByKey
      /\ q = "hasProof" => lookup.kind # "handleVerifyAgent"
  BY <1>1, <1>2, AskedOrder
<1>7. Questions = {"agentId", "verified", "key", "hasProof", "fresh", "expiresAt", "nullifier",
                   "count", "provider", "selfProvider"}
  BY DEF Questions, Lookups!Unanswered
<1>8. \A r \in AboutNumber : Came(r)' => Lookups!Number(lookup)' = id
  <2>1. CASE q # "agentId" \/ lookup.kind \notin Lookups!ByKey
    <3>1. lookup.kind \in Lookups!ByKey => Lookups!Answers'["agentId"] = Lookups!Answers["agentId"]
      BY <1>1, <1>7, <2>1
    <3> QED
      BY <1>1, <3>1 DEF Lookups!Number, Lookups!Answers
  <2>2. CASE q = "agentId" /\ lookup.kind \in Lookups!ByKey
    <3>1. \A r \in AboutNumber : ~ Came(r)
      BY <1>1, <1>2, <2>2, KnownOrder DEF Came
    <3> QED
      BY <1>5, <2>2, <3>1 DEF AboutNumber
  <2> QED
    BY <2>1, <2>2
<1>9. /\ id \in Slots
      /\ lookup.kind \in Lookups!ByKey => id = Lookups!Answers.agentId
      /\ lookup.kind \notin Lookups!ByKey => id \in Lookups!AgentIds
  BY <1>1, NumberShape
<1>10. lookup.kind \in {"verifyAgent", "getInfo", "agents"} /\ lookup.at > 1 => id \in Lookups!AgentIds
  <2>1. lookup.kind \in {"verifyAgent", "getInfo", "agents"} /\ lookup.at > 1 =>
           Lookups!Answers.agentId # 0
    BY <1>1, <1>2 DEF OrderOK, Lookups!Answers
  <2>2. lookup.kind \in {"verifyAgent", "getInfo", "agents"} => id = Lookups!Answers.agentId
    BY <1>9 DEF Lookups!ByKey
  <2> HIDE DEF id
  <2> QED
    BY <1>2, <1>9, <2>1, <2>2 DEF RegistryOK, Lookups!LookupConstants, Slots, Lookups!AgentIds
<1>11. lookup.kind \in Lookups!ByKey => lookup.subject \in AgentKeySet
  BY <1>1, <1>2 DEF OrderOK
<1>12. \A r \in Questions \ lookup'.known : Lookups!Answers'[r] = Lookups!Unanswered[r]
  BY <1>1, <1>2 DEF AnswersOK
<1>13. Came("agentId")' =>
          IF Lookups!Answers'.agentId = 0 THEN lookup'.subject \in noted'.without
          ELSE /\ Lookups!Answers'.agentId <= issued'
               /\ \E a \in noted'.live : a.number = Lookups!Answers'.agentId /\ a.key = lookup'.subject
  <2>1. CASE q = "agentId"
    <3>1. Lookups!Answers'.agentId = Lookups!IdOf(lookup.subject)
      BY <1>1, <1>3, <2>1
    <3> QED
      BY <1>1, <1>2, <1>4, <1>6, <1>11, <2>1, <3>1, Views, SeenNow
  <2>2. CASE q # "agentId"
    <3>1. Lookups!Answers'.agentId = Lookups!Answers.agentId
      BY <1>1, <1>7, <2>2
    <3> QED
      BY <1>1, <1>2, <1>4, <1>5, <2>2, <3>1 DEF AnswersOK
  <2> QED
    BY <2>1, <2>2
<1>14. Came("verified")' /\ ~ Lookups!Answers'.verified => lookup'.subject \in noted'.without
  <2>1. CASE q = "verified"
    <3>1. Lookups!Answers'.verified = (Lookups!IdOf(lookup.subject) # 0)
      BY <1>1, <1>3, <2>1
    <3> QED
      BY <1>1, <1>4, <1>6, <1>11, <2>1, <3>1, SeenNow
  <2>2. CASE q # "verified"
    <3>1. Lookups!Answers'.verified = Lookups!Answers.verified
      BY <1>1, <1>7, <2>2
    <3> QED
      BY <1>1, <1>2, <1>4, <1>5, <2>2, <3>1 DEF AnswersOK
  <2> QED
    BY <2>1, <2>2
<1>15. Came("key")' /\ Lookups!Answers'.key = NoKey => Lookups!Number(lookup)' \in noted'.gone
  <2>1. CASE q = "key"
    <3>1. Lookups!Answers'.key = Lookups!KeyOf(id)
      BY <1>1, <1>3, <2>1
    <3>2. Lookups!Number(lookup)' = id
      BY <1>5, <1>8, <2>1 DEF AboutNumber
    <3> QED
      BY <1>1, <1>2, <1>4, <1>6, <1>9, <2>1, <3>1, <3>2, Views, SeenNow
  <2>2. CASE q # "key"
    <3>1. Lookups!Answers'.key = Lookups!Answers.key
      BY <1>1, <1>7, <2>2
    <3>2. Came("key")' => Lookups!Number(lookup)' = id
      BY <1>8 DEF AboutNumber
    <3> QED
      BY <1>1, <1>2, <1>4, <1>5, <2>2, <3>1, <3>2 DEF AnswersOK
  <2> QED
    BY <2>1, <2>2
<1>16. Came("hasProof")' /\ ~ Lookups!Answers'.hasProof => Lookups!Number(lookup)' \in noted'.gone
  <2>1. CASE q = "hasProof"
    <3>1. Lookups!Answers'.hasProof = Lookups!HasHumanProof(id)
      BY <1>1, <1>3, <2>1
    <3>2. Lookups!Number(lookup)' = id
      BY <1>5, <1>8, <2>1 DEF AboutNumber
    <3>3. id \in Lookups!AgentIds
      BY <1>6, <1>9, <1>10, <2>1 DEF Lookups!ByKey, AboutNumber
    <3> QED
      BY <1>1, <1>4, <3>1, <3>2, <3>3, SeenNow
  <2>2. CASE q # "hasProof"
    <3>1. Lookups!Answers'.hasProof = Lookups!Answers.hasProof
      BY <1>1, <1>7, <2>2
    <3>2. Came("hasProof")' => Lookups!Number(lookup)' = id
      BY <1>8 DEF AboutNumber
    <3> QED
      BY <1>1, <1>2, <1>4, <1>5, <2>2, <3>1, <3>2 DEF AnswersOK
  <2> QED
    BY <2>1, <2>2
<1>17. Came("provider")' /\ Lookups!Answers'.provider = NoProvider /\ lookup'.kind = "verify" =>
          Lookups!Number(lookup)' \in noted'.gone
  <2>1. CASE q = "provider"
    <3>1. Lookups!Answers'.provider = providerOf[id]
      BY <1>1, <1>3, <2>1
    <3>2. Lookups!Number(lookup)' = id
      BY <1>5, <1>8, <2>1 DEF AboutNumber
    <3>3. lookup.kind = "verify" => id \in Lookups!AgentIds
      BY <1>9 DEF Lookups!ByKey
    <3> QED
      BY <1>1, <1>2, <1>4, <1>9, <3>1, <3>2, <3>3, SeenNow
  <2>2. CASE q # "provider"
    <3>1. Lookups!Answers'.provider = Lookups!Answers.provider
      BY <1>1, <1>7, <2>2
    <3>2. Came("provider")' => Lookups!Number(lookup)' = id
      BY <1>8 DEF AboutNumber
    <3> QED
      BY <1>1, <1>2, <1>4, <1>5, <2>2, <3>1, <3>2 DEF AnswersOK
  <2> QED
    BY <2>1, <2>2
<1>18. Came("expiresAt")' /\ Lookups!Answers'.expiresAt > now' => Lookups!Number(lookup)' \in noted'.fresh
  <2>1. CASE q = "expiresAt"
    <3>1. Lookups!Answers'.expiresAt = expiresAt[id]
      BY <1>1, <1>3, <2>1
    <3>2. Lookups!Number(lookup)' = id
      BY <1>5, <1>8, <2>1 DEF AboutNumber
    <3>3. expiresAt[id] > now => Lookups!HasHumanProof(id) /\ Lookups!IsProofFresh(id)
      BY <1>2, <1>9 DEF Lookups!IsProofFresh
    <3>4. Lookups!HasHumanProof(id) => id \in Lookups!AgentIds
      BY <1>2, Views
    <3> QED
      BY <1>1, <1>4, <3>1, <3>2, <3>3, <3>4, SeenNow
  <2>2. CASE q # "expiresAt"
    <3>1. Lookups!Answers'.expiresAt = Lookups!Answers.expiresAt
      BY <1>1, <1>7, <2>2
    <3>2. Came("expiresAt")' => Lookups!Number(lookup)' = id
      BY <1>8 DEF AboutNumber
    <3> QED
      BY <1>1, <1>2, <1>4, <1>5, <2>2, <3>1, <3>2 DEF AnswersOK
  <2> QED
    BY <2>1, <2>2
<1>19. Came("fresh")' /\ Lookups!Answers'.fresh => Lookups!Answers'.hasProof /\ Lookups!Number(lookup)' \in noted'.fresh
  <2>1. CASE q = "fresh"
    <3>1. Lookups!Answers'.fresh = Lookups!IsProofFresh(id)
      BY <1>1, <1>3, <2>1
    <3>2. Lookups!Number(lookup)' = id
      BY <1>5, <1>8, <2>1 DEF AboutNumber
    <3>3. Lookups!Answers'.hasProof = Lookups!Answers.hasProof
      BY <1>1, <1>7, <2>1
    <3>4. Lookups!IsProofFresh(id) => Lookups!HasHumanProof(id) /\ id \in Lookups!AgentIds
      BY <1>2, Views DEF Lookups!IsProofFresh
    <3>5. ~ Lookups!Answers.hasProof => ~ Lookups!HasHumanProof(id)
      BY <1>2, <1>6, <1>9, <2>1 DEF AnswersOK, Lookups!ByKey
    <3> QED
      BY <1>1, <1>4, <3>1, <3>2, <3>3, <3>4, <3>5, SeenNow
  <2>2. CASE q # "fresh"
    <3>1. Lookups!Answers'.fresh = Lookups!Answers.fresh
      BY <1>1, <1>7, <2>2
    <3>2. Came("fresh")' => Lookups!Number(lookup)' = id
      BY <1>8 DEF AboutNumber
    <3>3. Came("fresh") => Came("hasProof")
      BY <1>2, KnownOrder DEF Came
    <3>4. Came("hasProof") => Lookups!Answers'.hasProof = Lookups!Answers.hasProof
      BY <1>1, <1>7
    <3> QED
      BY <1>1, <1>2, <1>4, <1>5, <2>2, <3>1, <3>2, <3>3, <3>4 DEF AnswersOK
  <2> QED
    BY <2>1, <2>2
<1>20. Came("nullifier")' /\ Lookups!Answers'.nullifier # Nobody =>
          \E a \in noted'.live : a.number = Lookups!Number(lookup)' /\ a.human = Lookups!Answers'.nullifier
  <2>1. CASE q = "nullifier"
    <3>1. Lookups!Answers'.nullifier = Lookups!HumanOf(id)
      BY <1>1, <1>3, <2>1
    <3>2. Lookups!Number(lookup)' = id
      BY <1>5, <1>8, <2>1 DEF AboutNumber
    <3> QED
      <4>1. Lookups!HumanOf(id) # Nobody => \E a \in ledger : a.number = id /\ a.human = Lookups!HumanOf(id)
        BY <1>2, Views
      <4>2. ledger \subseteq noted'.live
        BY <1>1, <1>4, SeenNow
      <4> HIDE DEF id
      <4> QED
        BY <3>1, <3>2, <4>1, <4>2
  <2>2. CASE q # "nullifier"
    <3>1. Lookups!Answers'.nullifier = Lookups!Answers.nullifier
      BY <1>1, <1>7, <2>2
    <3>2. Came("nullifier")' => Lookups!Number(lookup)' = id
      BY <1>8 DEF AboutNumber
    <3> QED
      BY <1>1, <1>2, <1>4, <1>5, <2>2, <3>1, <3>2 DEF AnswersOK
  <2> QED
    BY <2>1, <2>2
<1>21. Came("count")' /\ Lookups!Answers'.nullifier # Nobody =>
          <<Lookups!Answers'.nullifier, Lookups!Answers'.count>> \in noted'.held
  <2>1. CASE q = "count"
    <3>1. Lookups!Answers'.count = Lookups!Cardinality(Lookups!Registry!HeldBy(Lookups!Answers.nullifier))
      BY <1>1, <1>3, <2>1
    <3>2. Lookups!Answers'.nullifier = Lookups!Answers.nullifier
      BY <1>1, <1>7, <2>1
    <3>3. Lookups!Answers.nullifier \in Humans \cup {Nobody}
      BY <1>2 DEF LookupSet, AnswerSet, Lookups!Answers
    <3> QED
      BY <1>1, <1>4, <3>1, <3>2, <3>3, SeenNow
  <2>2. CASE q # "count"
    <3>1. Lookups!Answers'.count = Lookups!Answers.count
      BY <1>1, <1>7, <2>2
    <3>2. Came("count") => Lookups!Answers'.nullifier = Lookups!Answers.nullifier
      BY <1>1, <1>2, <1>7, KnownOrder DEF Came
    <3> QED
      BY <1>1, <1>2, <1>4, <1>5, <2>2, <3>1, <3>2 DEF AnswersOK
  <2> QED
    BY <2>1, <2>2
<1>22. lookup'.kind = "getInfo" /\ Came("hasProof")' /\ ~ Lookups!Answers'.hasProof =>
          ~ Lookups!HasHumanProof(Lookups!Answers.agentId)'
  <2> DEFINE n == Lookups!Answers'.agentId
  <2>0. Lookups!HasHumanProof(Lookups!Answers.agentId)' <=> Lookups!HasHumanProof(n)
    BY <1>4 DEF Lookups!HasHumanProof
  <2>1. CASE q = "hasProof"
    <3>1. Lookups!Answers'.hasProof = Lookups!HasHumanProof(id)
      BY <1>1, <1>3, <2>1
    <3>2. Lookups!Answers'.agentId = Lookups!Answers.agentId
      BY <1>1, <1>7, <2>1
    <3> QED
      BY <1>1, <1>9, <2>0, <3>1, <3>2 DEF Lookups!ByKey
  <2>2. CASE q # "hasProof"
    <3>1. Lookups!Answers'.hasProof = Lookups!Answers.hasProof
      BY <1>1, <1>7, <2>2
    <3>2. Came("hasProof") /\ lookup.kind = "getInfo" => Came("agentId")
      BY <1>2, KnownOrder DEF Came, Lookups!ByKey, AboutNumber
    <3>3. Came("agentId") => Lookups!Answers'.agentId = Lookups!Answers.agentId
      BY <1>1, <1>7
    <3> QED
      BY <1>1, <1>2, <1>5, <2>0, <2>2, <3>1, <3>2, <3>3 DEF AnswersOK
  <2> QED
    BY <2>1, <2>2
<1> QED
  BY <1>12, <1>13, <1>14, <1>15, <1>16, <1>17, <1>18, <1>19, <1>20, <1>21, <1>22 DEF AnswersOK

-----------------------------------------------------------------------------
(* Steps of the lookup.                                                    *)

\* Answers remain what they are while the registry moves on.
LEMMA AnswersStay ==
  ASSUME LookupInv, lookup.pc # "idle",
         now' \in Nat, now <= now', issued' \in Nat, issued <= issued',
         lookup'.kind = lookup.kind, lookup'.subject = lookup.subject,
         lookup'.number = lookup.number, lookup'.known = lookup.known,
         lookup'.answers = lookup.answers,
         noted.live \subseteq noted'.live, noted.fresh \subseteq noted'.fresh,
         noted.without \subseteq noted'.without, noted.gone \subseteq noted'.gone,
         noted.held \subseteq noted'.held,
         \A n \in 0 .. issued : ~ Lookups!HasHumanProof(n) => ~ Lookups!HasHumanProof(n)'
  PROVE  AnswersOK'
<1>0. /\ AnswersOK /\ OrderOK /\ lookup \in LookupSet
      /\ now \in Nat /\ issued \in Nat
  BY DEF LookupInv, RegistryOK, Lookups!LookupConstants, Lookups!Registry!LedgerOK
<1>1. Lookups!Answers.agentId \in Nat /\ Lookups!Answers.expiresAt \in Nat
  <2>1. Lookups!Answers \in AnswerSet
    BY <1>0 DEF LookupSet, Lookups!Answers
  <2> QED
    BY <2>1 DEF AnswerSet, Slots, LookupInv, RegistryOK, Lookups!LookupConstants
<1> USE <1>0
<1>2. Lookups!Answers' = Lookups!Answers /\ Lookups!Number(lookup)' = Lookups!Number(lookup)
  BY DEF Lookups!Answers, Lookups!Number
<1>3. \A r : Came(r)' <=> Came(r)
  BY DEF Came
<1>4. Came("agentId") => Lookups!Answers.agentId <= issued'
  <2>1. Came("agentId") => Lookups!Answers.agentId = 0 \/ Lookups!Answers.agentId <= issued
    BY <1>1 DEF AnswersOK
  <2> QED
    BY <1>1, <2>1
<1>5. Lookups!Answers.expiresAt > now' => Lookups!Answers.expiresAt > now
  BY <1>1
<1>6. ASSUME lookup.kind = "getInfo", Came("hasProof"), ~ Lookups!Answers.hasProof
      PROVE  (~ Lookups!HasHumanProof(Lookups!Answers.agentId))'
  <2>1. Came("agentId")
    BY <1>1, <1>6, KnownOrder DEF Came, Lookups!ByKey, AboutNumber
  <2>2. Lookups!Answers.agentId \in 0 .. issued
    BY <1>1, <2>1 DEF AnswersOK
  <2>3. ~ Lookups!HasHumanProof(Lookups!Answers.agentId)
    BY <1>1, <1>6 DEF AnswersOK
  <2> QED
    BY <1>2, <2>2, <2>3 DEF Lookups!HasHumanProof
<1> QED
  BY <1>1, <1>2, <1>3, <1>4, <1>5, <1>6 DEF AnswersOK

\* A node answers.
LEMMA AnsweredKeepsInv ==
  ASSUME LookupInv, NEW q, Lookups!Answered(q)
  PROVE  LookupInv'
<1>1. /\ lookup.pc = "reading" /\ q \in Lookups!Asked /\ q \in Questions
      /\ lookup' \in LookupSet
      /\ lookup'.pc = "reading" /\ lookup'.kind = lookup.kind
      /\ lookup'.subject = lookup.subject /\ lookup'.number = lookup.number
      /\ lookup'.at = lookup.at
      /\ lookup'.known = lookup.known \cup {q}
      /\ \A r \in Questions \ {q} : Lookups!Answers'[r] = Lookups!Answers[r]
      /\ ~ Came(q)
      /\ UNCHANGED <<Lookups!chainVars, noted>>
  BY AnsweredShape
<1>2. RegistryOK' /\ noted' \in FactSet /\ SeenOK'
  BY <1>1, ViewsUnmoved DEF LookupInv, SeenOK
<1>3. OrderOK'
  <2>1. OrderOK /\ lookup \in LookupSet
    BY DEF LookupInv
  <2>2. q \in Lookups!Reads[lookup.kind][lookup.at]
    BY <1>1, <2>1, AskedOrder
  <2>3. lookup.at \in 1 .. lookup.at
    <3>1. lookup.at \in Nat \ {0}
      BY <2>1 DEF LookupSet
    <3> QED
      BY <3>1
  <2>4. lookup'.known \subseteq UNION {Lookups!Reads[lookup.kind][i] : i \in 1 .. lookup.at}
    BY <1>1, <2>1, <2>2, <2>3 DEF OrderOK
  <2>5. lookup.kind \in {"verifyAgent", "getInfo", "agents"} /\ lookup.at > 1 =>
           lookup'.answers.agentId # 0
    <3> SUFFICES ASSUME lookup.kind \in {"verifyAgent", "getInfo", "agents"}, lookup.at > 1
                 PROVE  lookup'.answers.agentId # 0
      OBVIOUS
    <3>1. lookup.answers.agentId # 0
      BY <1>1, <2>1 DEF OrderOK
    <3>2. Came("agentId")
      <4>1. 1 \in 1 .. lookup.at - 1
        BY <2>3
      <4>2. "agentId" \in Lookups!Reads[lookup.kind][1]
        BY ReadsShape
      <4> QED
        BY <1>1, <2>1, <4>1, <4>2 DEF OrderOK, Came
    <3>3. Lookups!Answers'["agentId"] = Lookups!Answers["agentId"]
      BY <1>1, <3>2 DEF Questions, Lookups!Unanswered
    <3> QED
      BY <3>1, <3>3 DEF Lookups!Answers
  <2>6. \A i \in 1 .. lookup.at - 1 :
           Lookups!Reads[lookup.kind][i] \ {"count"} \subseteq lookup'.known
    BY <1>1, <2>1 DEF OrderOK
  <2>7. /\ lookup.kind \in LookupKinds
        /\ lookup.at \in 1 .. Len(Lookups!Reads[lookup.kind])
        /\ IF lookup.kind \in Lookups!ByKey
           THEN lookup.subject \in AgentKeySet ELSE lookup.number \in Lookups!AgentIds
    BY <1>1, <2>1 DEF OrderOK
  <2>8. lookup'.known \subseteq UNION {Lookups!Reads[lookup'.kind][i] : i \in 1 .. lookup'.at}
    BY <1>1, <2>4
  <2>9. \A i \in 1 .. lookup'.at - 1 : Lookups!Reads[lookup'.kind][i] \ {"count"} \subseteq lookup'.known
    BY <1>1, <2>6
  <2>10. /\ lookup'.pc # "idle"
         /\ lookup'.kind \in LookupKinds
         /\ lookup'.at \in 1 .. Len(Lookups!Reads[lookup'.kind])
         /\ IF lookup'.kind \in Lookups!ByKey
            THEN lookup'.subject \in AgentKeySet ELSE lookup'.number \in Lookups!AgentIds
         /\ lookup'.kind \in {"verifyAgent", "getInfo", "agents"} /\ lookup'.at > 1 =>
               lookup'.answers.agentId # 0
    BY <1>1, <2>5, <2>7
  <2> QED
    BY <2>8, <2>9, <2>10 DEF OrderOK
<1>4. AnswersOK'
  BY AnsweredKeepsAnswers
<1>5. Lookups!LookupWasTrue'
  BY <1>1 DEF Lookups!LookupWasTrue, Lookups!VerifiedWasTrue, Lookups!FreshIsVerified, Lookups!DenialWasTrue, Lookups!CountWasTrue, Lookups!Said
<1> QED
  BY <1>1, <1>2, <1>3, <1>4, <1>5 DEF LookupInv

\* A lookup that is not under way keeps the invariant if its answers do and what it says
\* was so.
LEMMA MovedLookupKeepsInv ==
  ASSUME LookupInv, lookup.pc = "reading", UNCHANGED <<Lookups!chainVars, noted>>,
         lookup' \in LookupSet, lookup'.pc \in {"reading", "answered", "failed"},
         lookup'.kind = lookup.kind, lookup'.subject = lookup.subject,
         lookup'.number = lookup.number, lookup'.known = lookup.known,
         lookup'.answers = lookup.answers,
         OrderOK', Lookups!LookupWasTrue'
  PROVE  LookupInv'
<1>1. /\ UNCHANGED <<ledger, issued, limit, expiresAt, providerOf, selfProofProvider, now>>
      /\ \A id : Lookups!HasHumanProof(id)' <=> Lookups!HasHumanProof(id)
      /\ RegistryOK'
      /\ Lookups!Facts' = Lookups!Facts
      /\ UNCHANGED noted
  BY ViewsUnmoved DEF LookupInv
<1>2. /\ now' \in Nat /\ now <= now' /\ issued' \in Nat /\ issued <= issued'
  BY <1>1 DEF LookupInv, RegistryOK, Lookups!LookupConstants, Lookups!Registry!LedgerOK
<1>3. AnswersOK'
  BY <1>1, <1>2, AnswersStay
<1>4. SeenOK' /\ noted' \in FactSet
  BY <1>1 DEF LookupInv, SeenOK
<1> QED
  BY <1>1, <1>3, <1>4 DEF LookupInv

\* When the reads of an await are answered, so are all that were asked before.
LEMMA ReadSoFar ==
  ASSUME LookupInv, lookup.pc = "reading", Lookups!Asked \subseteq lookup.known
  PROVE  /\ lookup.at \in 1 .. Len(Lookups!Reads[lookup.kind])
         /\ lookup.kind \in LookupKinds
         /\ \A i \in 1 .. lookup.at : Lookups!Reads[lookup.kind][i] \ {"count"} \subseteq lookup.known
<1>1. /\ lookup.at \in 1 .. Len(Lookups!Reads[lookup.kind])
      /\ lookup.kind \in LookupKinds
      /\ \A i \in 1 .. lookup.at - 1 : Lookups!Reads[lookup.kind][i] \ {"count"} \subseteq lookup.known
  BY DEF LookupInv, OrderOK
<1>2. Lookups!Reads[lookup.kind][lookup.at] \ {"count"} \subseteq lookup.known
  BY DEF Lookups!Asked
<1>3. lookup.at \in Nat \ {0}
  BY DEF LookupInv, LookupSet
<1>4. \A i \in 1 .. lookup.at : i = lookup.at \/ i \in 1 .. lookup.at - 1
  BY <1>3
<1> QED
  BY <1>1, <1>2, <1>4

\* What ends a lookup early.
LEMMA DenialShape ==
  ASSUME NEW l
  PROVE  /\ Lookups!Denial(l) \in {"none", "not registered", "no proof", "not found"}
         /\ Lookups!Denial(l) = "not registered" =>
               \/ /\ l.kind \in {"verifyAgent", "getInfo", "agents"}
                  /\ l.at = 1 /\ l.answers.agentId = 0
               \/ l.kind = "handleVerifyAgent" /\ l.at = 1 /\ ~ l.answers.verified
         /\ Lookups!Denial(l) = "no proof" =>
               \/ l.kind = "verifyAgent" /\ l.at = 2 /\ ~ l.answers.hasProof
               \/ l.kind = "verify" /\ ~ l.answers.hasProof
         /\ Lookups!Denial(l) = "not found" =>
               \/ l.kind = "verify" /\ l.answers.provider = NoProvider
               \/ l.kind = "info" /\ l.answers.key = NoKey
         /\ Lookups!Denial(l) = "none" /\ l.kind \in {"verifyAgent", "getInfo", "agents"} /\ l.at = 1 =>
               l.answers.agentId # 0
BY DEF Lookups!Denial

\* What a denial rests on has been read.
LEMMA DenialWasRead ==
  ASSUME LookupInv, lookup.pc = "reading", Lookups!Asked \subseteq lookup.known
  PROVE  /\ Lookups!Denial(lookup) = "not registered" => lookup.subject \in noted.without
         /\ Lookups!Denial(lookup) \in {"no proof", "not found"} => Lookups!Number(lookup) \in noted.gone
<1>1. /\ AnswersOK /\ lookup.at \in Nat \ {0}
      /\ \A i \in 1 .. lookup.at : Lookups!Reads[lookup.kind][i] \ {"count"} \subseteq lookup.known
  BY ReadSoFar DEF LookupInv, LookupSet
<1>2. 1 \in 1 .. lookup.at
  BY <1>1
<1>3. lookup.kind \in {"verifyAgent", "getInfo", "agents"} => Came("agentId")
  BY <1>1, <1>2, ReadsShape DEF Came
<1>4. lookup.kind = "handleVerifyAgent" => Came("verified")
  BY <1>1, <1>2, ReadsShape DEF Came
<1>5. lookup.kind = "verifyAgent" /\ lookup.at = 2 => Came("hasProof")
  BY <1>1, ReadsShape DEF Came
<1>6. lookup.kind = "verify" => Came("hasProof") /\ Came("provider")
  BY <1>1, <1>2, ReadsShape DEF Came
<1>7. lookup.kind = "info" => Came("key")
  BY <1>1, <1>2, ReadsShape DEF Came
<1>8. ASSUME Lookups!Denial(lookup) = "not registered"
      PROVE  lookup.subject \in noted.without
  BY <1>1, <1>3, <1>4, <1>8, DenialShape DEF AnswersOK, Lookups!Answers
<1>9. ASSUME Lookups!Denial(lookup) = "no proof"
      PROVE  Lookups!Number(lookup) \in noted.gone
  BY <1>1, <1>5, <1>6, <1>9, DenialShape DEF AnswersOK, Lookups!Answers
<1>10. ASSUME Lookups!Denial(lookup) = "not found"
       PROVE  Lookups!Number(lookup) \in noted.gone
  BY <1>1, <1>6, <1>7, <1>10, DenialShape DEF AnswersOK, Lookups!Answers
<1> QED
  BY <1>8, <1>9, <1>10

\* What a verdict rests on has been read, too.
LEMMA VerdictWasRead ==
  ASSUME LookupInv, lookup.pc = "reading", Lookups!Asked \subseteq lookup.known,
         lookup.at = Len(Lookups!Reads[lookup.kind])
  PROVE  /\ Lookups!Verdict(lookup) \in {"expired", "third party", "verified", "no proof"}
         /\ Lookups!Verdict(lookup) = "no proof" => Lookups!Number(lookup) \in noted.gone
         /\ /\ Lookups!Verdict(lookup) = "verified"
            /\ lookup.kind \in {"verifyAgent", "handleVerifyAgent"}
            /\ Lookups!Answers.expiresAt > 0
            => Lookups!Number(lookup) \in noted.fresh
<1>1. /\ AnswersOK /\ lookup.at \in Nat \ {0} /\ lookup.kind \in LookupKinds
      /\ now \in Nat /\ Lookups!Answers \in AnswerSet
      /\ \A i \in 1 .. lookup.at : Lookups!Reads[lookup.kind][i] \ {"count"} \subseteq lookup.known
  BY ReadSoFar DEF LookupInv, LookupSet, RegistryOK, Lookups!Answers
<1>2. Lookups!Verdict(lookup) \in {"expired", "third party", "verified", "no proof"}
  BY DEF Lookups!Verdict
<1>3. lookup.kind # "handleVerifyAgent" => Came("hasProof")
  <2>1. 1 \in 1 .. lookup.at
    BY <1>1
  <2>2. lookup.kind = "info" => Came("hasProof")
    <3>1. "hasProof" \in Lookups!Reads["info"][1]
      BY ReadsShape
    <3> QED
      BY <1>1, <2>1, <3>1 DEF Came
  <2>3. lookup.kind = "verify" => Came("hasProof")
    <3>1. "hasProof" \in Lookups!Reads["verify"][1]
      BY ReadsShape
    <3> QED
      BY <1>1, <2>1, <3>1 DEF Came
  <2>4. ASSUME lookup.kind = "verifyAgent"
        PROVE  Came("hasProof")
    <3>1. lookup.at = 3
      BY <2>4, ReadsShape
    <3>2. "hasProof" \in Lookups!Reads["verifyAgent"][2]
      BY ReadsShape
    <3> QED
      BY <1>1, <2>4, <3>1, <3>2 DEF Came
  <2>5. ASSUME lookup.kind = "getInfo"
        PROVE  Came("hasProof")
    <3>1. lookup.at = 3
      BY <2>5, ReadsShape
    <3>2. "hasProof" \in Lookups!Reads["getInfo"][2]
      BY ReadsShape
    <3> QED
      BY <1>1, <2>5, <3>1, <3>2 DEF Came
  <2>6. ASSUME lookup.kind = "agents"
        PROVE  Came("hasProof")
    <3>1. lookup.at = 3
      BY <2>6, ReadsShape
    <3>2. "hasProof" \in Lookups!Reads["agents"][2]
      BY ReadsShape
    <3> QED
      BY <1>1, <2>6, <3>1, <3>2 DEF Came
  <2> QED
    BY <1>1, <2>2, <2>3, <2>4, <2>5, <2>6 DEF LookupKinds
<1>4. ASSUME Lookups!Verdict(lookup) = "no proof"
      PROVE  Lookups!Number(lookup) \in noted.gone
  BY <1>1, <1>3, <1>4 DEF Lookups!Verdict, AnswersOK, Lookups!Answers
<1>5. ASSUME Lookups!Verdict(lookup) = "verified",
             lookup.kind \in {"verifyAgent", "handleVerifyAgent"}, Lookups!Answers.expiresAt > 0
      PROVE  Lookups!Number(lookup) \in noted.fresh
  <2>1. Lookups!Answers.expiresAt \in Nat
    BY <1>1 DEF AnswerSet
  <2>2. ~ Lookups!Expired(lookup)
    BY <1>5 DEF Lookups!Verdict
  <2>3. Lookups!Answers.expiresAt > now
    BY <1>1, <1>5, <2>1, <2>2 DEF Lookups!Expired, Lookups!Answers
  <2>4. Came("expiresAt")
    <3>1. "expiresAt" \notin lookup.known => Lookups!Answers["expiresAt"] = Lookups!Unanswered["expiresAt"]
      BY <1>1 DEF AnswersOK, Questions, Lookups!Unanswered
    <3>2. Lookups!Unanswered["expiresAt"] = 0
      BY DEF Lookups!Unanswered
    <3> QED
      BY <1>5, <3>1, <3>2 DEF Came
  <2> QED
    BY <1>1, <2>3, <2>4 DEF AnswersOK
<1> QED
  BY <1>2, <1>4, <1>5

\* A lookup that ends says what was so.
LEMMA SaidWasTrue ==
  ASSUME LookupInv, lookup.pc = "reading", Lookups!Asked \subseteq lookup.known,
         UNCHANGED noted, NEW what,
         \/ what = Lookups!Denial(lookup) /\ what # "none"
         \/ what = Lookups!Verdict(lookup) /\ lookup.at = Len(Lookups!Reads[lookup.kind]),
         lookup' = [lookup EXCEPT !.pc = "answered", !.said = what]
  PROVE  Lookups!LookupWasTrue' /\ lookup' \in LookupSet
<1>1. /\ lookup \in LookupSet /\ AnswersOK /\ OrderOK
      /\ \A id \in noted.fresh : id \in Lookups!AgentIds
  BY DEF LookupInv, FactSet
<1>2. what \in {"not registered", "no proof", "not found", "expired", "third party", "verified"}
  BY DenialShape, VerdictWasRead
<1>3. /\ lookup' \in LookupSet /\ lookup'.pc = "answered" /\ lookup'.said = what
      /\ lookup'.kind = lookup.kind /\ lookup'.subject = lookup.subject
      /\ lookup'.number = lookup.number /\ lookup'.known = lookup.known
      /\ lookup'.answers = lookup.answers
  BY <1>1, <1>2 DEF LookupSet
<1>4. Lookups!Answers' = Lookups!Answers /\ Lookups!Number(lookup)' = Lookups!Number(lookup)
  BY <1>3 DEF Lookups!Answers, Lookups!Number
<1>5. lookup.kind \in Lookups!ByKey => Lookups!Number(lookup) = Lookups!Answers.agentId
  BY NumberShape
<1>6. Lookups!Answers.agentId # 0 =>
         \E a \in noted.live : a.number = Lookups!Answers.agentId /\ a.key = lookup.subject
  <2>1. "agentId" \notin lookup.known => Lookups!Answers["agentId"] = Lookups!Unanswered["agentId"]
    BY <1>1 DEF AnswersOK, Questions, Lookups!Unanswered
  <2>2. Lookups!Unanswered["agentId"] = 0
    BY DEF Lookups!Unanswered
  <2> QED
    BY <1>1, <2>1, <2>2 DEF AnswersOK, Came
<1>7. Lookups!Answers.fresh => /\ lookup.kind = "getInfo" /\ Lookups!Answers.hasProof
                       /\ Lookups!Number(lookup) \in noted.fresh
  <2>1. "fresh" \notin lookup.known => Lookups!Answers["fresh"] = Lookups!Unanswered["fresh"]
    BY <1>1 DEF AnswersOK, Questions, Lookups!Unanswered
  <2>2. Lookups!Unanswered["fresh"] = FALSE
    BY DEF Lookups!Unanswered
  <2>3. Lookups!Answers.fresh => Came("fresh")
    BY <2>1, <2>2 DEF Came
  <2>4. Came("fresh") => lookup.kind = "getInfo"
    BY <1>1, KnownOrder DEF Came
  <2> QED
    BY <1>1, <2>3, <2>4 DEF AnswersOK
<1>8. Lookups!VerifiedWasTrue'
  <2>1. ASSUME Lookups!Number(lookup) \in noted.fresh, lookup.kind \in Lookups!ByKey
        PROVE  /\ Lookups!Answers.agentId \in noted.fresh
               /\ \E a \in noted.live : a.number = Lookups!Answers.agentId /\ a.key = lookup.subject
    <3>1. Lookups!Answers.agentId \in noted.fresh
      BY <1>5, <2>1
    <3>2. Lookups!Answers.agentId # 0
      BY <1>1, <3>1 DEF Lookups!AgentIds
    <3> QED
      BY <1>6, <3>1, <3>2
  <2>2. what = "verified" /\ lookup.kind \in {"verifyAgent", "handleVerifyAgent"}
        /\ Lookups!Answers.expiresAt > 0 => Lookups!Number(lookup) \in noted.fresh
    BY VerdictWasRead, DenialShape
  <2> QED
    BY <1>3, <1>4, <1>7, <2>1, <2>2 DEF Lookups!VerifiedWasTrue, Lookups!Said, Lookups!ByKey
<1>9. Lookups!FreshIsVerified'
  BY <1>4, <1>7 DEF Lookups!FreshIsVerified
<1>10. Lookups!DenialWasTrue'
  <2>1. what = "not registered" => lookup.subject \in noted.without
    BY DenialWasRead, VerdictWasRead
  <2>2. what \in {"no proof", "not found"} => Lookups!Number(lookup) \in noted.gone
    BY DenialWasRead, VerdictWasRead
  <2> QED
    BY <1>3, <1>4, <2>1, <2>2 DEF Lookups!DenialWasTrue, Lookups!Said
<1>11. Lookups!CountWasTrue'
  <2>1. "count" \in lookup.known => Came("nullifier")
    BY <1>1, KnownOrder DEF Came
  <2> QED
    BY <1>1, <1>3, <1>4, <2>1 DEF Lookups!CountWasTrue, AnswersOK, Came
<1> QED
  BY <1>3, <1>8, <1>9, <1>10, <1>11 DEF Lookups!LookupWasTrue

\* The reads of an await are in: the lookup ends or goes on.
LEMMA ProceedKeepsInv ==
  ASSUME LookupInv, Lookups!Proceed
  PROVE  LookupInv'
<1>1. /\ lookup.pc = "reading" /\ Lookups!Asked \subseteq lookup.known
      /\ UNCHANGED <<Lookups!chainVars, noted>>
  BY DEF Lookups!Proceed
<1>2. lookup \in LookupSet /\ OrderOK
  BY DEF LookupInv
<1>3. ASSUME NEW what, lookup' = [lookup EXCEPT !.pc = "answered", !.said = what],
             \/ what = Lookups!Denial(lookup) /\ what # "none"
             \/ what = Lookups!Verdict(lookup) /\ lookup.at = Len(Lookups!Reads[lookup.kind])
      PROVE  LookupInv'
  <2>1. Lookups!LookupWasTrue' /\ lookup' \in LookupSet
    BY <1>1, <1>3, SaidWasTrue
  <2>2. /\ lookup'.pc = "answered" /\ lookup'.kind = lookup.kind
        /\ lookup'.subject = lookup.subject /\ lookup'.number = lookup.number
        /\ lookup'.at = lookup.at /\ lookup'.known = lookup.known
        /\ lookup'.answers = lookup.answers
    BY <1>2, <1>3 DEF LookupSet
  <2>3. OrderOK'
    BY <1>1, <1>2, <2>2 DEF OrderOK
  <2> QED
    BY <1>1, <2>1, <2>2, <2>3, MovedLookupKeepsInv
<1>4. ASSUME Lookups!Denial(lookup) = "none", lookup.at < Len(Lookups!Reads[lookup.kind]),
             lookup' = [lookup EXCEPT !.at = lookup.at + 1]
      PROVE  LookupInv'
  <2>1. lookup.at \in Nat \ {0}
    BY <1>2 DEF LookupSet
  <2>2. /\ lookup' \in LookupSet
        /\ lookup'.pc = "reading" /\ lookup'.kind = lookup.kind
        /\ lookup'.subject = lookup.subject /\ lookup'.number = lookup.number
        /\ lookup'.at = lookup.at + 1 /\ lookup'.known = lookup.known
        /\ lookup'.answers = lookup.answers
    <3> DEFINE next == lookup.at + 1
    <3>1. next \in Nat \ {0} /\ lookup' = [lookup EXCEPT !.at = next]
      BY <1>4, <2>1
    <3> HIDE DEF next
    <3>2. /\ lookup' \in LookupSet
          /\ lookup'.pc = lookup.pc /\ lookup'.kind = lookup.kind
          /\ lookup'.subject = lookup.subject /\ lookup'.number = lookup.number
          /\ lookup'.at = next /\ lookup'.known = lookup.known
          /\ lookup'.answers = lookup.answers
      BY <1>2, <3>1 DEF LookupSet
    <3> QED
      BY <1>1, <3>2 DEF next
  <2>3. Lookups!LookupWasTrue'
    BY <2>2 DEF Lookups!LookupWasTrue, Lookups!VerifiedWasTrue, Lookups!FreshIsVerified, Lookups!DenialWasTrue, Lookups!CountWasTrue, Lookups!Said
  <2>4. OrderOK'
    <3>1. /\ lookup.kind \in LookupKinds
          /\ \A i \in 1 .. lookup.at : Lookups!Reads[lookup.kind][i] \ {"count"} \subseteq lookup.known
      BY <1>1, ReadSoFar
    <3>2. lookup.at + 1 \in 1 .. Len(Lookups!Reads[lookup.kind])
      <4>1. Len(Lookups!Reads[lookup.kind]) \in Nat
        BY <3>1, ReadsLength
      <4> QED
        BY <1>4, <2>1, <4>1
    <3>3. \A i \in 1 .. lookup.at : i \in 1 .. lookup'.at
      BY <2>1, <2>2
    <3>4. lookup'.known \subseteq UNION {Lookups!Reads[lookup'.kind][i] : i \in 1 .. lookup'.at}
      <4>1. lookup.known \subseteq UNION {Lookups!Reads[lookup.kind][i] : i \in 1 .. lookup.at}
        BY <1>1, <1>2 DEF OrderOK
      <4> QED
        BY <2>2, <3>3, <4>1
    <3>5. \A i \in 1 .. lookup'.at - 1 :
             Lookups!Reads[lookup'.kind][i] \ {"count"} \subseteq lookup'.known
      <4>1. lookup'.at - 1 = lookup.at
        BY <2>1, <2>2
      <4> QED
        BY <2>2, <3>1, <4>1
    <3>6. lookup.kind \in {"verifyAgent", "getInfo", "agents"} => lookup.answers.agentId # 0
      <4>1. CASE lookup.at = 1
        BY <1>4, <4>1, DenialShape
      <4>2. CASE lookup.at > 1
        BY <1>1, <1>2, <4>2 DEF OrderOK
      <4> QED
        BY <2>1, <4>1, <4>2
    <3>7. IF lookup'.kind \in Lookups!ByKey
          THEN lookup'.subject \in AgentKeySet ELSE lookup'.number \in Lookups!AgentIds
      BY <1>1, <1>2, <2>2 DEF OrderOK
    <3>8. /\ lookup'.pc # "idle" /\ lookup'.kind \in LookupKinds
          /\ lookup'.at \in 1 .. Len(Lookups!Reads[lookup'.kind])
          /\ lookup'.kind \in {"verifyAgent", "getInfo", "agents"} /\ lookup'.at > 1 =>
                lookup'.answers.agentId # 0
      BY <2>2, <3>1, <3>2, <3>6
    <3> QED
      BY <3>4, <3>5, <3>7, <3>8 DEF OrderOK
  <2> QED
    BY <1>1, <2>2, <2>3, <2>4, MovedLookupKeepsInv
<1>5. \/ /\ Lookups!Denial(lookup) # "none"
         /\ lookup' = [lookup EXCEPT !.pc = "answered", !.said = Lookups!Denial(lookup)]
      \/ /\ lookup.at = Len(Lookups!Reads[lookup.kind])
         /\ lookup' = [lookup EXCEPT !.pc = "answered", !.said = Lookups!Verdict(lookup)]
      \/ /\ Lookups!Denial(lookup) = "none"
         /\ lookup.at < Len(Lookups!Reads[lookup.kind])
         /\ lookup' = [lookup EXCEPT !.at = lookup.at + 1]
  BY DEF Lookups!Proceed
<1> QED
  BY <1>3, <1>4, <1>5

\* A lookup that fails says nothing of the agent; one that goes on without an expiry has
\* none.
LEMMA ReadFailsKeepsInv ==
  ASSUME LookupInv, Lookups!ReadFails
  PROVE  LookupInv'
<1>1. /\ lookup.pc = "reading" /\ ~ Lookups!Asked \subseteq lookup.known
      /\ UNCHANGED <<Lookups!chainVars, noted>>
      /\ lookup \in LookupSet /\ OrderOK /\ AnswersOK
  BY DEF Lookups!ReadFails, LookupInv
<1>2. CASE \/ lookup' = [lookup EXCEPT !.pc = "failed"]
           \/ lookup' = [lookup EXCEPT !.pc = "failed", !.said = "not found"]
  <2>1. /\ lookup' \in LookupSet
        /\ lookup'.pc = "failed" /\ lookup'.kind = lookup.kind
        /\ lookup'.subject = lookup.subject /\ lookup'.number = lookup.number
        /\ lookup'.at = lookup.at /\ lookup'.known = lookup.known
        /\ lookup'.answers = lookup.answers
    <3>1. CASE lookup' = [lookup EXCEPT !.pc = "failed"]
      BY <1>1, <3>1 DEF LookupSet
    <3>2. CASE lookup' = [lookup EXCEPT !.pc = "failed", !.said = "not found"]
      BY <1>1, <3>2 DEF LookupSet
    <3> QED
      BY <1>2, <3>1, <3>2
  <2>2. Lookups!LookupWasTrue'
    <3>1. Lookups!Answers' = Lookups!Answers
      BY <2>1 DEF Lookups!Answers
    <3> QED
      BY <2>1, <3>1
         DEF Lookups!LookupWasTrue, Lookups!VerifiedWasTrue, Lookups!FreshIsVerified, Lookups!DenialWasTrue, Lookups!CountWasTrue, Lookups!Said
  <2>3. OrderOK'
    BY <1>1, <2>1 DEF OrderOK
  <2> QED
    BY <1>1, <2>1, <2>2, <2>3, MovedLookupKeepsInv
<1>3. ASSUME lookup.kind = "handleVerifyAgent", lookup.at = 7,
             lookup' = [lookup EXCEPT !.known = lookup.known \cup {"expiresAt"}]
      PROVE  LookupInv'
  <2>1. "expiresAt" \in Lookups!Reads["handleVerifyAgent"][7] /\ "expiresAt" \in Questions
    BY ReadsShape DEF Questions, Lookups!Unanswered
  <2>2. Lookups!Reads["handleVerifyAgent"][7] = {"expiresAt"}
    BY ReadsShape
  <2>3. ~ Came("expiresAt")
    BY <1>1, <1>3, <2>2 DEF Lookups!Asked, Came
  <2>4. /\ lookup' \in LookupSet
        /\ lookup'.pc = "reading" /\ lookup'.kind = lookup.kind
        /\ lookup'.subject = lookup.subject /\ lookup'.number = lookup.number
        /\ lookup'.at = lookup.at /\ lookup'.known = lookup.known \cup {"expiresAt"}
        /\ lookup'.answers = lookup.answers
    BY <1>1, <1>3, <2>1 DEF LookupSet
  <2>5. Lookups!Answers' = Lookups!Answers /\ Lookups!Number(lookup)' = Lookups!Number(lookup)
    BY <2>4 DEF Lookups!Answers, Lookups!Number
  <2>6. Lookups!Answers.expiresAt = 0
    <3>1. Lookups!Answers["expiresAt"] = Lookups!Unanswered["expiresAt"]
      BY <1>1, <2>1, <2>3 DEF AnswersOK, Came
    <3> QED
      BY <3>1 DEF Lookups!Unanswered
  <2>7. /\ UNCHANGED <<ledger, issued, now, noted>> /\ RegistryOK' /\ Lookups!Facts' = Lookups!Facts
        /\ \A id : Lookups!HasHumanProof(id)' <=> Lookups!HasHumanProof(id)
        /\ now \in Nat
    BY <1>1, ViewsUnmoved DEF LookupInv, RegistryOK
  <2>8. \A r \in Questions \ {"expiresAt"} : Came(r)' <=> Came(r)
    BY <2>4 DEF Came
  <2>9. AnswersOK'
    <3>1. \A r \in Questions \ lookup'.known : Lookups!Answers'[r] = Lookups!Unanswered[r]
      BY <1>1, <2>4, <2>5 DEF AnswersOK
    <3>2. ~ (Lookups!Answers'.expiresAt > now')
      BY <2>5, <2>6, <2>7
    <3>3. \A r \in {"agentId", "verified", "key", "hasProof", "provider", "fresh",
                    "nullifier", "count"} : Came(r)' <=> Came(r)
      BY <2>8 DEF Questions, Lookups!Unanswered
    <3>4. (Lookups!HasHumanProof(Lookups!Answers.agentId))' <=> Lookups!HasHumanProof(Lookups!Answers.agentId)
      BY <2>5, <2>7 DEF Lookups!HasHumanProof
    <3>5. /\ Came("agentId")' <=> Came("agentId")
          /\ Came("verified")' <=> Came("verified")
          /\ Came("hasProof")' <=> Came("hasProof")
          /\ Came("key")' <=> Came("key")
          /\ Came("provider")' <=> Came("provider")
          /\ Came("fresh")' <=> Came("fresh")
          /\ Came("nullifier")' <=> Came("nullifier")
          /\ Came("count")' <=> Came("count")
      BY <3>3
    <3>6. /\ lookup'.kind = "handleVerifyAgent" /\ lookup'.subject = lookup.subject
          /\ issued' = issued /\ noted' = noted
      BY <1>3, <2>4, <2>7
    <3> QED
      BY <1>1, <2>5, <3>1, <3>2, <3>5, <3>6 DEF AnswersOK
  <2>10. OrderOK'
    <3>1. /\ lookup.kind \in LookupKinds
          /\ lookup.at \in 1 .. Len(Lookups!Reads[lookup.kind])
          /\ lookup.known \subseteq UNION {Lookups!Reads[lookup.kind][i] : i \in 1 .. lookup.at}
          /\ \A i \in 1 .. lookup.at - 1 :
                Lookups!Reads[lookup.kind][i] \ {"count"} \subseteq lookup.known
          /\ lookup.subject \in AgentKeySet
      BY <1>1, <1>3 DEF OrderOK, Lookups!ByKey
    <3>2. lookup'.known \subseteq UNION {Lookups!Reads[lookup'.kind][i] : i \in 1 .. lookup'.at}
      <4>1. 7 \in 1 .. lookup'.at
        BY <1>3, <2>4
      <4> QED
        <5>1. "expiresAt" \in UNION {Lookups!Reads[lookup'.kind][i] : i \in 1 .. lookup'.at}
          BY <1>3, <2>1, <2>4, <4>1
        <5> QED
          BY <2>4, <3>1, <5>1
    <3>3. \A i \in 1 .. lookup'.at - 1 :
             Lookups!Reads[lookup'.kind][i] \ {"count"} \subseteq lookup'.known
      BY <2>4, <3>1
    <3>4. /\ lookup'.pc # "idle" /\ lookup'.kind \in LookupKinds
          /\ lookup'.at \in 1 .. Len(Lookups!Reads[lookup'.kind])
          /\ lookup'.kind = "handleVerifyAgent" /\ lookup'.subject \in AgentKeySet
      BY <1>3, <2>4, <3>1
    <3> QED
      BY <3>2, <3>3, <3>4 DEF OrderOK, Lookups!ByKey
  <2>11. Lookups!LookupWasTrue'
    BY <2>4 DEF Lookups!LookupWasTrue, Lookups!VerifiedWasTrue, Lookups!FreshIsVerified, Lookups!DenialWasTrue, Lookups!CountWasTrue, Lookups!Said
  <2>12. SeenOK' /\ noted' \in FactSet
    BY <1>1, <2>4, <2>7 DEF LookupInv, SeenOK
  <2> QED
    BY <2>4, <2>7, <2>9, <2>10, <2>11, <2>12 DEF LookupInv
<1> QED
  BY <1>2, <1>3 DEF Lookups!ReadFails

\* The empty answers, and a lookup that has not begun.
LEMMA NothingShape ==
  ASSUME Lookups!LookupConstants
  PROVE  /\ Lookups!Unanswered \in AnswerSet
         /\ Lookups!NoLookup \in LookupSet
         /\ Lookups!Nothing \in FactSet
<1>1. 0 \in Slots
  BY DEF Lookups!LookupConstants, Slots
<1>2. Lookups!Unanswered \in AnswerSet
  BY <1>1 DEF Lookups!Unanswered, AnswerSet
<1>3. Lookups!NoLookup \in LookupSet
  BY <1>1, <1>2 DEF Lookups!NoLookup, LookupSet
<1>4. Lookups!Nothing \in FactSet
  BY DEF Lookups!Nothing, FactSet
<1> QED
  BY <1>2, <1>3, <1>4

\* A lookup begins with no answers and what is so.
LEMMA StartKeepsInv ==
  ASSUME LookupInv, NEW kind \in Kinds, NEW key \in AgentKeySet \cup {NoKey},
         NEW id \in 0 .. MaxIssued, NEW strict \in BOOLEAN, Lookups!Start(kind, key, id, strict)
  PROVE  LookupInv'
<1>1. /\ lookup' = [Lookups!NoLookup EXCEPT !.pc = "reading", !.kind = kind, !.subject = key,
                                    !.number = id, !.strict = strict]
      /\ IF kind \in Lookups!ByKey THEN key # NoKey /\ id = 0 ELSE key = NoKey /\ id # 0
      /\ noted' = Lookups!Facts /\ UNCHANGED Lookups!chainVars
  BY DEF Lookups!Start
<1>2. kind \in LookupKinds
  BY DEF LookupInv, RegistryOK, Lookups!LookupConstants, LookupKinds
<1>3. /\ Lookups!NoLookup.at = 1 /\ Lookups!NoLookup.known = {} /\ Lookups!NoLookup.answers = Lookups!Unanswered
      /\ Lookups!NoLookup.said = "none"
  BY DEF Lookups!NoLookup
<1>4. /\ lookup' \in LookupSet
      /\ lookup'.pc = "reading" /\ lookup'.kind = kind /\ lookup'.subject = key
      /\ lookup'.number = id /\ lookup'.at = 1 /\ lookup'.known = {}
      /\ lookup'.answers = Lookups!Unanswered
  BY <1>1, <1>2, <1>3, NothingShape DEF LookupInv, RegistryOK, LookupSet, Slots
<1>5. RegistryOK' /\ Lookups!Facts' = Lookups!Facts /\ Lookups!Facts \in FactSet
  BY <1>1, ViewsUnmoved, FactsShape DEF LookupInv
<1>6. SeenOK'
  BY <1>1, <1>5 DEF SeenOK
<1>7. OrderOK'
  <2>1. 1 \in 1 .. Len(Lookups!Reads[kind])
    BY <1>2, ReadsLength
  <2>2. IF kind \in Lookups!ByKey THEN key \in AgentKeySet ELSE id \in Lookups!AgentIds
    BY <1>1 DEF LookupInv, RegistryOK, Lookups!LookupConstants, Lookups!AgentIds
  <2>3. \A i \in 1 .. lookup'.at - 1 : FALSE
    BY <1>4
  <2> QED
    BY <1>2, <1>4, <2>1, <2>2, <2>3 DEF OrderOK
<1>8. AnswersOK'
  BY <1>4 DEF AnswersOK, Came, Lookups!Answers
<1>9. Lookups!LookupWasTrue'
  BY <1>4 DEF Lookups!LookupWasTrue, Lookups!VerifiedWasTrue, Lookups!FreshIsVerified, Lookups!DenialWasTrue, Lookups!CountWasTrue, Lookups!Said
<1> QED
  BY <1>1, <1>4, <1>5, <1>6, <1>7, <1>8, <1>9 DEF LookupInv

\* What is so is a set of facts.
LEMMA FactsTyped == RegistryOK => Lookups!Facts \in FactSet
BY FactsShape

\* What is so next is, too.
LEMMA FactsTypedNext == (RegistryOK => Lookups!Facts \in FactSet)'
BY FactsTyped, PTL

\* The registry moves under the lookup, which watches it.
LEMMA RegistryKeepsInv ==
  ASSUME LookupInv, Lookups!ChainStep, lookup.pc \in {"idle", "reading"},
         noted' = IF lookup.pc = "reading" THEN Lookups!Watch(Lookups!Facts') ELSE noted,
         UNCHANGED lookup
  PROVE  LookupInv'
<1>1. RegistryOK /\ noted \in FactSet /\ lookup \in LookupSet /\ OrderOK /\ AnswersOK
  BY DEF LookupInv
<1>2. RegistryOK' /\ Lookups!Facts' \in FactSet
  BY <1>1, ChainKeepsRegistry, FactsTypedNext
<1>3. /\ now' \in Nat /\ now <= now' /\ issued' \in Nat /\ issued <= issued'
      /\ \A a \in ledger' : a \in ledger \/ a.number = issued + 1
      /\ issued \in Nat
  BY <1>1, ChainShape DEF RegistryOK, Lookups!Registry!LedgerOK
<1>4. \A n \in 0 .. issued : ~ Lookups!HasHumanProof(n) => ~ Lookups!HasHumanProof(n)'
  BY <1>3 DEF Lookups!HasHumanProof
<1>5. OrderOK'
  BY <1>1 DEF OrderOK
<1>6. Lookups!LookupWasTrue'
  BY DEF Lookups!LookupWasTrue, Lookups!VerifiedWasTrue, Lookups!FreshIsVerified, Lookups!DenialWasTrue, Lookups!CountWasTrue, Lookups!Said
<1>7. CASE lookup.pc = "reading"
  <2>1. /\ noted' \in FactSet
        /\ noted.live \subseteq noted'.live /\ Lookups!Facts'.live \subseteq noted'.live
        /\ noted.fresh \subseteq noted'.fresh /\ Lookups!Facts'.fresh \subseteq noted'.fresh
        /\ noted.without \subseteq noted'.without /\ Lookups!Facts'.without \subseteq noted'.without
        /\ noted.gone \subseteq noted'.gone /\ Lookups!Facts'.gone \subseteq noted'.gone
        /\ noted.held \subseteq noted'.held /\ Lookups!Facts'.held \subseteq noted'.held
    <3> DEFINE facts == Lookups!Facts'
    <3>1. facts \in FactSet /\ noted' = Lookups!Watch(facts)
      BY <1>2, <1>7
    <3> HIDE DEF facts
    <3>2. /\ noted' \in FactSet
          /\ noted.live \subseteq noted'.live /\ facts.live \subseteq noted'.live
          /\ noted.fresh \subseteq noted'.fresh /\ facts.fresh \subseteq noted'.fresh
          /\ noted.without \subseteq noted'.without /\ facts.without \subseteq noted'.without
          /\ noted.gone \subseteq noted'.gone /\ facts.gone \subseteq noted'.gone
          /\ noted.held \subseteq noted'.held /\ facts.held \subseteq noted'.held
      BY <1>1, <3>1, WatchShape
    <3> QED
      BY <3>2 DEF facts
  <2>2. SeenOK'
    BY <2>1 DEF SeenOK
  <2>3. AnswersOK'
    BY <1>3, <1>4, <1>7, <2>1, AnswersStay
  <2> QED
    BY <1>1, <1>2, <1>5, <1>6, <2>1, <2>2, <2>3 DEF LookupInv
<1>8. CASE lookup.pc = "idle"
  <2>1. lookup = Lookups!NoLookup
    BY <1>1, <1>8 DEF OrderOK
  <2>2. lookup'.known = {} /\ lookup'.answers = Lookups!Unanswered /\ lookup'.kind = "none"
    BY <2>1 DEF Lookups!NoLookup
  <2>3. AnswersOK'
    BY <2>2 DEF AnswersOK, Came, Lookups!Answers
  <2>4. SeenOK' /\ noted' \in FactSet
    BY <1>1, <1>8 DEF SeenOK
  <2> QED
    BY <1>1, <1>2, <1>5, <1>6, <2>3, <2>4 DEF LookupInv
<1> QED
  BY <1>7, <1>8

-----------------------------------------------------------------------------
(* The invariant holds.                                                    *)

\* Nothing is registered and nothing is asked.
LEMMA InitLookupInv ==
  ASSUME Lookups!LookupConstants, Lookups!Init
  PROVE  LookupInv
<1>1. lookup = Lookups!NoLookup /\ noted = Lookups!Nothing
  BY DEF Lookups!Init
<1>2. /\ lookup.pc = "idle" /\ lookup.known = {} /\ lookup.answers = Lookups!Unanswered
      /\ lookup.kind = "none"
  BY <1>1 DEF Lookups!NoLookup
<1>3. RegistryOK
  <2>1. Lookups!Registry!LedgerOK /\ ledger = {}
    BY InitLedgerOK DEF Lookups!LookupConstants, Lookups!Init, Lookups!Registry!Init
  <2>2. IsFiniteSet(ledger)
    BY <2>1, FS_EmptySet
  <2> QED
    BY <2>1, <2>2 DEF Lookups!Init, RegistryOK, Slots, Lookups!HasHumanProof
<1>4. SeenOK /\ OrderOK
  BY <1>1, <1>2 DEF SeenOK, OrderOK
<1>5. AnswersOK
  BY <1>2 DEF AnswersOK, Came, Lookups!Answers
<1>6. Lookups!LookupWasTrue
  BY <1>2
     DEF Lookups!LookupWasTrue, Lookups!VerifiedWasTrue, Lookups!FreshIsVerified, Lookups!DenialWasTrue, Lookups!CountWasTrue, Lookups!Said,
         Lookups!Answers, Lookups!Unanswered
<1> QED
  BY <1>1, <1>3, <1>4, <1>5, <1>6, NothingShape DEF LookupInv

\* Every step keeps the invariant.
LEMMA NextKeepsInv ==
  ASSUME LookupInv, [Lookups!Next]_(Lookups!vars)
  PROVE  LookupInv'
<1>1. CASE Lookups!LookupStep
  <2>1. CASE \E kind \in Kinds, key \in AgentKeySet \cup {NoKey}, id \in 0 .. MaxIssued,
                strict \in BOOLEAN : Lookups!Start(kind, key, id, strict)
    BY <2>1, StartKeepsInv
  <2>2. CASE \E question \in DOMAIN Lookups!Unanswered : Lookups!Answered(question)
    BY <2>2, AnsweredKeepsInv
  <2>3. CASE Lookups!Proceed
    BY <2>3, ProceedKeepsInv
  <2>4. CASE Lookups!ReadFails
    BY <2>4, ReadFailsKeepsInv
  <2> QED
    BY <1>1, <2>1, <2>2, <2>3, <2>4 DEF Lookups!LookupStep
<1>2. CASE /\ Lookups!ChainStep
           /\ lookup.pc \in {"idle", "reading"}
           /\ noted' = IF lookup.pc = "reading" THEN Lookups!Watch(Lookups!Facts') ELSE noted
           /\ UNCHANGED lookup
  BY <1>2, RegistryKeepsInv
<1>3. CASE UNCHANGED Lookups!vars
  <2>1. UNCHANGED <<Lookups!chainVars, lookup, noted>>
    BY <1>3 DEF Lookups!vars
  <2>2. /\ RegistryOK' /\ Lookups!Facts' = Lookups!Facts
        /\ \A id : Lookups!HasHumanProof(id)' <=> Lookups!HasHumanProof(id)
        /\ UNCHANGED <<issued, now>>
    BY <2>1, ViewsUnmoved DEF LookupInv
  <2>3. SeenOK' /\ OrderOK'
    BY <2>1, <2>2 DEF LookupInv, SeenOK, OrderOK
  <2>4. AnswersOK'
    <3>1. Lookups!Answers' = Lookups!Answers /\ Lookups!Number(lookup)' = Lookups!Number(lookup)
      BY <2>1 DEF Lookups!Answers, Lookups!Number
    <3>2. (Lookups!HasHumanProof(Lookups!Answers.agentId))' <=> Lookups!HasHumanProof(Lookups!Answers.agentId)
      BY <2>2, <3>1 DEF Lookups!HasHumanProof
    <3> QED
      BY <2>1, <2>2, <3>1, <3>2 DEF LookupInv, AnswersOK, Came
  <2>5. Lookups!LookupWasTrue'
    BY <2>1
       DEF LookupInv, Lookups!LookupWasTrue, Lookups!VerifiedWasTrue, Lookups!FreshIsVerified, Lookups!DenialWasTrue,
           Lookups!CountWasTrue, Lookups!Said, Lookups!Answers, Lookups!Number
  <2> QED
    BY <2>1, <2>2, <2>3, <2>4, <2>5 DEF LookupInv
<1> QED
  BY <1>1, <1>2, <1>3 DEF Lookups!Next

\* Whatever a lookup says was so while it ran, however its reads and the registry's
\* steps are interleaved.
THEOREM LookupCorrect ==
  ASSUME Lookups!LookupConstants
  PROVE  Lookups!Spec => []LookupWasTrue
<1>1. Lookups!Init => LookupInv
  BY InitLookupInv
<1>2. LookupInv /\ [Lookups!Next]_(Lookups!vars) => LookupInv'
  BY NextKeepsInv
<1>3. LookupInv => LookupWasTrue
  BY DEF LookupInv, LookupWasTrue, VerifiedWasTrue, FreshIsVerified, DenialWasTrue, CountWasTrue,
         Said, Answers, Number, ByKey,
         Lookups!LookupWasTrue, Lookups!VerifiedWasTrue, Lookups!FreshIsVerified,
         Lookups!DenialWasTrue, Lookups!CountWasTrue, Lookups!Said, Lookups!Answers,
         Lookups!Number, Lookups!ByKey
<1> QED
  BY <1>1, <1>2, <1>3, PTL DEF Lookups!Spec

-----------------------------------------------------------------------------
(* The A2A endpoint: its inductive invariant.                              *)

USE DEF AgentIds, TaskIds, NoToken

\* A request is being handled.
Runs(k) == k.pc \notin {"idle", "answered"}

Numbers == 0 .. MaxIssued

SceneOK == scene \in Scenes

\* The ledger, and every agent there was.
ChainOK ==
    /\ Registry!LedgerOK
    /\ ledger \subseteq ever
    /\ \A a \in ever : a.key \in AgentKeySet /\ a.number \in 1 .. issued
    /\ expiresAt \in [AgentIds -> Nat]
    /\ \A id \in AgentIds : expiresAt[id] # 0 => HasHumanProof(id)
    /\ now \in Nat

\* An agent that there was, with this number and this key.
Was(number, key) == \E a \in ever : a.number = number /\ a.key = key

\* What a registration may be reported as: an agent of the key under its number, or,
\* of one that has been revoked, under none.
Reported(number, key) ==
    \E a \in ever : a.key = key /\ (a.number = number \/ (number = 0 /\ a \notin ledger))

\* What a session is about: a registration by someone, or the agent that was named.
AboutOK(s) ==
    /\ s.kind # "register" => Was(s.named, s.key)
    /\ s.kind = "register" => s.key \in AgentKeySet /\ s.human \in Humans \cup {NoHuman}

\* Each session is of a task of its own.
SessionOK(s) ==
    /\ s.task \in 1 .. taskCounter /\ s.process \in Processes
    /\ AboutOK(s)

SessionsOK ==
    /\ sessions \in Seq({sessions[i] : i \in DOMAIN sessions})
    /\ \A i \in 1 .. Len(sessions) : SessionOK(sessions[i])
    /\ \A i, j \in 1 .. Len(sessions) : sessions[i].task = sessions[j].task => i = j

\* The token of a session that a task of this process opened.
TokenOf(token, p, t) ==
    /\ token \in 1 .. Len(sessions)
    /\ sessions[token].task = t /\ sessions[token].process = p

\* A token that is gone was dropped for a reason.
GoneFor(s) ==
    \/ dropped[s.task] \in {"expired", "restart"}
    \/ dropped[s.task] = "registered" /\ \E a \in ever : a.key = s.key

States == {"none", "working", "input-required", "completed", "canceled", "failed"}

StoresOK ==
    /\ taskCounter \in 0 .. MaxTasks
    /\ tasks \in [Processes -> [TaskIds -> States]]
    /\ tokens \in [Processes -> [TaskIds -> Nat]]
    /\ DOMAIN dropped = TaskIds /\ dropped = [t \in TaskIds |-> dropped[t]]
    /\ \A p \in Processes, t \in TaskIds : tokens[p][t] # NoToken => TokenOf(tokens[p][t], p, t)
    /\ \A i \in 1 .. Len(sessions) :
          \/ tokens[sessions[i].process][sessions[i].task] # NoToken
          \/ GoneFor(sessions[i])

\* What an answer says was seen.
Proved(k, facts) ==
    (k.hasProof /\ <<"live", k.id>> \in facts) \/ (~ k.hasProof /\ <<"gone", k.id>> \in facts)

AnswerOK(k, facts) ==
    /\ k.said = "verified" =>
          /\ <<"live", k.id>> \in facts
          /\ ~ k.lenient => <<"fresh", k.id>> \in facts
    /\ k.said = "fresh" => <<"fresh", k.id>> \in facts
    /\ k.said = "proof expired" => <<"stale", k.id>> \in facts
    /\ k.said = "has proof" => <<"live", k.id>> \in facts
    /\ k.said = "no proof" => <<"gone", k.id>> \in facts
    /\ k.said = "not found" /\ ~ k.lenient => <<"gone", k.id>> \in facts
    /\ \A n \in k.siblings : \E a \in ever, b \in ever :
          a.number = n /\ b.number = k.id /\ a.human = b.human
    /\ k.said = "registered" =>
          /\ k.token \in 1 .. Len(sessions) /\ Reported(k.number, sessions[k.token].key)
          /\ k.about # 0 => sessions[k.token].task = k.about
    /\ k.said = "no registration" =>
          \A i \in 1 .. Len(sessions) :
             sessions[i].task = k.about /\ sessions[i].process = k.process => GoneFor(sessions[i])

\* What a handler that reads the registry has read so far.
ReadingOK(k, facts) ==
    /\ k.id # 0 /\ k.intent \in {"lookup", "check-freshness"}
    /\ k.need \subseteq {"key", "proof", "expiry", "nullifier"}
    /\ "proof" \notin k.need => Proved(k, facts)
    /\ k.intent = "lookup" /\ "key" \notin k.need /\ k.key = NoKey => <<"gone", k.id>> \in facts
    /\ k.intent = "check-freshness" /\ "expiry" \notin k.need =>
          k.expiry \in Nat /\ (k.expiry > now => <<"fresh", k.id>> \in facts)
    /\ k.intent = "check-freshness" /\ "nullifier" \notin k.need =>
          k.nullifier = NoHuman \/ \E b \in ever : b.number = k.id /\ b.human = k.nullifier

\* What is known where a handler waits.
WaitOK(k, facts) ==
    /\ k.pc \in {"gate", "gate-fresh"} => k.caller # 0 /\ k.gated = "no"
    /\ k.pc = "body" => k.task = 0
    /\ k.pc \in {"gate", "gate-fresh", "body"} =>
          /\ k.task = 0 /\ k.message \in scene.messages
          /\ k.message.method = "message/send" /\ k.about # 0 => AsksForStatus(k.message)
          /\ k.message.method \in {"tasks/get", "tasks/cancel"} => k.about # 0
          /\ k.token # NoToken => k.about = 0 /\ k.token \in 1 .. Len(sessions)
    /\ k.pc \in {"verify", "verify-fresh", "deregister", "deregister-address"} => k.id # 0
    /\ k.pc = "verify-fresh" => Proved(k, facts)
    /\ k.pc \in {"register", "deregister", "deregister-address", "refresh"} => k.task # 0
    /\ k.pc = "register" => k.message \in scene.messages
    /\ k.pc = "deregister-address" => k.key = NoKey \/ Was(k.id, k.key)
    /\ k.pc \in {"reading", "looked-up", "siblings"} =>
          /\ ReadingOK(k, facts)
          /\ k.pc = "looked-up" => k.intent = "lookup" /\ k.need = {}
          /\ k.pc = "siblings" => k.intent = "check-freshness" /\ k.need = {}
    /\ k.pc \in {"status", "status-number", "told"} =>
          /\ k.token \in 1 .. Len(sessions)
          /\ k.about # 0 => TokenOf(k.token, k.process, k.about)
    /\ k.pc = "status-number" => \E a \in ever : a.key = PolledKey(sessions[k.token])
    /\ k.pc = "told" /\ k.said = "registered" => Reported(k.number, sessions[k.token].key)

Waits == {"gate", "gate-fresh", "body", "register", "deregister", "deregister-address",
          "refresh", "status", "status-number", "told", "verify", "verify-fresh", "reading", "looked-up",
          "siblings"}

CallOK(k, facts) ==
    /\ DOMAIN k = DOMAIN Idle
    /\ k.pc \in Waits \cup {"idle", "answered"}
    /\ k.id \in Numbers /\ k.caller \in Numbers
    /\ k.task \in 0 .. taskCounter /\ k.about \in 0 .. taskCounter
    /\ k.pc # "idle" => k.process \in Processes
    /\ k.pc # "idle" /\ k.gated = "fresh" => <<"fresh", k.caller>> \in facts
    /\ k.pc = "answered" => AnswerOK(k, facts)
    /\ WaitOK(k, facts)

\* The agents that a call is about.
Subjects(k) == {k.caller, k.id} \ {0}

CallsOK ==
    /\ DOMAIN call = Calls /\ call = [c \in Calls |-> call[c]]
    /\ \A c \in Calls : CallOK(call[c], seen[c])
    /\ \A c \in Calls : Runs(call[c]) =>
          \A id \in Subjects(call[c]) : FactsOf(id) \subseteq seen[c]

\* A handler has its task for itself, and no one asks for that task yet.
TasksOK ==
    \A c \in Calls : Runs(call[c]) /\ call[c].task # 0 =>
        /\ \A d \in Calls \ {c} : Runs(call[d]) => call[d].task # call[c].task
        /\ \A d \in Calls : call[d].pc # "idle" => call[d].about # call[c].task
        /\ \A i \in 1 .. Len(sessions) : sessions[i].task # call[c].task

A2AInv == SceneOK /\ ChainOK /\ SessionsOK /\ StoresOK /\ CallsOK /\ TasksOK

-----------------------------------------------------------------------------
(* What a step leaves as it was.                                           *)

\* Agents, sessions and time only grow, and what was dropped stays so.
Later ==
    /\ UNCHANGED scene
    /\ ever \subseteq ever'
    /\ \A a \in ever : a \notin ledger => a \notin ledger'
    /\ now \in Nat /\ now' \in Nat /\ now <= now'
    /\ taskCounter \in Nat /\ taskCounter' \in Nat /\ taskCounter <= taskCounter'
    /\ Len(sessions) \in Nat /\ Len(sessions') \in Nat /\ Len(sessions) <= Len(sessions')
    /\ \A i \in 1 .. Len(sessions) :
          /\ sessions'[i] = sessions[i]
          /\ GoneFor(sessions[i]) => GoneFor(sessions[i])'

\* No session of task t is opened.
NoneOpened(t) ==
    \A i \in 1 .. Len(sessions') : i > Len(sessions) => sessions'[i].task # t

\* What was true of an answer stays true.
LEMMA AnswerStays ==
  ASSUME Later, NEW k, NEW facts, NEW more, facts \subseteq more,
         AnswerOK(k, facts), NoneOpened(k.about)
  PROVE  AnswerOK(k, more)'
<1>1. k.said = "registered" =>
          /\ k.token \in 1 .. Len(sessions') /\ Reported(k.number, sessions[k.token].key)'
          /\ k.about # 0 => sessions'[k.token].task = k.about
  BY DEF AnswerOK, Later, Reported
<1>2. ASSUME k.said = "no registration", NEW i \in 1 .. Len(sessions'),
             sessions'[i].task = k.about, sessions'[i].process = k.process
      PROVE  GoneFor(sessions[i])'
  <2>1. i \in 1 .. Len(sessions)
    <3> DEFINE m == Len(sessions) n == Len(sessions')
    <3>1. m \in Nat /\ n \in Nat /\ i \in 1 .. n
      BY <1>2 DEF Later
    <3>2. ~ i > m
      BY <1>2 DEF NoneOpened
    <3> HIDE DEF m, n
    <3>3. i \in 1 .. m
      BY <3>1, <3>2
    <3> QED
      BY <3>3 DEF m
  <2> QED
    BY <1>2, <2>1 DEF AnswerOK, Later
<1>3. \A n \in k.siblings : \E a \in ever', b \in ever' :
          a.number = n /\ b.number = k.id /\ a.human = b.human
  BY DEF AnswerOK, Later
<1>4. /\ k.said = "verified" =>
          /\ <<"live", k.id>> \in more
          /\ ~ k.lenient => <<"fresh", k.id>> \in more
      /\ k.said = "fresh" => <<"fresh", k.id>> \in more
      /\ k.said = "proof expired" => <<"stale", k.id>> \in more
      /\ k.said = "has proof" => <<"live", k.id>> \in more
      /\ k.said = "no proof" => <<"gone", k.id>> \in more
      /\ k.said = "not found" /\ ~ k.lenient => <<"gone", k.id>> \in more
  BY DEF AnswerOK
<1> QED
  BY <1>1, <1>2, <1>3, <1>4 DEF AnswerOK

\* What a handler knows where it waits stays true.
LEMMA WaitStays ==
  ASSUME Later, NEW k, NEW facts, NEW more, facts \subseteq more, WaitOK(k, facts)
  PROVE  WaitOK(k, more)'
<1>1. k.pc \in {"reading", "looked-up", "siblings"} =>
        /\ ReadingOK(k, more)'
        /\ k.pc = "looked-up" => k.intent = "lookup" /\ k.need = {}
        /\ k.pc = "siblings" => k.intent = "check-freshness" /\ k.need = {}
  BY DEF WaitOK, ReadingOK, Proved, Later
<1>2. k.pc \in {"status", "status-number", "told"} =>
          /\ k.token \in 1 .. Len(sessions')
          /\ k.about # 0 => TokenOf(k.token, k.process, k.about)'
  BY DEF WaitOK, TokenOf, Later
<1>3. k.pc = "told" /\ k.said = "registered" => Reported(k.number, sessions[k.token].key)'
  BY DEF WaitOK, Reported, Later
<1>8. k.pc = "status-number" => \E a \in ever' : a.key = PolledKey(sessions'[k.token])
  BY DEF WaitOK, Later
<1>4. k.pc = "deregister-address" => k.key = NoKey \/ Was(k.id, k.key)'
  BY DEF WaitOK, Was, Later
<1>5. k.pc \in {"gate", "gate-fresh", "body"} =>
          /\ k.task = 0 /\ k.message \in scene'.messages
          /\ k.message.method = "message/send" /\ k.about # 0 => AsksForStatus(k.message)
          /\ k.message.method \in {"tasks/get", "tasks/cancel"} => k.about # 0
          /\ k.token # NoToken => k.about = 0 /\ k.token \in 1 .. Len(sessions')
  BY DEF WaitOK, Later
<1>7. k.pc = "register" => k.message \in scene'.messages
  BY DEF WaitOK, Later
<1>6. /\ k.pc \in {"gate", "gate-fresh"} => k.caller # 0 /\ k.gated = "no"
      /\ k.pc = "body" => k.task = 0
      /\ k.pc \in {"verify", "verify-fresh", "deregister", "deregister-address"} => k.id # 0
      /\ k.pc = "verify-fresh" => Proved(k, more)
      /\ k.pc \in {"register", "deregister", "deregister-address", "refresh"} => k.task # 0
  BY DEF WaitOK, Proved
<1> QED
  BY <1>1, <1>2, <1>3, <1>4, <1>5, <1>6, <1>7, <1>8 DEF WaitOK, PolledKey

\* So a call that does nothing stays as it should be.
LEMMA CallStays ==
  ASSUME Later, NEW k, NEW facts, NEW more, CallOK(k, facts),
         k.pc = "idle" \/ (facts \subseteq more /\ NoneOpened(k.about))
  PROVE  CallOK(k, more)'
<1>1. /\ DOMAIN k = DOMAIN Idle /\ k.pc \in Waits \cup {"idle", "answered"}
      /\ k.id \in Numbers /\ k.caller \in Numbers
      /\ k.task \in 0 .. taskCounter' /\ k.about \in 0 .. taskCounter'
      /\ k.pc # "idle" => k.process \in Processes
  BY DEF CallOK, Later
<1>2. CASE k.pc = "idle"
  BY <1>1, <1>2 DEF CallOK, WaitOK
<1>3. CASE facts \subseteq more /\ NoneOpened(k.about)
  <2>1. WaitOK(k, more)'
    BY <1>3, WaitStays DEF CallOK
  <2>2. k.pc = "answered" => AnswerOK(k, more)'
    BY <1>3, AnswerStays DEF CallOK
  <2>3. k.pc # "idle" /\ k.gated = "fresh" => <<"fresh", k.caller>> \in more
    BY <1>3 DEF CallOK
  <2> QED
    BY <1>1, <2>1, <2>2, <2>3 DEF CallOK
<1> QED
  BY <1>2, <1>3

-----------------------------------------------------------------------------
(* The registry as it is read.                                             *)

\* An agent with a proof is in the ledger, and was there.
LEMMA AgentIs ==
  ASSUME ChainOK, NEW id, HasHumanProof(id)
  PROVE  /\ \E a \in ever : a.number = id /\ a.key = KeyOf(id) /\ a.human = HumanOf(id)
         /\ KeyOf(id) \in AgentKeySet /\ KeyOf(id) # NoKey
<1> DEFINE a == CHOOSE x \in ledger : x.number = id
<1>1. a \in ledger /\ a.number = id
  BY DEF HasHumanProof
<1>2. KeyOf(id) = a.key /\ HumanOf(id) = a.human
  BY DEF KeyOf, HumanOf
<1> HIDE DEF a
<1> QED
  BY <1>1, <1>2, A2AAssumption DEF ChainOK

\* A key that the registry has an agent for.
LEMMA KeyIs ==
  ASSUME ChainOK, NEW key, IdOf(key) # 0
  PROVE  Was(IdOf(key), key) /\ key \in AgentKeySet /\ key # NoKey
<1> DEFINE a == CHOOSE x \in ledger : x.key = key
<1>1. \E x \in ledger : x.key = key
  BY DEF IdOf
<1>2. a \in ledger /\ a.key = key
  BY <1>1
<1>3. IdOf(key) = a.number
  BY <1>1 DEF IdOf
<1> HIDE DEF a
<1> QED
  BY <1>2, <1>3, A2AAssumption DEF ChainOK, Was

\* No agent, no key.
LEMMA NoAgentIs ==
  ASSUME ChainOK, NEW id
  PROVE  KeyOf(id) = NoKey <=> ~ HasHumanProof(id)
BY AgentIs DEF KeyOf

-----------------------------------------------------------------------------
(* What is observed while a call goes on.                                  *)

\* The facts of an agent depend on the chain only.
LEMMA FactsStay ==
  ASSUME UNCHANGED chainVars, NEW id
  PROVE  FactsOf(id)' = FactsOf(id)
BY DEF FactsOf, HasHumanProof, IsProofFresh, chainVars

\* A call that was at work keeps what it saw, and sees what is.
LEMMA SeenGrows ==
  ASSUME Observe, NEW c \in Calls, call'[c].pc # "idle",
         Runs(call[c]) \/ (call'[c] = call[c] /\ call[c].pc = "answered")
  PROVE  /\ seen[c] \subseteq seen'[c]
         /\ Runs(call[c]) => \A id \in Subjects(call'[c]) : FactsOf(id)' \subseteq seen'[c]
<1>1. CASE call'[c] = call[c] /\ call[c].pc = "answered"
  BY <1>1 DEF Observe, Runs
<1>2. CASE Runs(call[c])
  <2>1. seen'[c] = seen[c] \cup UNION {FactsOf(id)' : id \in Subjects(call'[c])}
    BY <1>2 DEF Observe, Runs, Subjects
  <2> QED
    BY <2>1
<1> QED
  BY <1>1, <1>2

\* A call that begins sees what is.
LEMMA SeenBegins ==
  ASSUME Observe, NEW c \in Calls, Runs(call'[c]), ~ Runs(call[c])
  PROVE  \A id \in Subjects(call'[c]) : FactsOf(id)' \subseteq seen'[c]
<1>1. seen'[c] = UNION {FactsOf(id)' : id \in Subjects(call'[c])}
  BY DEF Observe, Runs, Subjects
<1> QED
  BY <1>1

\* The steps of one call: the others stay as they are, and it knows what it should.
LEMMA CallMoves ==
  ASSUME CallsOK, Observe, Later, UNCHANGED chainVars, NEW c \in Calls, NEW new,
         call' = [call EXCEPT ![c] = new], Runs(call[c]), new.pc # "idle",
         new.id = call[c].id, new.caller = call[c].caller,
         \A facts : seen[c] \subseteq facts => CallOK(new, facts)',
         \A d \in Calls \ {c} : call[d].pc # "idle" => NoneOpened(call[d].about)
  PROVE  CallsOK'
<1>1. /\ DOMAIN call' = Calls /\ call' = [d \in Calls |-> call'[d]]
      /\ call'[c] = new /\ \A d \in Calls \ {c} : call'[d] = call[d]
  BY DEF CallsOK
<1>2. seen[c] \subseteq seen'[c] /\ \A id \in Subjects(new) : FactsOf(id)' \subseteq seen'[c]
  BY <1>1, SeenGrows
<1>3. CallOK(call[c], seen[c])'
  BY <1>1, <1>2
<1>4. ASSUME NEW d \in Calls \ {c}
      PROVE  CallOK(call[d], seen[d])' /\ (Runs(call[d])' => \A id \in Subjects(call'[d]) :
                                                FactsOf(id)' \subseteq seen'[d])
  <2>1. call[d].pc = "idle" \/ seen[d] \subseteq seen'[d]
    BY <1>1, SeenGrows DEF Runs
  <2>2. CallOK(call[d], seen[d])
    BY DEF CallsOK
  <2>3. CallOK(call[d], seen[d])'
    BY <1>1, <2>1, <2>2, CallStays
  <2> QED
    BY <1>1, <2>3, SeenGrows DEF Runs
<1> QED
  BY <1>1, <1>2, <1>3, <1>4 DEF CallsOK

-----------------------------------------------------------------------------
(* Steps that open no session and drop no token.                           *)

\* Nothing that a call's knowledge is about changes.
Same == UNCHANGED <<scene, chainVars, sessions, tokens, dropped>>

\* Where nothing changes that calls know about, time has merely passed.
LEMMA SameIsLater ==
  ASSUME A2AInv, Same, taskCounter' \in Nat, taskCounter <= taskCounter'
  PROVE  /\ Later /\ \A t : NoneOpened(t)
         /\ ChainOK' /\ SceneOK'
<1>1. Len(sessions) \in Nat /\ taskCounter \in Nat /\ now \in Nat
  BY A2AAssumption DEF A2AInv, SessionsOK, StoresOK, ChainOK
<1>2. Later
  BY <1>1 DEF Later, Same, chainVars, GoneFor
<1>3. \A t : NoneOpened(t)
  BY <1>1 DEF NoneOpened, Same
<1>4. ChainOK'
  BY DEF A2AInv, Same, chainVars, ChainOK, HasHumanProof, Registry!LedgerOK
<1> QED
  BY <1>2, <1>3, <1>4 DEF A2AInv, SceneOK, Same

\* The stores, when a task is stored.
LEMMA SameStores ==
  ASSUME A2AInv, Same, taskCounter' \in taskCounter .. MaxTasks,
         tasks' \in [Processes -> [TaskIds -> States]]
  PROVE  StoresOK' /\ SessionsOK'
<1>1. taskCounter \in Nat /\ taskCounter' \in 0 .. MaxTasks /\ MaxTasks \in Nat
  BY A2AAssumption DEF A2AInv, StoresOK
<1>2. StoresOK'
  <2>1. StoresOK /\ UNCHANGED <<sessions, tokens, dropped, ever>>
    BY DEF A2AInv, Same, chainVars
  <2>2. \A p \in Processes, t \in TaskIds :
          tokens'[p][t] # NoToken => TokenOf(tokens[p][t], p, t)'
    BY <2>1 DEF StoresOK, TokenOf
  <2>3. \A i \in 1 .. Len(sessions') :
          \/ tokens'[sessions'[i].process][sessions'[i].task] # NoToken
          \/ GoneFor(sessions[i])'
    BY <2>1 DEF StoresOK, GoneFor
  <2> QED
    BY <1>1, <2>1, <2>2, <2>3 DEF StoresOK
<1>3. \A i \in 1 .. Len(sessions) : SessionOK(sessions[i])'
  BY <1>1 DEF A2AInv, SessionsOK, SessionOK, AboutOK, Same, chainVars, Was
<1>4. SessionsOK'
  BY <1>3 DEF A2AInv, SessionsOK, Same
<1> QED
  BY <1>2, <1>4

\* What is known depends on nothing else.
LEMMA SameKnows ==
  ASSUME Same, NEW k, NEW facts
  PROVE  /\ AnswerOK(k, facts)' <=> AnswerOK(k, facts)
         /\ WaitOK(k, facts)' <=> WaitOK(k, facts)
<1>1. AnswerOK(k, facts)' <=> AnswerOK(k, facts)
  BY DEF AnswerOK, Reported, GoneFor, Same, chainVars
<1>2. ReadingOK(k, facts)' <=> ReadingOK(k, facts)
  BY DEF ReadingOK, Proved, Same, chainVars
<1>3. WaitOK(k, facts)' <=> WaitOK(k, facts)
  BY <1>2 DEF WaitOK, Proved, Was, Reported, PolledKey, TokenOf, Same, chainVars
<1> QED
  BY <1>1, <1>3

\* A step of one call that leaves all else but its own task, or takes a new one.
LEMMA QuietMoves ==
  ASSUME A2AInv, Same, Observe, NEW c \in Calls, NEW new,
         call' = [call EXCEPT ![c] = new], Runs(call[c]), new.pc # "idle",
         new.id = call[c].id, new.caller = call[c].caller, new.about = call[c].about,
         \/ taskCounter' = taskCounter
         \/ taskCounter < MaxTasks /\ taskCounter' = taskCounter + 1,
         Runs(new) => new.task = call[c].task \/ new.task = taskCounter + 1,
         tasks' \in [Processes -> [TaskIds -> States]],
         \A facts : seen[c] \subseteq facts => CallOK(new, facts)'
  PROVE  A2AInv'
<1>1. /\ taskCounter \in Nat /\ MaxTasks \in Nat /\ taskCounter' \in Nat
      /\ taskCounter' \in taskCounter .. MaxTasks /\ taskCounter <= taskCounter'
  BY A2AAssumption DEF A2AInv, StoresOK
<1>2. /\ Later /\ \A t : NoneOpened(t)
      /\ ChainOK' /\ SceneOK' /\ StoresOK' /\ SessionsOK'
  BY <1>1, SameIsLater, SameStores
<1>3. CallsOK'
  BY <1>2, CallMoves DEF A2AInv, Same
<1>4. TasksOK'
  <2>1. call'[c] = new /\ \A d \in Calls \ {c} : call'[d] = call[d]
    BY DEF A2AInv, CallsOK
  <2>2. CASE Runs(new) /\ new.task # call[c].task
    <3>1. \A d \in Calls : call[d].task <= taskCounter /\ call[d].about <= taskCounter
      <4>1. \A d \in Calls : call[d].task \in 0 .. taskCounter /\ call[d].about \in 0 .. taskCounter
        BY DEF A2AInv, CallsOK, CallOK
      <4> QED
        BY <1>1, <4>1
    <3>2. \A i \in 1 .. Len(sessions) : sessions[i].task <= taskCounter
      BY <1>1 DEF A2AInv, SessionsOK, SessionOK
    <3>3. /\ new.task = taskCounter + 1 /\ taskCounter + 1 # 0
          /\ \A d \in Calls : call[d].task # taskCounter + 1 /\ call[d].about # taskCounter + 1
          /\ \A i \in 1 .. Len(sessions) : sessions[i].task # taskCounter + 1
      BY <1>1, <2>2, <3>1, <3>2
    <3>4. ASSUME NEW b \in Calls, Runs(call'[b]), call'[b].task # 0
          PROVE  /\ \A d \in Calls \ {b} : Runs(call'[d]) => call'[d].task # call'[b].task
                 /\ \A d \in Calls : call'[d].pc # "idle" => call'[d].about # call'[b].task
                 /\ \A i \in 1 .. Len(sessions) : sessions[i].task # call'[b].task
      <4>1. CASE b = c
        BY <2>1, <3>3, <4>1
      <4>2. CASE b # c
        <5>1. Runs(call[b]) /\ call[b].task # 0 /\ call'[b] = call[b]
          BY <2>1, <3>4, <4>2
        <5> QED
          BY <2>1, <3>3, <4>2, <5>1 DEF A2AInv, TasksOK, Runs
      <4> QED
        BY <4>1, <4>2
    <3> QED
      BY <3>4 DEF TasksOK, Runs, Same
  <2>3. CASE Runs(new) => new.task = call[c].task
    <3>4. ASSUME NEW b \in Calls, Runs(call'[b]), call'[b].task # 0
          PROVE  /\ \A d \in Calls \ {b} : Runs(call'[d]) => call'[d].task # call'[b].task
                 /\ \A d \in Calls : call'[d].pc # "idle" => call'[d].about # call'[b].task
                 /\ \A i \in 1 .. Len(sessions) : sessions[i].task # call'[b].task
      <4>1. Runs(call[b]) /\ call[b].task # 0 /\ call'[b].task = call[b].task
        BY <2>1, <2>3, <3>4
      <4>2. \A d \in Calls : /\ Runs(call'[d]) => Runs(call[d]) /\ call'[d].task = call[d].task
                             /\ call'[d].pc # "idle" => call[d].pc # "idle" /\ call'[d].about = call[d].about
        BY <2>1, <2>3 DEF Runs
      <4> QED
        BY <4>1, <4>2 DEF A2AInv, TasksOK
    <3> QED
      BY <3>4 DEF TasksOK, Runs, Same
  <2> QED
    BY <2>2, <2>3
<1> QED
  BY <1>2, <1>3, <1>4 DEF A2AInv

\* Answers that claim nothing.
Claims == {"verified", "fresh", "proof expired", "has proof", "no proof", "not found",
           "registered", "no registration"}

\* A call that ends, with a task of its own or none.
EndedAs(c, said, task) == [Ended(c, said) EXCEPT !.task = task]

\* What becomes of call k when it ends.
EndOf(k, said, task, new) ==
    /\ DOMAIN new = DOMAIN Idle /\ new.pc = "answered" /\ new.process = k.process
    /\ new.caller = k.caller /\ new.id = k.id /\ new.about = k.about /\ new.gated = k.gated
    /\ new.said = said /\ ~ new.lenient /\ new.siblings = {} /\ new.task \in {Idle.task, task}

\* A call that ends is left with what it says, and perhaps its task.
LEMMA EndedShape ==
  ASSUME NEW c \in Calls, NEW said, NEW task,
         NEW new, new = Ended(c, said) \/ new = EndedAs(c, said, task)
  PROVE  EndOf(call[c], said, task, new)
<1> DEFINE e == Ended(c, said)
<1>1. /\ DOMAIN e = DOMAIN Idle /\ e.pc = "answered" /\ e.process = call[c].process
      /\ e.caller = call[c].caller /\ e.id = call[c].id /\ e.about = call[c].about
      /\ e.gated = call[c].gated /\ e.said = said /\ ~ e.lenient /\ e.siblings = {}
      /\ e.task = Idle.task
  BY DEF Ended, Idle, At
<1> HIDE DEF e
<1>2. DOMAIN Idle = DOMAIN e /\ "task" \in DOMAIN Idle
  BY <1>1 DEF Idle
<1>3. CASE new = e
  BY <1>1, <1>3 DEF EndOf
<1>4. CASE new = [e EXCEPT !.task = task]
  BY <1>1, <1>2, <1>4 DEF EndOf
<1> QED
  BY <1>3, <1>4 DEF EndedAs, e

\* The task of a call that ends.
TaskOrNew(task) ==
    /\ taskCounter \in Nat /\ MaxTasks \in Nat
    /\ \/ taskCounter' = taskCounter /\ task \in 0 .. taskCounter
       \/ /\ taskCounter < MaxTasks /\ taskCounter' = taskCounter + 1
          /\ task \in 0 .. taskCounter + 1

\* Any call may be left without a task.
LEMMA NoTaskToo ==
  ASSUME NEW task, TaskOrNew(task)
  PROVE  TaskOrNew(0)
<1>1. taskCounter \in Nat
  BY DEF TaskOrNew
<1>2. 0 \in 0 .. taskCounter /\ 0 \in 0 .. taskCounter + 1
  BY <1>1
<1> QED
  BY <1>2 DEF TaskOrNew

\* An answered call is as it should be when what it says is.
LEMMA AnswersWell ==
  ASSUME A2AInv, Same, Observe, NEW c \in Calls, Runs(call[c]), NEW new,
         call' = [call EXCEPT ![c] = new],
         DOMAIN new = DOMAIN Idle, new.pc = "answered", new.process = call[c].process,
         new.caller = call[c].caller, new.id = call[c].id, new.about = call[c].about,
         new.gated = call[c].gated, TaskOrNew(new.task),
         tasks' \in [Processes -> [TaskIds -> States]],
         \A facts : seen[c] \subseteq facts => AnswerOK(new, facts)
  PROVE  A2AInv'
<1>1. CallOK(call[c], seen[c]) /\ call[c].pc # "idle" /\ ~ Runs(new)
  BY DEF A2AInv, CallsOK, Runs
<1>2. new.task \in 0 .. taskCounter' /\ new.about \in 0 .. taskCounter'
  BY <1>1 DEF TaskOrNew, CallOK
<1>3. ASSUME NEW facts, seen[c] \subseteq facts
      PROVE  CallOK(new, facts)'
  <2>1. WaitOK(new, facts)'
    BY DEF WaitOK
  <2>2. AnswerOK(new, facts)'
    BY <1>3, SameKnows
  <2> QED
    BY <1>1, <1>2, <1>3, <2>1, <2>2 DEF CallOK
<1> QED
  BY <1>1, <1>3, QuietMoves DEF TaskOrNew

\* A call that ends and claims nothing.
LEMMA EndsQuietly ==
  ASSUME A2AInv, Same, Observe, NEW c \in Calls, Runs(call[c]),
         NEW said, said \notin Claims, NEW task, TaskOrNew(task),
         NEW new, new = Ended(c, said) \/ new = EndedAs(c, said, task),
         call' = [call EXCEPT ![c] = new],
         tasks' \in [Processes -> [TaskIds -> States]]
  PROVE  A2AInv'
<1>1. /\ DOMAIN new = DOMAIN Idle /\ new.pc = "answered" /\ new.process = call[c].process
      /\ new.caller = call[c].caller /\ new.id = call[c].id /\ new.about = call[c].about
      /\ new.gated = call[c].gated /\ new.said = said /\ new.siblings = {}
      /\ new.task \in {Idle.task, task}
  <2>1. EndOf(call[c], said, task, new)
    BY EndedShape
  <2> QED
    BY <2>1 DEF EndOf
<1>2. \A facts : AnswerOK(new, facts)
  BY <1>1 DEF AnswerOK, Claims
<1>3. TaskOrNew(new.task)
  BY <1>1 DEF TaskOrNew, Idle
<1> QED
  BY <1>1, <1>2, <1>3, AnswersWell

\* A task is stored.
LEMMA TaskStored ==
  ASSUME A2AInv, NEW c \in Calls, Runs(call[c]), NEW t, NEW state, state \in States,
         tasks' = [tasks EXCEPT ![At(c)][t] = state]
  PROVE  tasks' \in [Processes -> [TaskIds -> States]]
<1>1. tasks \in [Processes -> [TaskIds -> States]]
  BY DEF A2AInv, StoresOK
<1> QED
  BY <1>1

\* A task is stored with an answer that claims nothing.
LEMMA StoreQuietly ==
  ASSUME A2AInv, Same, Observe, NEW c \in Calls, Runs(call[c]),
         NEW task, TaskOrNew(task), NEW state, state \in States,
         NEW said, said \notin Claims, Store(c, task, state, said)
  PROVE  A2AInv'
<1>1. tasks' \in [Processes -> [TaskIds -> States]]
  BY TaskStored DEF Store
<1>2. call' = [call EXCEPT ![c] = EndedAs(c, said, task)]
  BY DEF Store, EndedAs
<1> QED
  BY <1>1, <1>2, EndsQuietly

\* A reply that claims nothing.
LEMMA ReplyQuietly ==
  ASSUME A2AInv, UNCHANGED <<scene, chainVars, sessions, dropped>>, Observe,
         NEW c \in Calls, Runs(call[c]), NEW said, said \notin Claims, Reply(c, said)
  PROVE  A2AInv'
<1>1. Same /\ tasks' = tasks /\ call' = [call EXCEPT ![c] = Ended(c, said)]
  BY DEF Reply, Same, storeVars
<1>2. TaskOrNew(0) /\ tasks' \in [Processes -> [TaskIds -> States]]
  BY <1>1, A2AAssumption DEF A2AInv, StoresOK, TaskOrNew, Reply
<1> QED
  BY <1>1, <1>2, EndsQuietly

-----------------------------------------------------------------------------
(* The gate and the methods of the server.                                 *)

\* A call at work: what its invariant gives.
LEMMA AtWork ==
  ASSUME A2AInv, NEW c \in Calls, Runs(call[c])
  PROVE  /\ CallOK(call[c], seen[c]) /\ DOMAIN call[c] = DOMAIN Idle
         /\ WaitOK(call[c], seen[c]) /\ At(c) \in Processes /\ call[c].process \in Processes
         /\ call[c].id \in Numbers /\ call[c].caller \in Numbers
         /\ taskCounter \in Nat /\ MaxTasks \in Nat /\ taskCounter <= MaxTasks
         /\ call[c].task \in 0 .. taskCounter /\ call[c].about \in 0 .. taskCounter
         /\ \A id \in Subjects(call[c]) : FactsOf(id) \subseteq seen[c]
         /\ call[c].gated = "fresh" => <<"fresh", call[c].caller>> \in seen[c]
<1>1. CallOK(call[c], seen[c]) /\ call[c].pc # "idle"
  BY DEF A2AInv, CallsOK, Runs
<1>2. taskCounter \in Nat /\ MaxTasks \in Nat /\ taskCounter <= MaxTasks
  BY A2AAssumption DEF A2AInv, StoresOK
<1>3. \A id \in Subjects(call[c]) : FactsOf(id) \subseteq seen[c]
  BY DEF A2AInv, CallsOK
<1> QED
  BY <1>1, <1>2, <1>3 DEF CallOK, At

\* An agent of a call that has a proof now was seen with one, and so on.
LEMMA EverSeenNow ==
  ASSUME A2AInv, NEW c \in Calls, Runs(call[c]), NEW id, id # 0,
         id = call[c].id \/ id = call[c].caller
  PROVE  /\ HasHumanProof(id) => <<"live", id>> \in seen[c]
         /\ ~ HasHumanProof(id) => <<"gone", id>> \in seen[c]
         /\ IsProofFresh(id) => <<"fresh", id>> \in seen[c]
         /\ ~ IsProofFresh(id) => <<"stale", id>> \in seen[c]
<1>1. FactsOf(id) \subseteq seen[c]
  BY AtWork DEF Subjects
<1> QED
  BY <1>1 DEF FactsOf

\* A handler goes on to wait elsewhere.
LEMMA GoesOn ==
  ASSUME A2AInv, Same, UNCHANGED <<taskCounter, tasks>>, Observe,
         NEW c \in Calls, Runs(call[c]), NEW new, call' = [call EXCEPT ![c] = new],
         DOMAIN new = DOMAIN Idle, new.pc \in Waits, new.process = call[c].process,
         new.id = call[c].id, new.caller = call[c].caller, new.about = call[c].about,
         new.task = call[c].task,
         new.gated = call[c].gated \/ <<"fresh", call[c].caller>> \in seen[c]
           \/ new.gated # "fresh",
         \A facts : seen[c] \subseteq facts => WaitOK(new, facts)
  PROVE  A2AInv'
<1>1. CallOK(call[c], seen[c]) /\ call[c].pc # "idle"
  BY AtWork DEF Runs
<1>2. tasks' \in [Processes -> [TaskIds -> States]] /\ taskCounter' = taskCounter
  BY DEF A2AInv, StoresOK
<1>3. new.pc \notin {"idle", "answered"}
  BY DEF Waits
<1>4. ASSUME NEW facts, seen[c] \subseteq facts
      PROVE  CallOK(new, facts)'
  <2>1. WaitOK(new, facts)'
    BY <1>4, SameKnows
  <2> QED
    BY <1>1, <1>2, <1>3, <1>4, <2>1 DEF CallOK
<1> QED
  BY <1>2, <1>3, <1>4, QuietMoves

\* X-Agent-Id: a caller that is let in as fresh was seen so.
LEMMA GateStep ==
  ASSUME A2AInv, UNCHANGED <<scene, chainVars, historyVars>>, Observe,
         NEW c \in Calls, Gate(c)
  PROVE  A2AInv'
<1>1. Runs(call[c])
  BY DEF Gate, Runs
<1>2. /\ DOMAIN call[c] = DOMAIN Idle /\ WaitOK(call[c], seen[c])
      /\ "pc" \in DOMAIN Idle /\ "gated" \in DOMAIN Idle
  <2>1. DOMAIN call[c] = DOMAIN Idle /\ WaitOK(call[c], seen[c])
    BY <1>1, AtWork
  <2>2. "pc" \in DOMAIN Idle /\ "gated" \in DOMAIN Idle
    BY DEF Idle
  <2> QED
    BY <2>1, <2>2
<1>3. UNCHANGED <<scene, chainVars, sessions, dropped>>
  BY DEF Gate, Enter, historyVars
<1>4. CASE Reply(c, "refused")
  BY <1>1, <1>3, <1>4, ReplyQuietly DEF Claims
<1>5. CASE call[c].pc = "gate" /\ Go(c, "gate-fresh") /\ UNCHANGED <<storeVars, taskCounter>>
  <2> DEFINE new == [call[c] EXCEPT !.pc = "gate-fresh"]
  <2>1. call' = [call EXCEPT ![c] = new] /\ Same /\ UNCHANGED <<taskCounter, tasks>>
    BY <1>3, <1>5 DEF Go, Same, storeVars
  <2>2. /\ DOMAIN new = DOMAIN Idle /\ new.pc = "gate-fresh" /\ new.process = call[c].process
        /\ new.id = call[c].id /\ new.caller = call[c].caller /\ new.about = call[c].about
        /\ new.task = call[c].task /\ new.gated = call[c].gated /\ new.token = call[c].token
        /\ new.message = call[c].message
    BY <1>2
  <2> HIDE DEF new
  <2>3. \A facts : WaitOK(new, facts)
    BY <1>2, <1>5, <2>2 DEF WaitOK
  <2> QED
    BY <1>1, <2>1, <2>2, <2>3, GoesOn DEF Waits
<1>6. CASE /\ call[c].pc = "gate-fresh" /\ Enter(c)
           /\ call' = [call EXCEPT ![c].pc = "body",
                         ![c].gated = IF IsProofFresh(call[c].caller) THEN "fresh" ELSE "unread"]
  <2> DEFINE new == [call[c] EXCEPT !.pc = "body",
                       !.gated = IF IsProofFresh(call[c].caller) THEN "fresh" ELSE "unread"]
  <2>1. call' = [call EXCEPT ![c] = new] /\ Same /\ UNCHANGED <<taskCounter, tasks>>
    <3>1. call' = [call EXCEPT ![c] = new]
      BY <1>2, <1>6 DEF A2AInv, CallsOK
    <3> QED
      BY <1>3, <1>6, <3>1 DEF Enter, Same, storeVars
  <2>2. /\ DOMAIN new = DOMAIN Idle /\ new.pc = "body" /\ new.process = call[c].process
        /\ new.id = call[c].id /\ new.caller = call[c].caller /\ new.about = call[c].about
        /\ new.task = call[c].task /\ new.token = call[c].token
        /\ new.message = call[c].message
        /\ new.gated = IF IsProofFresh(call[c].caller) THEN "fresh" ELSE "unread"
    BY <1>2
  <2> HIDE DEF new
  <2>3. \A facts : WaitOK(new, facts)
    BY <1>2, <1>6, <2>2 DEF WaitOK
  <2>4. new.gated # "fresh" \/ <<"fresh", call[c].caller>> \in seen[c]
    <3>1. call[c].caller # 0
      BY <1>2, <1>6 DEF WaitOK
    <3> QED
      BY <1>1, <2>2, <3>1, EverSeenNow
  <2> QED
    BY <1>1, <2>1, <2>2, <2>3, <2>4, GoesOn DEF Waits
<1> QED
  BY <1>4, <1>5, <1>6 DEF Gate

\* tasks/get and tasks/cancel.
LEMMA TaskMethods ==
  ASSUME A2AInv, UNCHANGED <<scene, chainVars, historyVars, sessions>>, Observe,
         NEW c \in Calls, call[c].pc = "body",
         \/ call[c].message.method = "tasks/get" /\ GetTask(c)
         \/ call[c].message.method = "tasks/cancel" /\ CancelTask(c)
  PROVE  A2AInv'
<1> DEFINE state == tasks[At(c)][call[c].about]
<1>1. Runs(call[c])
  BY DEF Runs
<1>2. state \in States
  <2>1. /\ WaitOK(call[c], seen[c]) /\ call[c].about \in 0 .. taskCounter
        /\ taskCounter \in Nat /\ MaxTasks \in Nat /\ taskCounter <= MaxTasks
    BY <1>1, AtWork
  <2>3. call[c].about # 0
    BY <2>1 DEF WaitOK
  <2>2. call[c].about \in TaskIds
    BY <2>1, <2>3
  <2> QED
    BY <1>1, <2>2, AtWork DEF A2AInv, StoresOK
<1> HIDE DEF state
<1>3. UNCHANGED <<scene, chainVars, sessions, dropped>>
  BY DEF historyVars
<1>4. CASE GetTask(c)
  <2>1. Reply(c, IF state = "none" THEN "TASK_NOT_FOUND" ELSE state)
    BY <1>4 DEF GetTask, state
  <2>2. (IF state = "none" THEN "TASK_NOT_FOUND" ELSE state) \notin Claims
    BY <1>2 DEF States, Claims
  <2> QED
    BY <1>1, <1>3, <2>1, <2>2, ReplyQuietly
<1>5. CASE CancelTask(c)
  <2>1. CASE Reply(c, "TASK_NOT_FOUND") \/ Reply(c, "TASK_NOT_CANCELABLE")
    BY <1>1, <1>3, <2>1, ReplyQuietly DEF Claims
  <2>2. CASE /\ tasks' = [tasks EXCEPT ![At(c)][call[c].about] = "canceled"]
             /\ call' = [call EXCEPT ![c] = Ended(c, "canceled")]
             /\ UNCHANGED <<tokens, pushes, taskCounter>>
    <3>1. tasks' \in [Processes -> [TaskIds -> States]]
      BY <1>1, <2>2, TaskStored DEF States
    <3>2. TaskOrNew(0) /\ Same
      <4>1. taskCounter \in Nat /\ MaxTasks \in Nat
        BY <1>1, AtWork
      <4>2. 0 \in 0 .. taskCounter
        BY <4>1
      <4> QED
        BY <1>3, <2>2, <4>1, <4>2 DEF TaskOrNew, Same
    <3> QED
      BY <1>1, <2>2, <3>1, <3>2, EndsQuietly DEF Claims
  <2> QED
    BY <1>5, <2>1, <2>2 DEF CancelTask
<1> QED
  BY <1>4, <1>5

-----------------------------------------------------------------------------
(* What a message is taken to ask.                                         *)

Intents == {"register", "register-poll", "register-status", "lookup", "verify", "deregister",
            "check-freshness", "refresh-proof", "register-ask", "help", "unknown"}

\* What a text is taken for: always for something.
TextOf(m) == FirstOf(TextIntents, LAMBDA intent : Asks(m.words, m.near, intent))

\* A text is taken for one of the nine things that can be asked.
LEMMA TextAsks ==
  ASSUME NEW m
  PROVE  TextOf(m) \in {"deregister", "register", "status", "refresh-proof", "check-freshness",
                 "lookup", "verify", "help", "unknown"}
<1> DEFINE test(i) == Asks(m.words, m.near, TextIntents[i])
           first(i) == test(i) /\ \A j \in 1 .. i - 1 : ~ test(j)
<1>1. Len(TextIntents) = 9
  BY DEF TextIntents
<1>2. test(9)
  <2>1. TextIntents[9] = "unknown"
    BY DEF TextIntents
  <2>2. Asks(m.words, m.near, "unknown")
    BY DEF Asks
  <2> QED
    BY <2>1, <2>2
<1> HIDE DEF test
<1>3. \E i \in 1 .. 9 : first(i)
  <2>1. CASE test(1)
    BY <2>1
  <2>2. CASE ~ test(1) /\ test(2)
    BY <2>2
  <2>3. CASE ~ test(1) /\ ~ test(2) /\ test(3)
    BY <2>3
  <2>4. CASE ~ test(1) /\ ~ test(2) /\ ~ test(3) /\ test(4)
    BY <2>4
  <2>5. CASE ~ test(1) /\ ~ test(2) /\ ~ test(3) /\ ~ test(4) /\ test(5)
    BY <2>5
  <2>6. CASE ~ test(1) /\ ~ test(2) /\ ~ test(3) /\ ~ test(4) /\ ~ test(5) /\ test(6)
    BY <2>6
  <2>7. CASE /\ ~ test(1) /\ ~ test(2) /\ ~ test(3) /\ ~ test(4) /\ ~ test(5) /\ ~ test(6)
             /\ test(7)
    BY <2>7
  <2>8. CASE /\ ~ test(1) /\ ~ test(2) /\ ~ test(3) /\ ~ test(4) /\ ~ test(5) /\ ~ test(6)
             /\ ~ test(7) /\ test(8)
    BY <2>8
  <2>9. CASE /\ ~ test(1) /\ ~ test(2) /\ ~ test(3) /\ ~ test(4) /\ ~ test(5) /\ ~ test(6)
             /\ ~ test(7) /\ ~ test(8)
    BY <1>2, <2>9
  <2> QED
    BY <2>1, <2>2, <2>3, <2>4, <2>5, <2>6, <2>7, <2>8, <2>9
<1> DEFINE chosen == CHOOSE i \in 1 .. 9 : first(i)
<1>4. chosen \in 1 .. 9
  BY <1>3
<1> HIDE DEF first
<1>5. TextOf(m) = TextIntents[chosen]
  BY <1>1 DEF TextOf, FirstOf, first, test
<1> HIDE DEF chosen
<1> QED
  BY <1>4, <1>5 DEF TextIntents

\* A message about a session has one.
LEMMA IntentIs ==
  ASSUME NEW m, NEW about, NEW token
  PROVE  /\ ParseIntent(m, about, token) \in Intents
         /\ ParseIntent(m, about, token) = "register-poll" => about # 0
         /\ ParseIntent(m, about, token) = "register-status" => token # NoToken
<1> DEFINE named == {i \in 1 .. Len(StructuredIntents) : m.intent \in StructuredIntents[i][2]}
           text == TextOf(m)
           intent == StructuredIntents[CHOOSE i \in named : TRUE][1]
<1>1. text \in {"deregister", "register", "status", "refresh-proof", "check-freshness",
                "lookup", "verify", "help", "unknown"}
  BY TextAsks
<1>2. named # {} => intent \in {"register", "register-poll", "lookup", "verify", "deregister",
                                "check-freshness", "refresh-proof"}
  <2> DEFINE i == CHOOSE i \in named : TRUE
  <2>1. named # {} => i \in 1 .. Len(StructuredIntents)
    OBVIOUS
  <2>2. Len(StructuredIntents) = 7
    BY DEF StructuredIntents
  <2> HIDE DEF i
  <2>3. i \in 1 .. 7 => StructuredIntents[i][1] \in
           {"register", "register-poll", "lookup", "verify", "deregister", "check-freshness",
            "refresh-proof"}
    BY DEF StructuredIntents
  <2> QED
    BY <2>1, <2>2, <2>3 DEF i
<1> HIDE DEF named, text, intent
<1>3. ParseIntent(m, about, token) =
        IF named # {}
        THEN IF intent # "register-poll" \/ about # 0 THEN intent
             ELSE IF token # NoToken THEN "register-status"
             ELSE "unknown"
        ELSE IF text = "register" /\ m.words \cap ModeWords = {} /\ m.human = NoHuman
             THEN "register-ask"
             ELSE IF text = "status" THEN "unknown"
             ELSE text
  BY DEF ParseIntent, TextOf, named, text, intent
<1> QED
  BY <1>1, <1>2, <1>3 DEF Intents

\* What a handler starts with.
StartOf(k, pc, task, new) ==
    /\ DOMAIN new = DOMAIN Idle /\ new.pc = pc /\ new.process = k.process
    /\ new.id = k.id /\ new.caller = k.caller /\ new.about = k.about /\ new.gated = k.gated
    /\ new.intent = pc /\ new.task = task /\ new.token = k.token /\ new.need = k.need
    /\ pc = "register" => new.message = k.message

\* A handler starts under the next number of a task.
LEMMA StartShape ==
  ASSUME NEW c \in Calls, DOMAIN call[c] = DOMAIN Idle, NEW pc
  PROVE  StartOf(call[c], pc, taskCounter + 1, Started(c, pc))
<1>1. {"pc", "process", "id", "caller", "about", "gated", "intent", "task", "token", "context",
       "message", "need"} \subseteq DOMAIN call[c]
  BY DEF Idle
<1> QED
  BY <1>1 DEF StartOf, Started

\* A task may be stored that is new.
LEMMA NewTask ==
  ASSUME A2AInv, taskCounter < MaxTasks, taskCounter' = taskCounter + 1
  PROVE  /\ TaskOrNew(taskCounter + 1) /\ taskCounter \in Nat /\ MaxTasks \in Nat
         /\ taskCounter + 1 \in 0 .. taskCounter' /\ taskCounter + 1 # 0
<1>1. taskCounter \in Nat /\ MaxTasks \in Nat
  BY A2AAssumption DEF A2AInv, StoresOK
<1> QED
  BY <1>1 DEF TaskOrNew

\* The handlers that a message starts, and where each waits.
LEMMA FirstStepWaits ==
  ASSUME A2AInv, NEW c \in Calls, call[c].pc = "body",
         call[c].message.method = "message/send",
         NEW intent, intent = ParseIntent(call[c].message, call[c].about, call[c].token),
         Answered(intent) = "none", ~ NumberWanted(c, intent), ~ SessionWanted(c, intent),
         taskCounter + 1 # 0,
         NEW new, new = FirstStep(c, intent)
  PROVE  /\ DOMAIN new = DOMAIN Idle /\ new.pc \in Waits /\ new.process = call[c].process
         /\ new.id = call[c].id /\ new.caller = call[c].caller /\ new.about = call[c].about
         /\ new.gated = call[c].gated /\ new.task = taskCounter + 1
         /\ \A facts : WaitOK(new, facts)
<1>1. /\ DOMAIN call[c] = DOMAIN Idle /\ WaitOK(call[c], seen[c])
      /\ call[c].process \in Processes /\ call[c].about \in 0 .. taskCounter
      /\ taskCounter \in Nat /\ MaxTasks \in Nat /\ taskCounter <= MaxTasks /\ At(c) = call[c].process
  BY AtWork DEF Runs, At
<1>2. /\ intent \in Intents
      /\ intent = "register-poll" => call[c].about # 0
      /\ intent = "register-status" => call[c].token # NoToken
  BY IntentIs
<1>3. intent \in {"register", "register-poll", "register-status", "lookup", "verify",
                  "deregister", "check-freshness", "refresh-proof"}
  BY <1>2 DEF Intents, Answered
<1>4. CASE intent \in {"register", "verify", "deregister", "refresh-proof"}
  <2> DEFINE pc == IF intent = "refresh-proof" THEN "refresh" ELSE intent
  <2>1. new = Started(c, pc)
    BY <1>4 DEF FirstStep
  <2>2. pc \in {"register", "verify", "deregister", "refresh"}
    BY <1>4
  <2>3. pc \in {"verify", "deregister"} => call[c].id # 0
    BY <1>4 DEF NumberWanted
  <2> HIDE DEF pc
  <2>4. StartOf(call[c], pc, taskCounter + 1, new)
    BY <1>1, <2>1, StartShape
  <2>5. /\ DOMAIN new = DOMAIN Idle /\ new.pc = pc /\ new.process = call[c].process
        /\ new.id = call[c].id /\ new.caller = call[c].caller /\ new.about = call[c].about
        /\ new.gated = call[c].gated /\ new.task = taskCounter + 1
        /\ pc = "register" => new.message = call[c].message
    BY <2>4 DEF StartOf
  <2>8. call[c].message \in scene.messages
    BY <1>1 DEF WaitOK
  <2>6. \A facts : WaitOK(new, facts)
    BY <2>2, <2>3, <2>5, <2>8 DEF WaitOK
  <2>7. new.pc \in Waits
    BY <2>2, <2>5 DEF Waits
  <2> QED
    BY <2>5, <2>6, <2>7
<1>5. CASE intent = "register-status"
  <2>1. new = Started(c, "status")
    BY <1>5 DEF FirstStep
  <2>2. StartOf(call[c], "status", taskCounter + 1, new)
    BY <1>1, <2>1, StartShape
  <2>3. /\ DOMAIN new = DOMAIN Idle /\ new.pc = "status" /\ new.process = call[c].process
        /\ new.id = call[c].id /\ new.caller = call[c].caller /\ new.about = call[c].about
        /\ new.gated = call[c].gated /\ new.task = taskCounter + 1 /\ new.token = call[c].token
    BY <2>2 DEF StartOf
  <2>4. call[c].about = 0 /\ call[c].token \in 1 .. Len(sessions)
    BY <1>1, <1>2, <1>5 DEF WaitOK
  <2>5. \A facts : WaitOK(new, facts)
    BY <2>3, <2>4 DEF WaitOK
  <2> QED
    BY <2>3, <2>5 DEF Waits
<1>6. CASE intent = "register-poll"
  <2> DEFINE token == tokens[At(c)][call[c].about]
             start == Started(c, "status")
  <2>1. new = [start EXCEPT !.token = token]
    BY <1>6 DEF FirstStep
  <2>2. StartOf(call[c], "status", taskCounter + 1, start)
    BY <1>1, StartShape
  <2>3. TokenOf(token, call[c].process, call[c].about) /\ call[c].about # 0
    <3>1. token # NoToken /\ call[c].about # 0
      BY <1>2, <1>6 DEF SessionWanted
    <3>2. call[c].about \in TaskIds
      BY <1>1, <3>1
    <3> QED
      BY <1>1, <3>1, <3>2 DEF A2AInv, StoresOK
  <2> HIDE DEF token, start
  <2>4. /\ DOMAIN start = DOMAIN Idle /\ start.pc = "status" /\ start.process = call[c].process
        /\ start.id = call[c].id /\ start.caller = call[c].caller
        /\ start.about = call[c].about
        /\ start.gated = call[c].gated /\ start.task = taskCounter + 1
    BY <2>2 DEF StartOf
  <2>5. "token" \in DOMAIN Idle
    BY DEF Idle
  <2>6. /\ DOMAIN new = DOMAIN Idle /\ new.pc = "status" /\ new.process = call[c].process
        /\ new.id = call[c].id /\ new.caller = call[c].caller /\ new.about = call[c].about
        /\ new.gated = call[c].gated /\ new.task = taskCounter + 1 /\ new.token = token
    BY <2>1, <2>4, <2>5
  <2>7. \A facts : WaitOK(new, facts)
    BY <2>3, <2>6 DEF WaitOK, TokenOf
  <2> QED
    BY <2>6, <2>7 DEF Waits
<1>7. CASE intent \in {"lookup", "check-freshness"}
  <2> DEFINE need == IF intent = "lookup" THEN {"key", "proof"}
                     ELSE {"proof", "expiry", "nullifier"}
             start == Started(c, intent)
  <2>1. new = [start EXCEPT !.pc = "reading", !.need = need]
    BY <1>7 DEF FirstStep
  <2>2. StartOf(call[c], intent, taskCounter + 1, start)
    BY <1>1, StartShape
  <2>3. /\ need \subseteq {"key", "proof", "expiry", "nullifier"} /\ "proof" \in need
        /\ intent = "lookup" => "key" \in need
        /\ intent = "check-freshness" => "expiry" \in need /\ "nullifier" \in need
    OBVIOUS
  <2>4. call[c].id # 0
    BY <1>7 DEF NumberWanted
  <2> HIDE DEF need, start
  <2>5. /\ DOMAIN start = DOMAIN Idle /\ start.process = call[c].process
        /\ start.id = call[c].id /\ start.caller = call[c].caller
        /\ start.about = call[c].about /\ start.intent = intent
        /\ start.gated = call[c].gated /\ start.task = taskCounter + 1
    BY <2>2 DEF StartOf
  <2>6. "pc" \in DOMAIN Idle /\ "need" \in DOMAIN Idle
    BY DEF Idle
  <2>7. /\ DOMAIN new = DOMAIN Idle /\ new.pc = "reading" /\ new.process = call[c].process
        /\ new.id = call[c].id /\ new.caller = call[c].caller /\ new.about = call[c].about
        /\ new.gated = call[c].gated /\ new.task = taskCounter + 1 /\ new.intent = intent
        /\ new.need = need
    BY <2>1, <2>5, <2>6
  <2>8. \A facts : ReadingOK(new, facts)
    BY <1>7, <2>3, <2>4, <2>7 DEF ReadingOK
  <2>9. \A facts : WaitOK(new, facts)
    BY <2>7, <2>8 DEF WaitOK
  <2> QED
    BY <2>7, <2>9 DEF Waits
<1> QED
  BY <1>3, <1>4, <1>5, <1>6, <1>7

\* A poll that finds no token: whatever session its task opened here is gone.
LEMMA NoTokenAnswers ==
  ASSUME A2AInv, Same, Observe, NEW c \in Calls, call[c].pc = "body",
         NEW intent, SessionWanted(c, intent),
         NEW task, TaskOrNew(task), Store(c, task, "failed", "no registration")
  PROVE  A2AInv'
<1> DEFINE new == EndedAs(c, "no registration", task)
<1>1. Runs(call[c])
  BY DEF Runs
<1>2. call' = [call EXCEPT ![c] = new] /\ tasks' \in [Processes -> [TaskIds -> States]]
  BY <1>1, TaskStored DEF Store, EndedAs, States
<1>3. EndOf(call[c], "no registration", task, new)
  BY EndedShape
<1> HIDE DEF new
<1>4. /\ DOMAIN new = DOMAIN Idle /\ new.pc = "answered" /\ new.process = call[c].process
      /\ new.caller = call[c].caller /\ new.id = call[c].id /\ new.about = call[c].about
      /\ new.gated = call[c].gated /\ new.said = "no registration" /\ new.siblings = {}
      /\ new.task \in {Idle.task, task}
  BY <1>3 DEF EndOf
<1>5. TaskOrNew(new.task)
  <2>1. Idle.task = 0 /\ (new.task = 0 \/ new.task = task)
    BY <1>4 DEF Idle
  <2>2. CASE new.task = task
    BY <2>2
  <2>3. CASE new.task = 0
    BY <2>3, NoTaskToo
  <2> QED
    BY <2>1, <2>2, <2>3
<1>6. ASSUME NEW i \in 1 .. Len(sessions), sessions[i].task = call[c].about,
             sessions[i].process = call[c].process
      PROVE  GoneFor(sessions[i])
  <2>1. tokens[sessions[i].process][sessions[i].task] = NoToken
    BY <1>6 DEF SessionWanted, At
  <2> QED
    BY <2>1 DEF A2AInv, StoresOK
<1>7. \A facts : AnswerOK(new, facts)
  BY <1>4, <1>6 DEF AnswerOK
<1> QED
  BY <1>1, <1>2, <1>4, <1>5, <1>7, AnswersWell

\* message/send.
LEMMA SendMessageStep ==
  ASSUME A2AInv, UNCHANGED <<scene, chainVars, historyVars, sessions>>, Observe,
         NEW c \in Calls, call[c].pc = "body", call[c].message.method = "message/send",
         SendMessage(c)
  PROVE  A2AInv'
<1> DEFINE m == call[c].message
           intent == ParseIntent(m, call[c].about, call[c].token)
<1>1. Runs(call[c])
  BY DEF Runs
<1>2. Same
  BY DEF SendMessage, Same, historyVars
<1>3. taskCounter < MaxTasks /\ taskCounter' = taskCounter + 1
  BY DEF SendMessage
<1>4. /\ TaskOrNew(taskCounter + 1) /\ taskCounter \in Nat /\ MaxTasks \in Nat
      /\ taskCounter + 1 \in 0 .. taskCounter' /\ taskCounter + 1 # 0
  BY <1>3, NewTask
<1>5. CASE Answered(intent) # "none" /\ Store(c, taskCounter + 1, Answered(intent), intent)
  <2>1. /\ Answered(intent) \in States
        /\ intent \in {"register-ask", "help", "unknown"}
    BY <1>5 DEF Answered, States
  <2>2. intent \notin Claims
    BY <2>1 DEF Claims
  <2> HIDE DEF intent
  <2> QED
    BY <1>1, <1>2, <1>4, <1>5, <2>1, <2>2, StoreQuietly
<1>6. CASE Store(c, taskCounter + 1, "input-required", "human wanted")
  BY <1>1, <1>2, <1>4, <1>6, StoreQuietly DEF States, Claims
<1>7. CASE Store(c, taskCounter + 1, "failed", "number wanted")
  BY <1>1, <1>2, <1>4, <1>7, StoreQuietly DEF States, Claims
<1>8. CASE SessionWanted(c, intent) /\ NoRegistration(c)
  <2> HIDE DEF intent
  <2> QED
    BY <1>2, <1>4, <1>8, NoTokenAnswers DEF NoRegistration
<1>9. CASE /\ Answered(intent) = "none" /\ ~ NumberWanted(c, intent) /\ ~ SessionWanted(c, intent)
           /\ call' = [call EXCEPT ![c] = FirstStep(c, intent)]
           /\ UNCHANGED tasks
  <2> HIDE DEF intent
  <2> SUFFICES ASSUME NEW new, new = FirstStep(c, intent)
               PROVE  A2AInv'
    OBVIOUS
  <2>1. /\ DOMAIN new = DOMAIN Idle /\ new.pc \in Waits /\ new.process = call[c].process
        /\ new.id = call[c].id /\ new.caller = call[c].caller /\ new.about = call[c].about
        /\ new.gated = call[c].gated /\ new.task = taskCounter + 1
        /\ \A facts : WaitOK(new, facts)
    BY <1>4, <1>9, FirstStepWaits DEF intent
  <2>2. call' = [call EXCEPT ![c] = new]
    BY <1>9
  <2>3. new.pc \notin {"idle", "answered"}
    BY <2>1 DEF Waits
  <2>4. CallOK(call[c], seen[c]) /\ call[c].pc # "idle"
    BY <1>1, AtWork DEF Runs
  <2>5. call[c].about \in 0 .. taskCounter'
    BY <1>3, <1>4, <2>4 DEF CallOK
  <2>6. ASSUME NEW facts, seen[c] \subseteq facts
        PROVE  CallOK(new, facts)'
    <3>1. WaitOK(new, facts)'
      BY <1>2, <2>1, SameKnows
    <3> QED
      BY <1>4, <2>1, <2>3, <2>4, <2>5, <2>6, <3>1 DEF CallOK
  <2>7. tasks' \in [Processes -> [TaskIds -> States]]
    BY <1>9 DEF A2AInv, StoresOK
  <2> QED
    BY <1>1, <1>2, <1>3, <2>1, <2>2, <2>3, <2>6, <2>7, QuietMoves
<1> QED
  BY <1>5, <1>6, <1>7, <1>8, <1>9 DEF SendMessage

\* What a body asks for.
LEMMA BodyStep ==
  ASSUME A2AInv, UNCHANGED <<scene, chainVars, historyVars>>, Observe, NEW c \in Calls, Body(c)
  PROVE  A2AInv'
<1>1. Runs(call[c]) /\ call[c].pc = "body"
  BY DEF Body, Runs
<1>2. UNCHANGED <<scene, chainVars, historyVars, sessions>>
  BY DEF Body
<1>3. UNCHANGED <<scene, chainVars, sessions, dropped>>
  BY <1>2 DEF historyVars
<1>4. CASE Reply(c, "UNSUPPORTED_OPERATION") \/ Reply(c, "PARSE_ERROR")
  BY <1>1, <1>3, <1>4, ReplyQuietly DEF Claims
<1>5. CASE call[c].message.method = "message/send" /\ SendMessage(c)
  BY <1>1, <1>2, <1>5, SendMessageStep
<1>6. CASE \/ call[c].message.method = "tasks/get" /\ GetTask(c)
           \/ call[c].message.method = "tasks/cancel" /\ CancelTask(c)
  BY <1>1, <1>2, <1>6, TaskMethods
<1> QED
  BY <1>4, <1>5, <1>6 DEF Body

-----------------------------------------------------------------------------
(* Handlers that read the registry.                                        *)

\* A handler's own task.
LEMMA OwnTask ==
  ASSUME A2AInv, NEW c \in Calls, Runs(call[c]), UNCHANGED taskCounter
  PROVE  TaskOrNew(call[c].task)
<1>1. /\ taskCounter \in Nat /\ MaxTasks \in Nat /\ call[c].task \in 0 .. taskCounter
  BY AtWork
<1> QED
  BY <1>1 DEF TaskOrNew

\* A step that leaves the stores alone leaves what calls know about.
LEMMA QuietIsSame ==
  ASSUME Quiet, UNCHANGED <<scene, chainVars, historyVars>>
  PROVE  Same /\ UNCHANGED taskCounter
BY DEF Quiet, Same, historyVars

\* A task is stored with an answer that is true.
LEMMA StoreTruly ==
  ASSUME A2AInv, Same, UNCHANGED taskCounter, Observe, NEW c \in Calls, Runs(call[c]),
         NEW said, NEW state \in States, Store(c, call[c].task, state, said),
         \A new, facts : EndOf(call[c], said, call[c].task, new) /\ seen[c] \subseteq facts
                            => AnswerOK(new, facts)
  PROVE  A2AInv'
<1> SUFFICES ASSUME NEW new, new = EndedAs(c, said, call[c].task) PROVE A2AInv'
  OBVIOUS
<1>1. call' = [call EXCEPT ![c] = new] /\ tasks' \in [Processes -> [TaskIds -> States]]
  BY TaskStored DEF Store, EndedAs
<1>2. EndOf(call[c], said, call[c].task, new)
  BY EndedShape
<1>3. /\ DOMAIN new = DOMAIN Idle /\ new.pc = "answered" /\ new.process = call[c].process
      /\ new.caller = call[c].caller /\ new.id = call[c].id /\ new.about = call[c].about
      /\ new.gated = call[c].gated /\ new.task \in {Idle.task, call[c].task}
  BY <1>2 DEF EndOf
<1>4. TaskOrNew(new.task)
  <2>1. Idle.task = 0 /\ (new.task = 0 \/ new.task = call[c].task)
    BY <1>3 DEF Idle
  <2>2. TaskOrNew(call[c].task)
    BY OwnTask
  <2>3. TaskOrNew(0)
    BY <2>2, NoTaskToo
  <2> QED
    BY <2>1, <2>2, <2>3
<1>5. \A facts : seen[c] \subseteq facts => AnswerOK(new, facts)
  BY <1>2
<1> QED
  BY <1>1, <1>3, <1>4, <1>5, AnswersWell

\* handleVerify.
LEMMA VerifyStep ==
  ASSUME A2AInv, UNCHANGED <<scene, chainVars, historyVars>>, Observe,
         NEW c \in Calls, HandleVerify(c)
  PROVE  A2AInv'
<1> DEFINE k == call[c]
           id == call[c].id
<1>1. Runs(k) /\ Same /\ UNCHANGED taskCounter
  BY QuietIsSame DEF HandleVerify, Runs
<1>2. WaitOK(k, seen[c]) /\ DOMAIN k = DOMAIN Idle
  BY <1>1, AtWork
<1>3. id # 0 /\ (k.pc = "verify-fresh" => Proved(k, seen[c]))
  BY <1>2 DEF HandleVerify, WaitOK
<1>4. /\ HasHumanProof(id) => <<"live", id>> \in seen[c]
      /\ ~ HasHumanProof(id) => <<"gone", id>> \in seen[c]
      /\ IsProofFresh(id) => <<"fresh", id>> \in seen[c]
      /\ ~ IsProofFresh(id) => <<"stale", id>> \in seen[c]
  BY <1>1, <1>3, EverSeenNow
<1>5. CASE /\ call' = [call EXCEPT ![c].pc = "verify-fresh",
                                   ![c].hasProof = HasHumanProof(call[c].id)]
           /\ UNCHANGED tasks
  <2> SUFFICES ASSUME NEW new,
                      new = [k EXCEPT !.pc = "verify-fresh", !.hasProof = HasHumanProof(id)]
               PROVE  A2AInv'
    OBVIOUS
  <2>1. call' = [call EXCEPT ![c] = new]
    BY <1>5 DEF A2AInv, CallsOK
  <2>2. "pc" \in DOMAIN Idle /\ "hasProof" \in DOMAIN Idle
    BY DEF Idle
  <2>3. /\ DOMAIN new = DOMAIN Idle /\ new.pc = "verify-fresh" /\ new.process = k.process
        /\ new.id = id /\ new.caller = k.caller /\ new.about = k.about
        /\ new.task = k.task /\ new.gated = k.gated /\ new.hasProof = HasHumanProof(id)
    BY <1>2, <2>2
  <2>4. ASSUME NEW facts, seen[c] \subseteq facts
        PROVE  WaitOK(new, facts)
    <3>1. Proved(new, facts)
      BY <1>4, <2>3, <2>4 DEF Proved
    <3> QED
      BY <1>3, <2>3, <3>1 DEF WaitOK
  <2> QED
    BY <1>1, <1>5, <2>1, <2>3, <2>4, GoesOn DEF Waits
<1>6. CASE Store(c, call[c].task, "failed", "lost")
  BY <1>1, <1>6, OwnTask, StoreQuietly DEF Claims, States
<1>7. CASE /\ call[c].pc = "verify-fresh"
           /\ Store(c, call[c].task, "completed",
                   IF Verified(call[c].hasProof, IsProofFresh(call[c].id)) THEN "verified"
                   ELSE IF call[c].hasProof THEN "proof expired" ELSE "no proof")
  <2> DEFINE said == IF Verified(call[c].hasProof, IsProofFresh(call[c].id)) THEN "verified"
                     ELSE IF call[c].hasProof THEN "proof expired" ELSE "no proof"
  <2>1. /\ said \in {"verified", "proof expired", "no proof"}
        /\ said = "verified" => <<"live", id>> \in seen[c] /\ <<"fresh", id>> \in seen[c]
        /\ said = "proof expired" => <<"stale", id>> \in seen[c]
        /\ said = "no proof" => <<"gone", id>> \in seen[c]
    BY <1>3, <1>4, <1>7 DEF Verified, Proved
  <2> HIDE DEF said
  <2>2. ASSUME NEW new, NEW facts, EndOf(call[c], said, call[c].task, new),
               seen[c] \subseteq facts
        PROVE  AnswerOK(new, facts)
    BY <2>1, <2>2 DEF EndOf, AnswerOK
  <2> QED
    BY <1>1, <1>7, <2>2, StoreTruly DEF States, said
<1>8. CASE /\ call[c].pc = "verify-fresh"
           /\ tasks' = [tasks EXCEPT ![At(c)][call[c].task] = "completed"]
           /\ call' = [call EXCEPT ![c] = [Ended(c, IF Verified(call[c].hasProof, TRUE)
                                                   THEN "verified" ELSE "no proof")
                                          EXCEPT !.lenient = TRUE]]
  <2> DEFINE said == IF Verified(call[c].hasProof, TRUE) THEN "verified" ELSE "no proof"
             e == Ended(c, said)
  <2>1. /\ said \in {"verified", "no proof"}
        /\ said = "verified" => <<"live", id>> \in seen[c]
        /\ said = "no proof" => <<"gone", id>> \in seen[c]
    BY <1>3, <1>8 DEF Verified, Proved
  <2>2. EndOf(call[c], said, 0, e)
    <3> HIDE DEF said
    <3> QED
      BY EndedShape
  <2> SUFFICES ASSUME NEW new, new = [e EXCEPT !.lenient = TRUE] PROVE A2AInv'
    OBVIOUS
  <2>3. call' = [call EXCEPT ![c] = new]
    BY <1>8
  <2> HIDE DEF e, said
  <2>4. "lenient" \in DOMAIN Idle /\ Idle.task = 0
    BY DEF Idle
  <2>5. /\ DOMAIN new = DOMAIN Idle /\ new.pc = "answered" /\ new.process = k.process
        /\ new.caller = k.caller /\ new.id = id /\ new.about = k.about
        /\ new.gated = k.gated /\ new.said = said /\ new.lenient /\ new.siblings = {}
        /\ new.task = 0
    BY <2>2, <2>4 DEF EndOf
  <2>6. ASSUME NEW facts, seen[c] \subseteq facts
        PROVE  AnswerOK(new, facts)
    BY <2>1, <2>5, <2>6 DEF AnswerOK
  <2>7. TaskOrNew(new.task)
    <3>1. TaskOrNew(k.task)
      BY <1>1, OwnTask
    <3> QED
      BY <2>5, <3>1, NoTaskToo
  <2>8. tasks' \in [Processes -> [TaskIds -> States]]
    BY <1>1, <1>8, TaskStored DEF States
  <2> QED
    BY <1>1, <2>3, <2>5, <2>6, <2>7, <2>8, AnswersWell
<1> QED
  BY <1>5, <1>6, <1>7, <1>8 DEF HandleVerify

\* What comes back of a read is so, and what was read before stays.
LEMMA FetchedIsTrue ==
  ASSUME A2AInv, NEW c \in Calls, call[c].pc = "reading", NEW what \in call[c].need,
         NEW got, got = Fetched(c, what)
  PROVE  /\ DOMAIN got = DOMAIN Idle /\ got.pc = "reading" /\ got.process = call[c].process
         /\ got.id = call[c].id /\ got.caller = call[c].caller /\ got.about = call[c].about
         /\ got.task = call[c].task /\ got.gated = call[c].gated
         /\ got.intent = call[c].intent /\ got.need = call[c].need
         /\ what # "proof" => got.hasProof = call[c].hasProof
         /\ what = "proof" => Proved(got, seen[c])
         /\ what # "key" => got.key = call[c].key
         /\ what = "key" => (got.key = NoKey => <<"gone", got.id>> \in seen[c])
         /\ what # "expiry" => got.expiry = call[c].expiry
         /\ what = "expiry" =>
               got.expiry \in Nat /\ (got.expiry > now => <<"fresh", got.id>> \in seen[c])
         /\ what # "nullifier" => got.nullifier = call[c].nullifier
         /\ what = "nullifier" =>
               got.nullifier = NoHuman
                  \/ \E b \in ever : b.number = got.id /\ b.human = got.nullifier
<1> DEFINE k == call[c]
           id == call[c].id
<1>1. Runs(k)
  BY DEF Runs
<1>2. /\ WaitOK(k, seen[c]) /\ DOMAIN k = DOMAIN Idle /\ id \in Numbers
  BY <1>1, AtWork
<1>3. ReadingOK(k, seen[c]) /\ ChainOK
  BY <1>2 DEF WaitOK, A2AInv
<1>4. id # 0 /\ what \in {"key", "proof", "expiry", "nullifier"}
  BY <1>3 DEF ReadingOK
<1>5. {"pc", "process", "id", "caller", "about", "task", "gated", "intent", "need", "hasProof",
       "key", "expiry", "nullifier"} \subseteq DOMAIN k
  BY <1>2 DEF Idle
<1>6. /\ HasHumanProof(id) => <<"live", id>> \in seen[c]
      /\ ~ HasHumanProof(id) => <<"gone", id>> \in seen[c]
      /\ IsProofFresh(id) => <<"fresh", id>> \in seen[c]
  BY <1>1, <1>4, EverSeenNow
<1>7. CASE what = "key"
  <2>1. got = [k EXCEPT !.key = KeyOf(id)]
    BY <1>7 DEF Fetched
  <2>2. KeyOf(id) = NoKey => <<"gone", id>> \in seen[c]
    BY <1>3, <1>6, NoAgentIs
  <2> QED
    BY <1>2, <1>5, <1>7, <2>1, <2>2
<1>8. CASE what = "proof"
  <2>1. got = [k EXCEPT !.hasProof = HasHumanProof(id)]
    BY <1>8 DEF Fetched
  <2>2. got.hasProof = HasHumanProof(id) /\ got.id = id
    BY <1>5, <2>1
  <2>3. Proved(got, seen[c])
    BY <1>6, <2>2 DEF Proved
  <2> QED
    BY <1>2, <1>5, <1>8, <2>1, <2>3
<1>9. CASE what = "expiry"
  <2>1. got = [k EXCEPT !.expiry = expiresAt[id]]
    BY <1>9 DEF Fetched
  <2>2. id \in AgentIds
    BY <1>2, <1>4, A2AAssumption DEF Numbers
  <2>3. expiresAt[id] \in Nat /\ now \in Nat
    BY <1>3, <2>2 DEF ChainOK
  <2>4. expiresAt[id] > now => <<"fresh", id>> \in seen[c]
    <3>1. expiresAt[id] # 0 => HasHumanProof(id)
      BY <1>3, <2>2 DEF ChainOK
    <3> QED
      BY <1>6, <2>3, <3>1 DEF IsProofFresh
  <2> QED
    BY <1>2, <1>5, <1>9, <2>1, <2>3, <2>4
<1>10. CASE what = "nullifier"
  <2>1. got = [k EXCEPT !.nullifier = HumanOf(id)]
    BY <1>10 DEF Fetched
  <2>2. HumanOf(id) = NoHuman \/ \E b \in ever : b.number = id /\ b.human = HumanOf(id)
    BY <1>3, AgentIs DEF HumanOf
  <2> QED
    BY <1>2, <1>5, <1>10, <2>1, <2>2
<1> QED
  BY <1>4, <1>7, <1>8, <1>9, <1>10

\* The reads that a handler started.
LEMMA ReadStep ==
  ASSUME A2AInv, UNCHANGED <<scene, chainVars, historyVars>>, Observe,
         NEW c \in Calls, Read(c)
  PROVE  A2AInv'
<1> DEFINE k == call[c]
<1>1. Runs(k) /\ Same /\ UNCHANGED <<taskCounter, tasks>> /\ k.pc = "reading"
  BY QuietIsSame DEF Read, Runs
<1>2. ReadingOK(k, seen[c]) /\ WaitOK(k, seen[c])
  BY <1>1, AtWork DEF WaitOK
<1>3. PICK what \in k.need :
        call' = [call EXCEPT ![c] =
                      [Fetched(c, what) EXCEPT
                          !.need = @ \ {what},
                          !.pc = IF k.need # {what} THEN "reading"
                                 ELSE IF k.intent = "lookup" THEN "looked-up"
                                 ELSE "siblings"]]
  BY DEF Read
<1> SUFFICES ASSUME NEW got, got = Fetched(c, what) PROVE A2AInv'
  OBVIOUS
<1> DEFINE pc == IF k.need # {what} THEN "reading"
                 ELSE IF k.intent = "lookup" THEN "looked-up" ELSE "siblings"
           need == k.need \ {what}
<1>4. /\ DOMAIN got = DOMAIN Idle /\ got.pc = "reading" /\ got.process = k.process
      /\ got.id = k.id /\ got.caller = k.caller /\ got.about = k.about
      /\ got.task = k.task /\ got.gated = k.gated
      /\ got.intent = k.intent /\ got.need = k.need
      /\ what # "proof" => got.hasProof = k.hasProof
      /\ what = "proof" => Proved(got, seen[c])
      /\ what # "key" => got.key = k.key
      /\ what = "key" => (got.key = NoKey => <<"gone", got.id>> \in seen[c])
      /\ what # "expiry" => got.expiry = k.expiry
      /\ what = "expiry" =>
            got.expiry \in Nat /\ (got.expiry > now => <<"fresh", got.id>> \in seen[c])
      /\ what # "nullifier" => got.nullifier = k.nullifier
      /\ what = "nullifier" =>
            got.nullifier = NoHuman
               \/ \E b \in ever : b.number = got.id /\ b.human = got.nullifier
  BY <1>1, FetchedIsTrue
<1> SUFFICES ASSUME NEW new, new = [got EXCEPT !.need = need, !.pc = pc] PROVE A2AInv'
  OBVIOUS
<1>5. call' = [call EXCEPT ![c] = new]
  BY <1>3, <1>4
<1>6. /\ pc \in {"reading", "looked-up", "siblings"}
      /\ pc = "looked-up" => k.intent = "lookup" /\ need = {}
      /\ pc = "siblings" => k.intent = "check-freshness" /\ need = {}
  BY <1>2 DEF ReadingOK
<1> HIDE DEF pc
<1>7. "pc" \in DOMAIN Idle /\ "need" \in DOMAIN Idle
  BY DEF Idle
<1>8. /\ DOMAIN new = DOMAIN Idle /\ new.pc = pc /\ new.process = k.process
      /\ new.id = k.id /\ new.caller = k.caller /\ new.about = k.about
      /\ new.task = k.task /\ new.gated = k.gated /\ new.intent = k.intent
      /\ new.need = need /\ new.hasProof = got.hasProof /\ new.key = got.key
      /\ new.expiry = got.expiry /\ new.nullifier = got.nullifier
  BY <1>4, <1>7
<1>9. ASSUME NEW facts, seen[c] \subseteq facts
      PROVE  WaitOK(new, facts)
  <2>1. "proof" \notin need => Proved(new, facts)
    BY <1>2, <1>4, <1>8, <1>9 DEF ReadingOK, Proved
  <2>2. k.intent = "lookup" /\ "key" \notin need /\ new.key = NoKey => <<"gone", k.id>> \in facts
    BY <1>2, <1>4, <1>8, <1>9 DEF ReadingOK
  <2>3. k.intent = "check-freshness" /\ "expiry" \notin need =>
          new.expiry \in Nat /\ (new.expiry > now => <<"fresh", k.id>> \in facts)
    BY <1>2, <1>4, <1>8, <1>9 DEF ReadingOK
  <2>4. k.intent = "check-freshness" /\ "nullifier" \notin need =>
          new.nullifier = NoHuman \/ \E b \in ever : b.number = k.id /\ b.human = new.nullifier
    BY <1>2, <1>4, <1>8 DEF ReadingOK
  <2>5. k.id # 0 /\ k.intent \in {"lookup", "check-freshness"}
        /\ need \subseteq {"key", "proof", "expiry", "nullifier"}
    BY <1>2 DEF ReadingOK
  <2>6. ReadingOK(new, facts)
    BY <1>8, <2>1, <2>2, <2>3, <2>4, <2>5 DEF ReadingOK
  <2> QED
    BY <1>6, <1>8, <2>6 DEF WaitOK
<1>10. new.pc \in Waits
  BY <1>6, <1>8 DEF Waits
<1> HIDE DEF need
<1> QED
  BY <1>1, <1>5, <1>8, <1>9, <1>10, GoesOn

\* A read of the registry fails: the lookup may call the agent not found, which
\* claims nothing.
LEMMA ReadFailsStep ==
  ASSUME A2AInv, UNCHANGED <<scene, chainVars, historyVars>>, Observe,
         NEW c \in Calls, ReadFails(c)
  PROVE  A2AInv'
<1> DEFINE k == call[c]
<1>1. Runs(call[c]) /\ Same /\ UNCHANGED taskCounter
  BY QuietIsSame DEF ReadFails, Runs
<1>2. CASE Store(c, call[c].task, "failed", "lost")
  BY <1>1, <1>2, OwnTask, StoreQuietly DEF Claims, States
<1>3. CASE /\ tasks' = [tasks EXCEPT ![At(c)][call[c].task] = "completed"]
           /\ call' = [call EXCEPT ![c] = [Ended(c, "not found") EXCEPT !.lenient = TRUE]]
  <2> DEFINE said == "not found"
             e == Ended(c, said)
  <2>1. EndOf(call[c], said, 0, e)
    <3> HIDE DEF said
    <3> QED
      BY EndedShape
  <2> SUFFICES ASSUME NEW new, new = [e EXCEPT !.lenient = TRUE] PROVE A2AInv'
    OBVIOUS
  <2>2. call' = [call EXCEPT ![c] = new]
    BY <1>3
  <2> HIDE DEF e, said
  <2>3. "lenient" \in DOMAIN Idle /\ Idle.task = 0
    BY DEF Idle
  <2>4. /\ DOMAIN new = DOMAIN Idle /\ new.pc = "answered" /\ new.process = k.process
        /\ new.caller = k.caller /\ new.id = k.id /\ new.about = k.about
        /\ new.gated = k.gated /\ new.said = said /\ new.lenient /\ new.siblings = {}
        /\ new.task = 0
    BY <2>1, <2>3 DEF EndOf
  <2>5. \A facts : AnswerOK(new, facts)
    BY <2>4 DEF AnswerOK, said
  <2>6. TaskOrNew(new.task)
    <3>1. TaskOrNew(k.task)
      BY <1>1, OwnTask
    <3> QED
      BY <2>4, <3>1, NoTaskToo
  <2>7. tasks' \in [Processes -> [TaskIds -> States]]
    BY <1>1, <1>3, TaskStored DEF States
  <2> QED
    BY <1>1, <2>2, <2>4, <2>5, <2>6, <2>7, AnswersWell
<1> QED
  BY <1>2, <1>3 DEF ReadFails

\* handleLookup.
LEMMA LookupStep ==
  ASSUME A2AInv, UNCHANGED <<scene, chainVars, historyVars>>, Observe,
         NEW c \in Calls, HandleLookup(c)
  PROVE  A2AInv'
<1> DEFINE k == call[c]
           said == IF k.key = NoKey THEN "not found"
                   ELSE IF k.hasProof THEN "has proof" ELSE "no proof"
<1>1. Runs(k) /\ Same /\ UNCHANGED taskCounter
  BY QuietIsSame DEF HandleLookup, Runs
<1>2. ReadingOK(k, seen[c]) /\ k.intent = "lookup" /\ k.need = {}
  BY <1>1, AtWork DEF WaitOK, HandleLookup
<1>3. /\ said \in {"not found", "has proof", "no proof"}
      /\ said = "has proof" => <<"live", k.id>> \in seen[c]
      /\ said \in {"no proof", "not found"} => <<"gone", k.id>> \in seen[c]
  BY <1>2 DEF ReadingOK, Proved
<1> HIDE DEF said
<1>4. ASSUME NEW new, NEW facts, EndOf(call[c], said, call[c].task, new),
             seen[c] \subseteq facts
      PROVE  AnswerOK(new, facts)
  BY <1>3, <1>4 DEF EndOf, AnswerOK
<1> QED
  BY <1>1, <1>4, StoreTruly DEF HandleLookup, States, said

\* handleCheckFreshness.
LEMMA FreshnessStep ==
  ASSUME A2AInv, UNCHANGED <<scene, chainVars, historyVars>>, Observe,
         NEW c \in Calls, HandleCheckFreshness(c)
  PROVE  A2AInv'
<1> DEFINE k == call[c]
           said == Freshness(k.hasProof, k.expiry, now)
           siblings == {a.number : a \in {x \in ledger : x.human = k.nullifier}} \ {k.id}
           e == Ended(c, said)
<1>1. Runs(k) /\ Same /\ UNCHANGED taskCounter
  BY QuietIsSame DEF HandleCheckFreshness, Runs
<1>2. ReadingOK(k, seen[c]) /\ k.intent = "check-freshness" /\ k.need = {}
  BY <1>1, AtWork DEF WaitOK, HandleCheckFreshness
<1>3. ChainOK /\ now \in Nat
  BY DEF A2AInv, ChainOK
<1>4. /\ said \in {"no proof", "expired", "fresh"}
      /\ said = "no proof" => <<"gone", k.id>> \in seen[c]
      /\ said = "fresh" => <<"fresh", k.id>> \in seen[c]
  BY <1>2, <1>3 DEF ReadingOK, Proved, Freshness
<1>5. ASSUME NEW n \in siblings
      PROVE  \E a \in ever, b \in ever : a.number = n /\ b.number = k.id /\ a.human = b.human
  <2>1. PICK a \in ledger : a.human = k.nullifier /\ a.number = n
    OBVIOUS
  <2>2. a \in ever /\ a.human # NoHuman
    BY <1>3, A2AAssumption DEF ChainOK, Registry!LedgerOK, Registry!Entries
  <2>3. PICK b \in ever : b.number = k.id /\ b.human = k.nullifier
    BY <1>2, <2>1, <2>2 DEF ReadingOK
  <2> QED
    BY <2>1, <2>2, <2>3
<1>6. EndOf(k, said, 0, e)
  <2> HIDE DEF said
  <2> QED
    BY EndedShape
<1> SUFFICES ASSUME NEW new, new = [e EXCEPT !.siblings = siblings] PROVE A2AInv'
  OBVIOUS
<1>7. call' = [call EXCEPT ![c] = new]
  BY DEF HandleCheckFreshness
<1>8. tasks' \in [Processes -> [TaskIds -> States]]
  BY <1>1, TaskStored DEF HandleCheckFreshness, States
<1> HIDE DEF e, said, siblings
<1>9. "siblings" \in DOMAIN Idle /\ Idle.task = 0
  BY DEF Idle
<1>10. /\ DOMAIN new = DOMAIN Idle /\ new.pc = "answered" /\ new.process = k.process
       /\ new.caller = k.caller /\ new.id = k.id /\ new.about = k.about
       /\ new.gated = k.gated /\ new.said = said /\ new.siblings = siblings
       /\ new.task = 0
  BY <1>6, <1>9 DEF EndOf
<1>11. ASSUME NEW facts, seen[c] \subseteq facts
       PROVE  AnswerOK(new, facts)
  <2>1. \A n \in new.siblings : \E a \in ever, b \in ever :
           a.number = n /\ b.number = new.id /\ a.human = b.human
    BY <1>5, <1>10
  <2>2. new.said = "no proof" => <<"gone", new.id>> \in facts
    BY <1>4, <1>10, <1>11
  <2>3. new.said = "fresh" => <<"fresh", new.id>> \in facts
    BY <1>4, <1>10, <1>11
  <2>4. new.said \in {"no proof", "expired", "fresh"}
    BY <1>4, <1>10
  <2> QED
    BY <2>1, <2>2, <2>3, <2>4 DEF AnswerOK
<1>12. TaskOrNew(new.task)
  <2>1. TaskOrNew(k.task)
    BY <1>1, OwnTask
  <2> QED
    BY <1>10, <2>1, NoTaskToo
<1> QED
  BY <1>1, <1>7, <1>8, <1>10, <1>11, <1>12, AnswersWell

-----------------------------------------------------------------------------
(* Polls.                                                                  *)

\* A registration is found for the key of the session, and for no other.
LEMMA StatusIsTrue ==
  ASSUME ChainOK, NEW token, StatusOf(token) = "registered"
  PROVE  \E a \in ever : a.key = PolledKey(sessions[token])
<1> DEFINE id == IdOf(PolledKey(sessions[token]))
<1>1. id # 0
  BY DEF StatusOf
<1> QED
  BY <1>1, KeyIs DEF Was

\* The number read for a key that had an agent is that of an agent of the key, or
\* there is none any more.
LEMMA NumberIsTrue ==
  ASSUME ChainOK, NEW token, \E a \in ever : a.key = PolledKey(sessions[token])
  PROVE  Reported(IdOf(PolledKey(sessions[token])), sessions[token].key)
<1> DEFINE key == PolledKey(sessions[token])
<1>1. PICK b \in ever : b.key = key
  OBVIOUS
<1>2. key \in AgentKeySet /\ key # NoKey
  BY <1>1, A2AAssumption DEF ChainOK
<1>3. key = sessions[token].key
  BY <1>2 DEF PolledKey
<1> HIDE DEF key
<1>4. CASE IdOf(key) # 0
  BY <1>3, <1>4, KeyIs DEF Was, Reported, key
<1>5. CASE IdOf(key) = 0
  <2>1. b \notin ledger
    <3> SUFFICES ASSUME b \in ledger PROVE FALSE
      OBVIOUS
    <3> DEFINE a == CHOOSE x \in ledger : x.key = key
    <3>1. a \in ledger /\ IdOf(key) = a.number
      BY <1>1 DEF IdOf
    <3>2. a.number \in 1 .. issued /\ issued \in Nat
      BY <3>1 DEF ChainOK, Registry!LedgerOK
    <3> HIDE DEF a
    <3> QED
      BY <1>5, <3>1, <3>2
  <2> QED
    BY <1>1, <1>3, <1>5, <2>1 DEF Reported, key
<1> QED
  BY <1>4, <1>5

\* A poll goes on with what it knows of its session.
LEMMA PollGoesOn ==
  ASSUME A2AInv, Same, UNCHANGED <<taskCounter, tasks>>, Observe, NEW c \in Calls,
         call[c].pc \in {"status", "status-number"}, NEW new,
         call' = [call EXCEPT ![c] = new],
         DOMAIN new = DOMAIN Idle, new.pc \in {"status-number", "told"},
         new.process = call[c].process, new.id = call[c].id, new.caller = call[c].caller,
         new.about = call[c].about, new.task = call[c].task, new.gated = call[c].gated,
         new.token = call[c].token,
         new.pc = "status-number" => \E a \in ever : a.key = PolledKey(sessions[new.token]),
         new.pc = "told" /\ new.said = "registered" =>
            Reported(new.number, sessions[new.token].key)
  PROVE  A2AInv'
<1>1. Runs(call[c])
  BY DEF Runs
<1>2. WaitOK(call[c], seen[c])
  BY <1>1, AtWork
<1>3. \A facts : WaitOK(new, facts)
  BY <1>2 DEF WaitOK
<1> QED
  BY <1>1, <1>3, GoesOn DEF Waits

\* getRegistrationStatus, of the session that a token names.
LEMMA AskStatusStep ==
  ASSUME A2AInv, UNCHANGED <<scene, chainVars, historyVars>>, Observe,
         NEW c \in Calls, AskStatus(c)
  PROVE  A2AInv'
<1> DEFINE k == call[c]
           status == StatusOf(k.token)
           id == IdOf(PolledKey(sessions[k.token]))
<1>1. Runs(k) /\ Same /\ UNCHANGED <<taskCounter, tasks>>
  BY DEF AskStatus, Runs, Same, storeVars, historyVars
<1>2. WaitOK(k, seen[c]) /\ DOMAIN k = DOMAIN Idle /\ ChainOK
  BY <1>1, AtWork DEF A2AInv
<1>3. "pc" \in DOMAIN Idle /\ "said" \in DOMAIN Idle /\ "number" \in DOMAIN Idle
  BY DEF Idle
<1>4. CASE /\ k.pc = "status"
           /\ call' = [call EXCEPT
                 ![c].pc = IF status = "registered" THEN "status-number" ELSE "told",
                 ![c].said = status]
  <2>1. status = "registered" => \E a \in ever : a.key = PolledKey(sessions[k.token])
    BY <1>2, StatusIsTrue
  <2> HIDE DEF status
  <2> SUFFICES ASSUME NEW new,
                      new = [k EXCEPT !.pc = IF status = "registered" THEN "status-number"
                                             ELSE "told",
                                      !.said = status]
               PROVE  A2AInv'
    OBVIOUS
  <2>2. call' = [call EXCEPT ![c] = new]
    BY <1>4 DEF A2AInv, CallsOK
  <2>3. /\ DOMAIN new = DOMAIN Idle /\ new.process = k.process
        /\ new.id = k.id /\ new.caller = k.caller /\ new.about = k.about
        /\ new.task = k.task /\ new.gated = k.gated /\ new.token = k.token
        /\ new.said = status
        /\ new.pc = IF status = "registered" THEN "status-number" ELSE "told"
    BY <1>2, <1>3
  <2>4. \/ /\ new.pc = "status-number"
           /\ status = "registered"
        \/ /\ new.pc = "told"
           /\ status # "registered"
    <3>1. CASE status = "registered"
      BY <2>3, <3>1
    <3>2. CASE status # "registered"
      BY <2>3, <3>2
    <3> QED
      BY <3>1, <3>2
  <2>6. new.pc \in {"status-number", "told"}
    BY <2>4
  <2>7. new.pc = "status-number" => \E a \in ever : a.key = PolledKey(sessions[new.token])
    BY <2>1, <2>3, <2>4
  <2>8. new.pc = "told" /\ new.said = "registered" =>
           Reported(new.number, sessions[new.token].key)
    BY <2>3, <2>4
  <2>5. k.pc \in {"status", "status-number"}
    BY <1>4
  <2> QED
    <3>1. call[c].pc \in {"status", "status-number"}
      BY <1>1, <2>5
    <3>2. /\ DOMAIN new = DOMAIN Idle /\ new.process = call[c].process
          /\ new.id = call[c].id /\ new.caller = call[c].caller /\ new.about = call[c].about
          /\ new.task = call[c].task /\ new.gated = call[c].gated
          /\ new.token = call[c].token
      BY <2>3
    <3> HIDE DEF k
    <3> QED
      BY <1>1, <2>2, <2>6, <2>7, <2>8, <3>1, <3>2, PollGoesOn, ZenonT(60)
<1>5. CASE /\ k.pc = "status-number"
           /\ call' = [call EXCEPT ![c].pc = "told", ![c].number = id]
  <2>1. Reported(id, sessions[k.token].key)
    BY <1>2, <1>5, NumberIsTrue DEF WaitOK
  <2> HIDE DEF id
  <2> SUFFICES ASSUME NEW new, new = [k EXCEPT !.pc = "told", !.number = id]
               PROVE  A2AInv'
    OBVIOUS
  <2>2. call' = [call EXCEPT ![c] = new]
    BY <1>5 DEF A2AInv, CallsOK
  <2>3. /\ DOMAIN new = DOMAIN Idle /\ new.pc = "told" /\ new.process = k.process
        /\ new.id = k.id /\ new.caller = k.caller /\ new.about = k.about
        /\ new.task = k.task /\ new.gated = k.gated /\ new.token = k.token
        /\ new.number = id
    BY <1>2, <1>3
  <2>4. /\ new.pc \in {"status-number", "told"} /\ new.pc # "status-number"
        /\ Reported(new.number, sessions[new.token].key)
    BY <2>1, <2>3
  <2>5. k.pc \in {"status", "status-number"}
    BY <1>5
  <2> QED
    BY <1>1, <2>2, <2>3, <2>4, <2>5, PollGoesOn, Zenon
<1> QED
  BY <1>4, <1>5 DEF AskStatus

\* The session API does not answer.
LEMMA StatusLostStep ==
  ASSUME A2AInv, UNCHANGED <<scene, chainVars, historyVars>>, Observe,
         NEW c \in Calls, StatusLost(c)
  PROVE  A2AInv'
<1>1. Runs(call[c]) /\ Same /\ UNCHANGED taskCounter
  BY DEF StatusLost, Runs, Same, historyVars
<1> QED
  BY <1>1, OwnTask, StoreQuietly DEF StatusLost, Claims, States

\* A call ends, and the token of the task it asked for is renewed or dropped.
LEMMA TokenMoves ==
  ASSUME A2AInv, UNCHANGED <<scene, chainVars, sessions, taskCounter>>, Observe,
         NEW c \in Calls, Runs(call[c]), NEW new, call' = [call EXCEPT ![c] = new],
         DOMAIN new = DOMAIN Idle, new.pc = "answered", new.process = call[c].process,
         new.caller = call[c].caller, new.id = call[c].id, new.about = call[c].about,
         new.gated = call[c].gated, new.task \in 0 .. taskCounter,
         StoresOK', \A i \in 1 .. Len(sessions) : GoneFor(sessions[i]) => GoneFor(sessions[i])',
         \A facts : seen[c] \subseteq facts => AnswerOK(new, facts)'
  PROVE  A2AInv'
<1>1. CallOK(call[c], seen[c]) /\ call[c].pc # "idle" /\ ~ Runs(new)
  BY AtWork DEF Runs
<1>2. Len(sessions) \in Nat /\ taskCounter \in Nat /\ now \in Nat
  BY A2AAssumption DEF A2AInv, SessionsOK, StoresOK, ChainOK
<1>3. Later /\ \A t : NoneOpened(t)
  <2>1. Later
    BY <1>2 DEF Later, chainVars
  <2>2. \A t : NoneOpened(t)
    BY <1>2 DEF NoneOpened
  <2> QED
    BY <2>1, <2>2
<1>4. ChainOK' /\ SceneOK'
  BY DEF A2AInv, chainVars, ChainOK, SceneOK, HasHumanProof, Registry!LedgerOK
<1>5. SessionsOK'
  <2>1. \A i \in 1 .. Len(sessions) : SessionOK(sessions[i])'
    BY DEF A2AInv, SessionsOK, SessionOK, AboutOK, chainVars, Was
  <2> QED
    BY <2>1 DEF A2AInv, SessionsOK
<1>6. ASSUME NEW facts, seen[c] \subseteq facts
      PROVE  CallOK(new, facts)'
  <2>1. WaitOK(new, facts)'
    BY DEF WaitOK
  <2> QED
    BY <1>1, <1>6, <2>1 DEF CallOK
<1>7. CallsOK'
  BY <1>3, <1>6, CallMoves DEF A2AInv
<1>8. TasksOK'
  <2>1. call'[c] = new /\ \A d \in Calls \ {c} : call'[d] = call[d]
    BY DEF A2AInv, CallsOK
  <2>2. \A d \in Calls : /\ Runs(call'[d]) => Runs(call[d]) /\ call'[d].task = call[d].task
                         /\ call'[d].pc # "idle" => call[d].pc # "idle" /\ call'[d].about = call[d].about
    BY <1>1, <2>1 DEF Runs
  <2>3. ASSUME NEW b \in Calls, Runs(call'[b]), call'[b].task # 0
        PROVE  /\ \A d \in Calls \ {b} : Runs(call'[d]) => call'[d].task # call'[b].task
               /\ \A d \in Calls : call'[d].pc # "idle" => call'[d].about # call'[b].task
               /\ \A i \in 1 .. Len(sessions) : sessions[i].task # call'[b].task
    <3>1. Runs(call[b]) /\ call[b].task # 0 /\ call'[b].task = call[b].task
      BY <2>2, <2>3
    <3> QED
      BY <2>2, <3>1 DEF A2AInv, TasksOK
  <2> QED
    BY <2>3 DEF TasksOK, Runs
<1> QED
  BY <1>4, <1>5, <1>7, <1>8 DEF A2AInv

\* What a poll in hand knows.
LEMMA PollKnows ==
  ASSUME A2AInv, NEW c \in Calls, call[c].pc = "told"
  PROVE  /\ Runs(call[c]) /\ call[c].token \in 1 .. Len(sessions)
         /\ call[c].about # 0 => /\ call[c].about \in TaskIds
                                 /\ TokenOf(call[c].token, At(c), call[c].about)
         /\ call[c].said = "registered" =>
               Reported(call[c].number, sessions[call[c].token].key)
         /\ call[c].task \in 0 .. taskCounter
<1>1. Runs(call[c])
  BY DEF Runs
<1>2. /\ WaitOK(call[c], seen[c]) /\ call[c].about \in 0 .. taskCounter /\ taskCounter \in Nat
      /\ MaxTasks \in Nat /\ taskCounter <= MaxTasks /\ call[c].task \in 0 .. taskCounter
  BY <1>1, AtWork
<1>3. call[c].about # 0 => call[c].about \in TaskIds
  BY <1>2
<1> QED
  BY <1>1, <1>2, <1>3 DEF WaitOK, At

\* The stores forget a task whose registration is over.
LEMMA Forgets ==
  ASSUME A2AInv, UNCHANGED <<chainVars, sessions, taskCounter>>, NEW c \in Calls,
         call[c].pc = "told",
         tasks' \in [Processes -> [TaskIds -> States]], NEW why,
         \/ why = "expired"
         \/ why = "registered" /\ call[c].said = "registered",
         Forget(c, why)
  PROVE  /\ StoresOK'
         /\ \A i \in 1 .. Len(sessions) : GoneFor(sessions[i]) => GoneFor(sessions[i])'
<1> DEFINE p == At(c)
           t == call[c].about
<1>1. CASE t = 0
  <2>1. UNCHANGED <<tokens, dropped>>
    BY <1>1 DEF Forget
  <2>2. \A i \in 1 .. Len(sessions) : GoneFor(sessions[i]) <=> GoneFor(sessions[i])'
    BY <2>1 DEF GoneFor, chainVars
  <2>3. \A token, q, u : TokenOf(token, q, u) <=> TokenOf(token, q, u)'
    BY DEF TokenOf
  <2> QED
    BY <2>1, <2>2, <2>3 DEF A2AInv, StoresOK
<1>2. CASE t # 0
  <2>1. /\ Runs(call[c]) /\ t \in TaskIds /\ TokenOf(call[c].token, p, t)
        /\ why = "registered" => \E a \in ever : a.key = sessions[call[c].token].key
        /\ p \in Processes
    BY <1>2, PollKnows, AtWork DEF Reported
  <2>2. /\ tokens' = [tokens EXCEPT ![p][t] = NoToken]
        /\ dropped' = [dropped EXCEPT ![t] = why]
    BY <1>2 DEF Forget
  <2>3. DOMAIN dropped = TaskIds /\ dropped = [u \in TaskIds |-> dropped[u]]
        /\ tokens \in [Processes -> [TaskIds -> Nat]] /\ taskCounter \in 0 .. MaxTasks
    BY DEF A2AInv, StoresOK
  <2>4. /\ dropped'[t] = why /\ \A u \in TaskIds : u # t => dropped'[u] = dropped[u]
        /\ DOMAIN dropped' = TaskIds /\ dropped' = [u \in TaskIds |-> dropped'[u]]
    <3>1. dropped'[t] = why /\ DOMAIN dropped' = TaskIds
      BY <2>1, <2>2, <2>3
    <3>2. \A u \in TaskIds : u # t => dropped'[u] = dropped[u]
      BY <2>2, <2>3
    <3> QED
      BY <2>2, <2>3, <3>1, <3>2
  <2>5. /\ tokens' \in [Processes -> [TaskIds -> Nat]] /\ tokens'[p][t] = NoToken
        /\ \A q \in Processes, u \in TaskIds : q # p \/ u # t => tokens'[q][u] = tokens[q][u]
    BY <2>1, <2>2, <2>3
  <2> HIDE DEF p, t
  <2>6. ASSUME NEW i \in 1 .. Len(sessions), sessions[i].task = t
        PROVE  GoneFor(sessions[i])'
    <3>1. sessions[i] = sessions[call[c].token]
      BY <2>1, <2>6 DEF TokenOf, A2AInv, SessionsOK
    <3> QED
      BY <2>1, <2>4, <2>6, <3>1 DEF GoneFor, chainVars
  <2>12. \A i \in 1 .. Len(sessions) :
            sessions[i].task \in TaskIds /\ sessions[i].process \in Processes
    <3>1. MaxTasks \in Nat /\ taskCounter \in 0 .. MaxTasks
      BY <2>3, A2AAssumption
    <3> QED
      BY <3>1 DEF A2AInv, SessionsOK, SessionOK
  <2>7. ASSUME NEW i \in 1 .. Len(sessions), GoneFor(sessions[i])
        PROVE  GoneFor(sessions[i])'
    BY <2>4, <2>6, <2>7, <2>12 DEF GoneFor, chainVars
  <2>8. ASSUME NEW q \in Processes, NEW u \in TaskIds, tokens'[q][u] # NoToken
        PROVE  TokenOf(tokens[q][u], q, u)'
    <3>1. tokens'[q][u] = tokens[q][u] /\ tokens[q][u] # NoToken
      BY <2>5, <2>8
    <3>2. TokenOf(tokens[q][u], q, u)
      BY <3>1 DEF A2AInv, StoresOK
    <3> QED
      BY <3>1, <3>2 DEF TokenOf
  <2>9. ASSUME NEW i \in 1 .. Len(sessions)
        PROVE  \/ tokens'[sessions[i].process][sessions[i].task] # NoToken
               \/ GoneFor(sessions[i])'
    <3>1. CASE sessions[i].task = t
      BY <2>6, <3>1
    <3>2. CASE sessions[i].task # t
      BY <2>5, <2>7, <2>12, <3>2 DEF A2AInv, StoresOK
    <3> QED
      BY <3>1, <3>2
  <2>10. taskCounter' \in 0 .. MaxTasks
    BY <2>3
  <2>11. StoresOK'
    BY <2>4, <2>5, <2>8, <2>9, <2>10 DEF StoresOK
  <2> QED
    BY <2>7, <2>11
<1> QED
  BY <1>1, <1>2

\* A renewed token is kept where the old one was.
LEMMA Renews ==
  ASSUME A2AInv, UNCHANGED <<chainVars, sessions, taskCounter>>, NEW c \in Calls,
         call[c].pc = "told",
         tasks' \in [Processes -> [TaskIds -> States]], Renewed(c)
  PROVE  /\ StoresOK'
         /\ \A i \in 1 .. Len(sessions) : GoneFor(sessions[i]) => GoneFor(sessions[i])'
<1> DEFINE p == At(c)
           t == call[c].about
           token == call[c].token
<1>1. UNCHANGED dropped
  BY DEF Renewed
<1>2. \A i \in 1 .. Len(sessions) : GoneFor(sessions[i]) <=> GoneFor(sessions[i])'
  BY <1>1 DEF GoneFor, chainVars
<1>3. \A x, q, u : TokenOf(x, q, u) <=> TokenOf(x, q, u)'
  BY DEF TokenOf
<1>4. CASE t = 0
  <2>1. UNCHANGED tokens
    BY <1>4 DEF Renewed
  <2> QED
    BY <1>1, <1>2, <1>3, <2>1 DEF A2AInv, StoresOK
<1>5. CASE t # 0
  <2>1. /\ Runs(call[c]) /\ t \in TaskIds /\ TokenOf(token, p, t) /\ token \in 1 .. Len(sessions)
        /\ p \in Processes
    BY <1>5, PollKnows, AtWork
  <2>2. tokens' = [tokens EXCEPT ![p][t] = token]
    BY <1>5 DEF Renewed
  <2>3. tokens \in [Processes -> [TaskIds -> Nat]] /\ Len(sessions) \in Nat
    BY DEF A2AInv, StoresOK, SessionsOK
  <2> HIDE DEF p, t, token
  <2>4. token \in Nat /\ token # NoToken
    BY <2>1, <2>3
  <2>5. /\ tokens' \in [Processes -> [TaskIds -> Nat]] /\ tokens'[p][t] = token
        /\ \A q \in Processes, u \in TaskIds : q # p \/ u # t => tokens'[q][u] = tokens[q][u]
    BY <2>1, <2>2, <2>3, <2>4
  <2>6. \A i \in 1 .. Len(sessions) :
            sessions[i].task \in TaskIds /\ sessions[i].process \in Processes
    <3>1. MaxTasks \in Nat /\ taskCounter \in 0 .. MaxTasks
      BY A2AAssumption DEF A2AInv, StoresOK
    <3> QED
      BY <3>1 DEF A2AInv, SessionsOK, SessionOK
  <2>7. ASSUME NEW q \in Processes, NEW u \in TaskIds, tokens'[q][u] # NoToken,
               NEW x, x = tokens'[q][u]
        PROVE  TokenOf(x, q, u)'
    <3>1. CASE q = p /\ u = t
      BY <1>3, <2>1, <2>5, <2>7, <3>1
    <3>2. CASE q # p \/ u # t
      <4>1. x = tokens[q][u]
        BY <2>5, <2>7, <3>2
      <4>2. TokenOf(x, q, u)
        BY <2>7, <4>1 DEF A2AInv, StoresOK
      <4> QED
        BY <1>3, <4>2
    <3> QED
      BY <3>1, <3>2
  <2>8. ASSUME NEW i \in 1 .. Len(sessions)
        PROVE  \/ tokens'[sessions[i].process][sessions[i].task] # NoToken
               \/ GoneFor(sessions[i])'
    <3>1. \/ tokens[sessions[i].process][sessions[i].task] # NoToken
          \/ GoneFor(sessions[i])
      BY DEF A2AInv, StoresOK
    <3> QED
      BY <1>2, <2>4, <2>5, <2>6, <3>1
  <2>9. /\ DOMAIN dropped' = TaskIds /\ dropped' = [u \in TaskIds |-> dropped'[u]]
        /\ taskCounter' \in 0 .. MaxTasks
    BY <1>1 DEF A2AInv, StoresOK
  <2>10. StoresOK'
    BY <2>5, <2>7, <2>8, <2>9 DEF StoresOK
  <2> QED
    BY <1>2, <2>10
<1> QED
  BY <1>4, <1>5

\* handleRegisterStatus, once the agent API has answered.
LEMMA ToldStep ==
  ASSUME A2AInv, UNCHANGED <<scene, chainVars>>, Observe, NEW c \in Calls, Told(c)
  PROVE  A2AInv'
<1> DEFINE k == call[c]
<1>1. call[c].pc = "told" /\ UNCHANGED <<sessions, taskCounter>>
  BY DEF Told
<1>2. /\ Runs(call[c]) /\ k.token \in 1 .. Len(sessions)
      /\ k.about # 0 => /\ k.about \in TaskIds /\ TokenOf(k.token, At(c), k.about)
      /\ k.said = "registered" => Reported(k.number, sessions[k.token].key)
      /\ k.task \in 0 .. taskCounter
  BY <1>1, PollKnows
<1>3. 0 \in 0 .. taskCounter
  BY A2AAssumption DEF A2AInv, StoresOK
<1>4. ASSUME NEW said, said \notin Claims, NEW state \in States,
             Store(c, k.task, state, said), NEW why, Forget(c, why) \/ Renewed(c),
             why = "expired"
      PROVE  A2AInv'
  <2> SUFFICES ASSUME NEW new, new = EndedAs(c, said, call[c].task) PROVE A2AInv'
    OBVIOUS
  <2>1. call' = [call EXCEPT ![c] = new] /\ tasks' \in [Processes -> [TaskIds -> States]]
    BY <1>2, <1>4, TaskStored DEF Store, EndedAs
  <2>2. /\ StoresOK'
        /\ \A i \in 1 .. Len(sessions) : GoneFor(sessions[i]) => GoneFor(sessions[i])'
    BY <1>1, <1>4, <2>1, Forgets, Renews
  <2>3. EndOf(call[c], said, call[c].task, new)
    BY EndedShape
  <2>4. /\ DOMAIN new = DOMAIN Idle /\ new.pc = "answered" /\ new.process = k.process
        /\ new.caller = k.caller /\ new.id = k.id /\ new.about = k.about
        /\ new.gated = k.gated /\ new.task \in {Idle.task, k.task} /\ new.said = said
        /\ new.siblings = {}
    BY <2>3 DEF EndOf
  <2>5. new.task \in 0 .. taskCounter
    <3>1. Idle.task = 0
      BY DEF Idle
    <3> QED
      BY <1>2, <1>3, <2>4, <3>1
  <2>6. \A facts : AnswerOK(new, facts)'
    BY <1>4, <2>4 DEF AnswerOK, Claims
  <2> QED
    BY <1>1, <1>2, <2>1, <2>2, <2>4, <2>5, <2>6, TokenMoves
<1>5. CASE Forget(c, "expired") /\ Store(c, k.task, "failed", "expired")
  BY <1>4, <1>5 DEF Claims, States
<1>6. CASE Renewed(c) /\ Store(c, k.task, "working", "working")
  BY <1>4, <1>6 DEF Claims, States
<1>7. CASE /\ k.said = "registered" /\ Forget(c, "registered")
           /\ tasks' = [tasks EXCEPT ![At(c)][k.task] = "completed"]
           /\ call' = [call EXCEPT ![c] = [Ended(c, "registered") EXCEPT
                                             !.number = call[c].number, !.token = call[c].token]]
  <2> DEFINE e == Ended(c, "registered")
  <2>1. EndOf(call[c], "registered", 0, e)
    BY EndedShape
  <2> SUFFICES ASSUME NEW new, new = [e EXCEPT !.number = k.number, !.token = k.token]
               PROVE  A2AInv'
    OBVIOUS
  <2>2. call' = [call EXCEPT ![c] = new] /\ tasks' \in [Processes -> [TaskIds -> States]]
    BY <1>2, <1>7, TaskStored DEF States
  <2>3. /\ StoresOK'
        /\ \A i \in 1 .. Len(sessions) : GoneFor(sessions[i]) => GoneFor(sessions[i])'
    BY <1>1, <1>7, <2>2, Forgets
  <2> HIDE DEF e
  <2>4. "number" \in DOMAIN Idle /\ "token" \in DOMAIN Idle /\ Idle.task = 0
    BY DEF Idle
  <2>5. /\ DOMAIN new = DOMAIN Idle /\ new.pc = "answered" /\ new.process = k.process
        /\ new.caller = k.caller /\ new.id = k.id /\ new.about = k.about
        /\ new.gated = k.gated /\ new.task = 0 /\ new.said = "registered"
        /\ new.siblings = {} /\ new.number = k.number /\ new.token = k.token
    BY <2>1, <2>4 DEF EndOf
  <2>6. \A facts : AnswerOK(new, facts)'
    BY <1>1, <1>2, <1>7, <2>5 DEF AnswerOK, Reported, TokenOf, chainVars
  <2> QED
    BY <1>1, <1>2, <1>3, <2>2, <2>3, <2>5, <2>6, TokenMoves
<1>8. CASE /\ Store(c, k.task, "failed", "not a registration")
           /\ UNCHANGED <<tokens, pushes, historyVars>>
  <2>1. Same
    BY <1>1, <1>8 DEF Same, historyVars
  <2> QED
    BY <1>1, <1>2, <1>8, <2>1, OwnTask, StoreQuietly DEF Claims, States
<1> QED
  BY <1>5, <1>6, <1>7, <1>8 DEF Told

-----------------------------------------------------------------------------
(* Handlers that open a session.                                           *)

\* One session more.
LEMMA OneMore ==
  ASSUME SessionsOK, NEW session, Opened(session)
  PROVE  /\ Len(sessions) \in Nat /\ Len(sessions') = Len(sessions) + 1
         /\ \A i \in 1 .. Len(sessions) : sessions'[i] = sessions[i]
         /\ sessions'[Len(sessions) + 1] = session
         /\ \A i \in 1 .. Len(sessions') : i \in 1 .. Len(sessions) \/ i = Len(sessions) + 1
         /\ sessions' \in Seq({sessions'[i] : i \in DOMAIN sessions'})
<1> DEFINE S == {sessions[i] : i \in DOMAIN sessions} \cup {session}
           n == Len(sessions)
<1>1. sessions \in Seq({sessions[i] : i \in DOMAIN sessions})
  BY DEF SessionsOK
<1>2. sessions \in Seq(S) /\ session \in S
  <2>1. \A i \in 1 .. Len(sessions) : sessions[i] \in S
    BY <1>1
  <2> QED
    BY <1>1, <2>1
<1>3. n \in Nat
  BY <1>2
<1> HIDE DEF S
<1>4. /\ Len(sessions') = n + 1 /\ sessions'[n + 1] = session /\ sessions' \in Seq(S)
      /\ \A i \in 1 .. n : sessions'[i] = sessions[i]
  BY <1>2 DEF Opened
<1>5. sessions' \in Seq({sessions'[i] : i \in DOMAIN sessions'})
  <2>1. sessions' \in [1 .. Len(sessions') -> {sessions'[i] : i \in DOMAIN sessions'}]
    BY <1>4
  <2>2. Len(sessions') \in Nat
    BY <1>4
  <2> QED
    BY <2>1, <2>2
<1> HIDE DEF n
<1>6. \A i \in 1 .. n + 1 : i \in 1 .. n \/ i = n + 1
  BY <1>3
<1> QED
  BY <1>3, <1>4, <1>5, <1>6 DEF n

\* A handler opens a session for the task it has for itself, and keeps its token.
LEMMA Opens ==
  ASSUME A2AInv, UNCHANGED <<scene, chainVars, taskCounter, dropped>>, Observe,
         NEW c \in Calls, Runs(call[c]), call[c].task # 0,
         NEW session, Opened(session), session.task = call[c].task, session.process = At(c),
         AboutOK(session),
         Keep(c), Store(c, call[c].task, "input-required", "scan")
  PROVE  A2AInv'
<1> DEFINE n == Len(sessions)
           t == call[c].task
           p == At(c)
<1>1. /\ n \in Nat /\ Len(sessions') = n + 1
      /\ \A i \in 1 .. n : sessions'[i] = sessions[i]
      /\ sessions'[n + 1] = session
      /\ \A i \in 1 .. Len(sessions') : i \in 1 .. n \/ i = n + 1
      /\ sessions' \in Seq({sessions'[i] : i \in DOMAIN sessions'})
  BY OneMore DEF A2AInv
<1>2. /\ CallOK(call[c], seen[c]) /\ call[c].pc # "idle" /\ p \in Processes
      /\ taskCounter \in Nat /\ MaxTasks \in Nat /\ taskCounter <= MaxTasks
      /\ t \in 0 .. taskCounter
  BY AtWork DEF Runs
<1>3. t \in TaskIds /\ t \in 1 .. taskCounter
  BY <1>2
<1>4. /\ \A d \in Calls \ {c} : Runs(call[d]) => call[d].task # t
      /\ \A d \in Calls : call[d].pc # "idle" => call[d].about # t
      /\ \A i \in 1 .. n : sessions[i].task # t
  BY DEF A2AInv, TasksOK
<1>5. now \in Nat /\ ChainOK /\ SessionsOK /\ StoresOK /\ SceneOK
  BY DEF A2AInv, ChainOK
<1>6. tokens' = [tokens EXCEPT ![p][t] = n + 1]
  BY DEF Keep
<1>7. tasks' \in [Processes -> [TaskIds -> States]]
  BY TaskStored DEF Store, States
<1> HIDE DEF n, t, p
<1>8. Later
  <2>1. \A i \in 1 .. n : sessions'[i] = sessions[i] /\ (GoneFor(sessions[i]) => GoneFor(sessions[i])')
    BY <1>1 DEF GoneFor, chainVars
  <2>2. n \in Nat /\ Len(sessions') \in Nat /\ n <= Len(sessions')
    BY <1>1
  <2> QED
    BY <1>2, <1>5, <2>1, <2>2 DEF Later, chainVars, n
<1>9. ChainOK' /\ SceneOK'
  BY <1>5 DEF chainVars, ChainOK, SceneOK, HasHumanProof, Registry!LedgerOK
<1>10. \A d \in Calls : call[d].pc # "idle" => NoneOpened(call[d].about)
  <2>1. \A i \in 1 .. Len(sessions') : i > n => sessions'[i].task = t
    <3>1. ASSUME NEW i \in 1 .. Len(sessions'), i > n
          PROVE  i = n + 1
      <4>1. i \notin 1 .. n
        BY <1>1, <3>1
      <4> QED
        BY <1>1, <4>1
    <3> QED
      BY <1>1, <3>1 DEF t
  <2> QED
    BY <1>4, <2>1 DEF NoneOpened, n
<1>11. SessionsOK'
  <2>1. ASSUME NEW i \in 1 .. Len(sessions')
        PROVE  SessionOK(sessions[i])'
    <3>1. CASE i \in 1 .. n
      <4>1. SessionOK(sessions[i]) /\ sessions'[i] = sessions[i]
        BY <1>1, <1>5, <3>1 DEF SessionsOK, n
      <4> QED
        BY <4>1 DEF SessionOK, AboutOK, Was, chainVars
    <3>2. CASE i = n + 1
      BY <1>1, <1>2, <1>3, <3>2 DEF SessionOK, AboutOK, Was, chainVars, t, p
    <3> QED
      BY <1>1, <3>1, <3>2
  <2>2. ASSUME NEW i \in 1 .. Len(sessions'), NEW j \in 1 .. Len(sessions'),
               sessions'[i].task = sessions'[j].task
        PROVE  i = j
    <3>1. CASE i \in 1 .. n /\ j \in 1 .. n
      BY <1>1, <1>5, <2>2, <3>1 DEF SessionsOK, n
    <3>2. CASE i = n + 1 /\ j \in 1 .. n
      BY <1>1, <1>4, <2>2, <3>2 DEF t
    <3>3. CASE j = n + 1 /\ i \in 1 .. n
      BY <1>1, <1>4, <2>2, <3>3 DEF t
    <3> QED
      BY <1>1, <3>1, <3>2, <3>3
  <2> QED
    BY <1>1, <2>1, <2>2 DEF SessionsOK
<1>12. StoresOK'
  <2>1. tokens \in [Processes -> [TaskIds -> Nat]] /\ taskCounter \in 0 .. MaxTasks
    BY <1>5 DEF StoresOK
  <2>2. n + 1 \in Nat /\ n + 1 # NoToken
    BY <1>1
  <2>3. /\ tokens' \in [Processes -> [TaskIds -> Nat]] /\ tokens'[p][t] = n + 1
        /\ \A q \in Processes, u \in TaskIds : q # p \/ u # t => tokens'[q][u] = tokens[q][u]
    BY <1>2, <1>3, <1>6, <2>1, <2>2
  <2>4. ASSUME NEW q \in Processes, NEW u \in TaskIds, NEW x, x = tokens'[q][u], x # NoToken
        PROVE  TokenOf(x, q, u)'
    <3>1. CASE q = p /\ u = t
      <4>1. x = n + 1 /\ n + 1 \in 1 .. Len(sessions')
        BY <1>1, <2>3, <2>4, <3>1
      <4> QED
        BY <1>1, <3>1, <4>1 DEF TokenOf, t, p
    <3>2. CASE q # p \/ u # t
      <4>1. x = tokens[q][u]
        BY <2>3, <2>4, <3>2
      <4>2. TokenOf(x, q, u)
        BY <1>5, <2>4, <4>1 DEF StoresOK
      <4>3. x \in 1 .. n /\ sessions'[x] = sessions[x]
        BY <1>1, <4>2 DEF TokenOf, n
      <4>4. x \in 1 .. Len(sessions')
        BY <1>1, <4>3
      <4> QED
        BY <4>2, <4>3, <4>4 DEF TokenOf
    <3> QED
      BY <3>1, <3>2
  <2>5. ASSUME NEW i \in 1 .. Len(sessions')
        PROVE  \/ tokens'[sessions'[i].process][sessions'[i].task] # NoToken
               \/ GoneFor(sessions[i])'
    <3>1. CASE i \in 1 .. n
      <4>1. /\ sessions'[i] = sessions[i] /\ sessions[i].task # t
            /\ tokens[sessions[i].process][sessions[i].task] # NoToken \/ GoneFor(sessions[i])
        BY <1>1, <1>4, <1>5, <3>1 DEF StoresOK, n
      <4>2. sessions[i].task \in TaskIds /\ sessions[i].process \in Processes
        BY <1>2, <1>5, <3>1 DEF SessionsOK, SessionOK, n
      <4>3. tokens'[sessions[i].process][sessions[i].task]
              = tokens[sessions[i].process][sessions[i].task]
        BY <2>3, <4>1, <4>2
      <4> QED
        BY <4>1, <4>3 DEF GoneFor, chainVars
    <3>2. CASE i = n + 1
      BY <1>1, <2>2, <2>3, <3>2 DEF t, p
    <3> QED
      BY <1>1, <3>1, <3>2
  <2>6. /\ DOMAIN dropped' = TaskIds /\ dropped' = [u \in TaskIds |-> dropped'[u]]
        /\ taskCounter' \in 0 .. MaxTasks
    BY <1>5 DEF StoresOK
  <2> QED
    BY <1>7, <2>3, <2>4, <2>5, <2>6 DEF StoresOK
<1>13. CallsOK' /\ TasksOK'
  <2> SUFFICES ASSUME NEW new, new = EndedAs(c, "scan", call[c].task) PROVE CallsOK' /\ TasksOK'
    OBVIOUS
  <2>1. call' = [call EXCEPT ![c] = new]
    BY DEF Store, EndedAs
  <2>2. EndOf(call[c], "scan", call[c].task, new)
    BY EndedShape
  <2>3. /\ DOMAIN new = DOMAIN Idle /\ new.pc = "answered" /\ new.process = call[c].process
        /\ new.caller = call[c].caller /\ new.id = call[c].id /\ new.about = call[c].about
        /\ new.gated = call[c].gated /\ new.task \in {Idle.task, call[c].task}
        /\ new.said = "scan" /\ new.siblings = {}
    BY <2>2 DEF EndOf
  <2>4. new.task \in 0 .. taskCounter
    <3>1. Idle.task = 0 /\ 0 \in 0 .. taskCounter
      BY <1>2 DEF Idle
    <3> QED
      BY <1>2, <2>3, <3>1 DEF t
  <2>5. ASSUME NEW facts, seen[c] \subseteq facts
        PROVE  CallOK(new, facts)'
    <3>1. WaitOK(new, facts)'
      BY <2>3 DEF WaitOK
    <3>2. AnswerOK(new, facts)'
      BY <2>3 DEF AnswerOK
    <3> QED
      BY <1>2, <2>3, <2>4, <2>5, <3>1, <3>2 DEF CallOK
  <2>6. CallsOK'
    BY <1>8, <1>10, <2>1, <2>3, <2>5, CallMoves DEF A2AInv
  <2>7. call'[c] = new /\ \A d \in Calls \ {c} : call'[d] = call[d]
    BY <2>1 DEF A2AInv, CallsOK
  <2>8. \A d \in Calls : /\ Runs(call'[d]) => d # c /\ Runs(call[d]) /\ call'[d].task = call[d].task
                         /\ call'[d].pc # "idle" => call[d].pc # "idle" /\ call'[d].about = call[d].about
    BY <1>2, <2>3, <2>7 DEF Runs
  <2>9. ASSUME NEW b \in Calls, Runs(call'[b]), call'[b].task # 0
        PROVE  /\ \A d \in Calls \ {b} : Runs(call'[d]) => call'[d].task # call'[b].task
               /\ \A d \in Calls : call'[d].pc # "idle" => call'[d].about # call'[b].task
               /\ \A i \in 1 .. Len(sessions') : sessions'[i].task # call'[b].task
    <3>1. b # c /\ Runs(call[b]) /\ call[b].task # 0 /\ call'[b].task = call[b].task
      BY <2>8, <2>9
    <3>2. call[b].task # t
      BY <1>4, <3>1
    <3>3. \A i \in 1 .. Len(sessions') : sessions'[i].task # call'[b].task
      BY <1>1, <3>1, <3>2 DEF A2AInv, TasksOK, t, n
    <3> QED
      BY <2>8, <3>1, <3>3 DEF A2AInv, TasksOK
  <2>10. TasksOK'
    BY <2>9 DEF TasksOK, Runs
  <2> QED
    BY <2>6, <2>10
<1> QED
  BY <1>9, <1>11, <1>12, <1>13 DEF A2AInv

\* The API refuses, or it cannot be reached.
LEMMA FailedStep ==
  ASSUME A2AInv, UNCHANGED <<scene, chainVars, historyVars, taskCounter>>, Observe,
         NEW c \in Calls, Runs(call[c]), NEW said, said \notin Claims, Failed(c, said)
  PROVE  A2AInv'
<1>1. Same
  BY DEF Failed, Same, historyVars
<1> QED
  BY <1>1, OwnTask, StoreQuietly DEF Failed, States

\* handleRegister.
LEMMA RegisterStep ==
  ASSUME A2AInv, UNCHANGED <<scene, chainVars, historyVars>>, Observe,
         NEW c \in Calls, HandleRegister(c)
  PROVE  A2AInv'
<1>1. Runs(call[c]) /\ UNCHANGED taskCounter /\ call[c].pc = "register"
  BY DEF HandleRegister, Runs
<1>2. call[c].task # 0 /\ call[c].message \in Message /\ scene.keys \subseteq AgentKeySet
  BY <1>1, AtWork, A2AAssumption DEF WaitOK, A2AInv, SceneOK
<1>3. UNCHANGED <<scene, chainVars, taskCounter, dropped>>
  BY <1>1 DEF historyVars
<1>4. CASE Failed(c, "failed")
  BY <1>1, <1>4, FailedStep DEF Claims
<1>5. ASSUME NEW m, m = call[c].message, NEW key, key \in RegisterKeys(m),
             Opened([NewSession(c, "register") EXCEPT
                           !.human = m.human, !.key = key, !.mode = Mode(m),
                           !.nonce = nonce[key]]),
             AskToScan(c)
      PROVE  A2AInv'
  <2> SUFFICES ASSUME NEW new, new = [NewSession(c, "register") EXCEPT
                           !.human = m.human, !.key = key, !.mode = Mode(m),
                           !.nonce = nonce[key]]
               PROVE  A2AInv'
    OBVIOUS
  <2>1. /\ new.kind = "register" /\ new.task = call[c].task /\ new.process = At(c)
        /\ new.key = key /\ new.human = m.human
    BY DEF NewSession
  <2>2. key \in AgentKeySet /\ m.human \in Humans \cup {NoHuman}
    BY <1>2, <1>5 DEF RegisterKeys, Message, AgentKeySet
  <2>3. AboutOK(new)
    BY <2>1, <2>2 DEF AboutOK
  <2> QED
    BY <1>1, <1>2, <1>3, <1>5, <2>1, <2>3, Opens DEF AskToScan
<1> QED
  BY <1>4, <1>5 DEF HandleRegister

\* handleDeregister.
LEMMA DeregisterStep ==
  ASSUME A2AInv, UNCHANGED <<scene, chainVars, historyVars>>, Observe,
         NEW c \in Calls, HandleDeregister(c)
  PROVE  A2AInv'
<1> DEFINE k == call[c]
<1>1. Runs(call[c]) /\ UNCHANGED taskCounter /\ k.pc \in {"deregister", "deregister-address"}
  BY DEF HandleDeregister, Runs
<1>2. /\ k.task # 0 /\ k.id # 0 /\ DOMAIN k = DOMAIN Idle
      /\ k.pc = "deregister-address" => k.key = NoKey \/ Was(k.id, k.key)
  <2>1. WaitOK(k, seen[c]) /\ DOMAIN k = DOMAIN Idle
    BY <1>1, AtWork
  <2> QED
    BY <1>1, <2>1 DEF WaitOK
<1>3. UNCHANGED <<scene, chainVars, taskCounter, dropped>> /\ ChainOK
  BY <1>1 DEF historyVars, A2AInv
<1>4. CASE Failed(c, "failed")
  BY <1>1, <1>4, FailedStep DEF Claims
<1>7. CASE k.pc = "deregister" /\ ~ HasHumanProof(k.id) /\ Failed(c, "not found")
  <2>1. Same
    BY <1>3, <1>7 DEF Failed, Same
  <2>2. <<"gone", k.id>> \in seen[c]
    BY <1>1, <1>2, <1>7, EverSeenNow
  <2>3. ASSUME NEW new, NEW facts, EndOf(call[c], "not found", call[c].task, new),
               seen[c] \subseteq facts
        PROVE  AnswerOK(new, facts)
    BY <2>2, <2>3 DEF EndOf, AnswerOK
  <2> QED
    BY <1>1, <1>7, <2>1, <2>3, StoreTruly DEF Failed, States
<1>5. CASE /\ HasHumanProof(k.id)
           /\ call' = [call EXCEPT ![c].pc = "deregister-address",
                                   ![c].key = AddressOf(KeyOf(k.id))]
           /\ UNCHANGED <<sessions, storeVars>>
  <2> SUFFICES ASSUME NEW new, new = [k EXCEPT !.pc = "deregister-address",
                                               !.key = AddressOf(KeyOf(k.id))]
               PROVE  A2AInv'
    OBVIOUS
  <2>1. call' = [call EXCEPT ![c] = new] /\ Same /\ UNCHANGED <<taskCounter, tasks>>
    BY <1>3, <1>5 DEF A2AInv, CallsOK, Same, storeVars
  <2>2. AddressOf(KeyOf(k.id)) = NoKey \/ Was(k.id, AddressOf(KeyOf(k.id)))
    BY <1>3, <1>5, AgentIs DEF AddressOf, Was
  <2>3. "pc" \in DOMAIN Idle /\ "key" \in DOMAIN Idle
    BY DEF Idle
  <2>4. /\ DOMAIN new = DOMAIN Idle /\ new.pc = "deregister-address" /\ new.process = k.process
        /\ new.id = k.id /\ new.caller = k.caller /\ new.about = k.about
        /\ new.task = k.task /\ new.gated = k.gated /\ new.key = AddressOf(KeyOf(k.id))
    BY <1>2, <2>3
  <2>5. \A facts : WaitOK(new, facts)
    BY <1>2, <2>2, <2>4 DEF WaitOK
  <2> QED
    BY <1>1, <2>1, <2>4, <2>5, GoesOn DEF Waits
<1>6. CASE /\ k.pc = "deregister-address" /\ IdOf(k.key) # 0
           /\ Opened([NewSession(c, "deregister") EXCEPT
                        !.human = HumanOf(IdOf(call[c].key)), !.key = call[c].key,
                        !.id = IdOf(call[c].key)])
           /\ Keep(c)
           /\ Store(c, call[c].task, "input-required", "scan")
  <2> SUFFICES ASSUME NEW new, new = [NewSession(c, "deregister") EXCEPT
                        !.human = HumanOf(IdOf(call[c].key)), !.key = call[c].key,
                        !.id = IdOf(call[c].key)]
               PROVE  A2AInv'
    OBVIOUS
  <2>1. /\ new.task = call[c].task /\ new.process = At(c) /\ new.named = k.id
        /\ new.key = k.key /\ new.kind = "deregister"
    BY DEF NewSession
  <2>2. Was(k.id, k.key)
    BY <1>2, <1>3, <1>6, KeyIs
  <2>3. AboutOK(new)
    BY <2>1, <2>2 DEF AboutOK
  <2> QED
    BY <1>1, <1>2, <1>3, <1>6, <2>1, <2>3, Opens
<1> QED
  BY <1>4, <1>5, <1>6, <1>7 DEF HandleDeregister

\* handleRefreshProof.
LEMMA RefreshStep ==
  ASSUME A2AInv, UNCHANGED <<scene, chainVars, historyVars>>, Observe,
         NEW c \in Calls, HandleRefreshProof(c)
  PROVE  A2AInv'
<1> DEFINE k == call[c]
<1>1. Runs(call[c]) /\ UNCHANGED taskCounter /\ k.pc = "refresh"
  BY DEF HandleRefreshProof, Runs
<1>2. k.task # 0
  BY <1>1, AtWork DEF WaitOK
<1>3. UNCHANGED <<scene, chainVars, taskCounter, dropped>> /\ ChainOK
  BY <1>1 DEF historyVars, A2AInv
<1>4. CASE Failed(c, "failed")
  BY <1>1, <1>4, FailedStep DEF Claims
<1>5. CASE /\ HasHumanProof(k.id)
           /\ Opened([NewSession(c, "refresh") EXCEPT
                        !.human = HumanOf(call[c].id), !.key = KeyOf(call[c].id),
                        !.id = call[c].id])
           /\ Keep(c)
           /\ Store(c, call[c].task, "input-required", "scan")
  <2> SUFFICES ASSUME NEW new, new = [NewSession(c, "refresh") EXCEPT
                        !.human = HumanOf(call[c].id), !.key = KeyOf(call[c].id),
                        !.id = call[c].id]
               PROVE  A2AInv'
    OBVIOUS
  <2>1. /\ new.task = call[c].task /\ new.process = At(c) /\ new.named = k.id
        /\ new.key = KeyOf(k.id) /\ new.kind = "refresh"
    BY DEF NewSession
  <2>2. Was(k.id, KeyOf(k.id))
    BY <1>3, <1>5, AgentIs DEF Was
  <2>3. AboutOK(new)
    BY <2>1, <2>2 DEF AboutOK
  <2> QED
    BY <1>1, <1>2, <1>3, <1>5, <2>1, <2>3, Opens
<1> QED
  BY <1>4, <1>5 DEF HandleRefreshProof

-----------------------------------------------------------------------------
(* All that a request may do next.                                         *)

\* A step of one request keeps the invariant.
LEMMA StepMoves ==
  ASSUME A2AInv, Unmoved, Observe, NEW c \in Calls, Step(c)
  PROVE  A2AInv'
<1>1. UNCHANGED <<scene, chainVars, historyVars>>
  BY DEF Unmoved
<1>2. CASE Gate(c) \/ Body(c)
  BY <1>1, <1>2, GateStep, BodyStep
<1>3. CASE HandleRegister(c) \/ HandleDeregister(c) \/ HandleRefreshProof(c)
  BY <1>1, <1>3, RegisterStep, DeregisterStep, RefreshStep
<1>4. CASE AskStatus(c) \/ StatusLost(c)
  BY <1>1, <1>4, AskStatusStep, StatusLostStep
<1>5. CASE HandleVerify(c) \/ Read(c) \/ ReadFails(c)
  BY <1>1, <1>5, VerifyStep, ReadStep, ReadFailsStep
<1>6. CASE HandleLookup(c) \/ HandleCheckFreshness(c)
  BY <1>1, <1>6, LookupStep, FreshnessStep
<1> QED
  BY <1>2, <1>3, <1>4, <1>5, <1>6 DEF Step

-----------------------------------------------------------------------------
(* A request comes in.                                                     *)

\* What the client may ask about: a task or a session it knows of, or neither.
MayAsk(m, about, token) ==
    \/ about = 0 /\ token = NoToken /\ m.method \in {"message/send", "message/stream"}
    \/ /\ about \in 1 .. taskCounter /\ token = NoToken
       /\ AsksForTask(m) /\ Known(about)
    \/ about = 0 /\ token \in 1 .. Len(sessions) /\ AsksForStatus(m)

\* A request arrives.
LEMMA ArriveStep ==
  ASSUME A2AInv, NEW c \in Calls, NEW p \in Processes, NEW m, m \in scene.messages,
         NEW about, NEW token, MayAsk(m, about, token), Arrive(c, p, m, about, token)
  PROVE  A2AInv'
<1> DEFINE pc == IF m.caller = 0 THEN "body" ELSE "gate"
<1> SUFFICES ASSUME NEW new,
                    new = [Idle EXCEPT !.pc = pc, !.process = p, !.message = m, !.id = m.id,
                                       !.caller = m.caller, !.about = about, !.token = token]
             PROVE  A2AInv'
  OBVIOUS
<1>1. call' = [call EXCEPT ![c] = new] /\ ~ Runs(call[c]) /\ Observe
  BY DEF Arrive, Runs
<1>2. Same /\ UNCHANGED <<taskCounter, tasks>>
  BY DEF Arrive, Same, Unmoved, storeVars, historyVars
<1>3. /\ DOMAIN new = DOMAIN Idle /\ new.pc = pc /\ new.process = p /\ new.message = m
      /\ new.id = m.id /\ new.caller = m.caller /\ new.about = about /\ new.token = token
      /\ new.task = 0 /\ new.gated = "no"
  BY DEF Idle
<1>4. /\ pc \in {"body", "gate"} /\ (pc = "gate" => m.caller # 0)
  OBVIOUS
<1> HIDE DEF pc
<1>5. taskCounter \in Nat /\ MaxTasks \in Nat /\ taskCounter \in 0 .. MaxTasks
  BY A2AAssumption DEF A2AInv, StoresOK
<1>6. m \in Message
  BY A2AAssumption DEF A2AInv, SceneOK
<1>7. m.id \in Numbers /\ m.caller \in Numbers
  BY <1>6 DEF Message, Numbers
<1>8. /\ about \in 0 .. taskCounter
      /\ m.method = "message/send" /\ about # 0 => AsksForStatus(m)
      /\ m.method \in {"tasks/get", "tasks/cancel"} => about # 0
      /\ token # NoToken => about = 0 /\ token \in 1 .. Len(sessions)
  BY <1>5 DEF MayAsk, AsksForTask, AsksForStatus
<1>9. \A facts : CallOK(new, facts)'
  <2>1. \A facts : WaitOK(new, facts)
    BY <1>3, <1>4, <1>8 DEF WaitOK
  <2>2. \A facts : WaitOK(new, facts)'
    BY <1>2, <2>1, SameKnows
  <2>3. new.pc \in Waits /\ new.pc \notin {"idle", "answered"}
    BY <1>3, <1>4 DEF Waits
  <2>4. 0 \in 0 .. taskCounter
    BY <1>5
  <2> QED
    BY <1>2, <1>3, <1>7, <1>8, <2>2, <2>3, <2>4 DEF CallOK
<1>10. Runs(new)
  BY <1>3, <1>4 DEF Runs
<1>11. /\ DOMAIN call' = Calls /\ call' = [d \in Calls |-> call'[d]]
       /\ call'[c] = new /\ \A d \in Calls \ {c} : call'[d] = call[d]
  BY <1>1 DEF A2AInv, CallsOK
<1>12. /\ Later /\ \A t : NoneOpened(t)
       /\ ChainOK' /\ SceneOK' /\ StoresOK' /\ SessionsOK'
  <2>1. taskCounter' \in Nat /\ taskCounter <= taskCounter' /\ taskCounter' \in taskCounter .. MaxTasks
    BY <1>2, <1>5
  <2>2. tasks' \in [Processes -> [TaskIds -> States]]
    BY <1>2 DEF A2AInv, StoresOK
  <2> QED
    BY <1>2, <2>1, <2>2, SameIsLater, SameStores
<1>13. CallsOK'
  <2>1. CallOK(call[c], seen[c])' /\ \A id \in Subjects(call'[c]) : FactsOf(id)' \subseteq seen'[c]
    BY <1>1, <1>9, <1>10, <1>11, SeenBegins
  <2>2. ASSUME NEW d \in Calls \ {c}
        PROVE  CallOK(call[d], seen[d])' /\ (Runs(call[d])' => \A id \in Subjects(call'[d]) :
                                                FactsOf(id)' \subseteq seen'[d])
    <3>1. call[d].pc = "idle" \/ seen[d] \subseteq seen'[d]
      BY <1>1, <1>11, SeenGrows DEF Runs
    <3>2. CallOK(call[d], seen[d])
      BY DEF A2AInv, CallsOK
    <3>3. CallOK(call[d], seen[d])'
      BY <1>11, <1>12, <3>1, <3>2, CallStays
    <3> QED
      BY <1>1, <1>11, <3>3, SeenGrows DEF Runs
  <2> QED
    BY <1>11, <2>1, <2>2 DEF CallsOK
<1>14. TasksOK'
  <2>1. ASSUME NEW b \in Calls, Runs(call'[b]), call'[b].task # 0
        PROVE  /\ \A d \in Calls \ {b} : Runs(call'[d]) => call'[d].task # call'[b].task
               /\ \A d \in Calls : call'[d].pc # "idle" => call'[d].about # call'[b].task
               /\ \A i \in 1 .. Len(sessions) : sessions[i].task # call'[b].task
    <3>1. b # c /\ call'[b] = call[b] /\ Runs(call[b]) /\ call[b].task # 0
      BY <1>3, <1>11, <2>1
    <3>2. about # call[b].task
      BY <3>1 DEF MayAsk, Known, Runs
    <3>3. /\ \A d \in Calls \ {b} : Runs(call[d]) => call[d].task # call[b].task
          /\ \A d \in Calls : call[d].pc # "idle" => call[d].about # call[b].task
          /\ \A i \in 1 .. Len(sessions) : sessions[i].task # call[b].task
      BY <3>1 DEF A2AInv, TasksOK
    <3>4. call'[c].about # call[b].task /\ call'[c].task # call[b].task
      BY <1>3, <1>11, <3>1, <3>2
    <3>5. ASSUME NEW d \in Calls
          PROVE  /\ d # b /\ Runs(call'[d]) => call'[d].task # call[b].task
                 /\ call'[d].pc # "idle" => call'[d].about # call[b].task
      BY <1>11, <3>3, <3>4
    <3> QED
      BY <3>1, <3>3, <3>5
  <2> QED
    BY <1>2, <2>1 DEF TasksOK, Runs, Same
<1> QED
  BY <1>12, <1>13, <1>14 DEF A2AInv

-----------------------------------------------------------------------------
(* The chain moves.                                                        *)

\* The chain and the sessions move on without the endpoint.
LEMMA ChainMoves ==
  ASSUME A2AInv, Elsewhere, Observe, ChainOK', ever \subseteq ever',
         \A a \in ever : a \notin ledger => a \notin ledger', now' \in Nat, now <= now'
  PROVE  A2AInv'
<1>1. UNCHANGED <<scene, sessions, tasks, tokens, taskCounter, call, dropped>>
  BY DEF Elsewhere, storeVars, historyVars
<1>2. Len(sessions) \in Nat /\ taskCounter \in Nat /\ now \in Nat
  BY A2AAssumption DEF A2AInv, SessionsOK, StoresOK, ChainOK
<1>3. \A i \in 1 .. Len(sessions) : GoneFor(sessions[i]) => GoneFor(sessions[i])'
  BY <1>1 DEF GoneFor
<1>4. Later /\ \A t : NoneOpened(t)
  <2>1. Later
    BY <1>1, <1>2, <1>3 DEF Later
  <2>2. \A t : NoneOpened(t)
    BY <1>1, <1>2 DEF NoneOpened
  <2> QED
    BY <2>1, <2>2
<1>5. SessionsOK' /\ SceneOK'
  <2>1. \A i \in 1 .. Len(sessions) : SessionOK(sessions[i])'
    BY <1>1 DEF A2AInv, SessionsOK, SessionOK, AboutOK, Was
  <2> QED
    BY <1>1, <2>1 DEF A2AInv, SessionsOK, SceneOK
<1>6. StoresOK'
  <2>1. \A x, q, u : TokenOf(x, q, u) <=> TokenOf(x, q, u)'
    BY <1>1 DEF TokenOf
  <2> QED
    BY <1>1, <1>3, <2>1 DEF A2AInv, StoresOK
<1>7. ASSUME NEW d \in Calls
      PROVE  CallOK(call[d], seen[d])' /\ (Runs(call[d])' => \A id \in Subjects(call'[d]) :
                                              FactsOf(id)' \subseteq seen'[d])
  <2>1. call[d].pc = "idle" \/ seen[d] \subseteq seen'[d]
    BY <1>1, SeenGrows DEF Runs
  <2>2. CallOK(call[d], seen[d])
    BY DEF A2AInv, CallsOK
  <2>3. CallOK(call[d], seen[d])'
    BY <1>1, <1>4, <2>1, <2>2, CallStays
  <2> QED
    BY <1>1, <2>3, SeenGrows DEF Runs
<1>8. CallsOK'
  BY <1>1, <1>7 DEF A2AInv, CallsOK
<1>9. TasksOK'
  BY <1>1 DEF A2AInv, TasksOK, Runs
<1> QED
  BY <1>5, <1>6, <1>8, <1>9 DEF A2AInv

\* An agent is registered.
LEMMA RegisterMoves ==
  ASSUME A2AInv, NEW human \in Humans, NEW key \in AgentKeySet, NEW age \in ProofAges,
         Register(human, key, age)
  PROVE  A2AInv'
<1> DEFINE new == [number |-> issued + 1, human |-> human, key |-> key]
<1>1. ChainOK /\ now \in Nat /\ age \in Nat /\ MaxIssued \in Nat
  BY A2AAssumption DEF A2AInv, ChainOK
<1>2. /\ ledger' = ledger \cup {new} /\ issued' = issued + 1 /\ issued < MaxIssued
      /\ \A a \in ledger : a.key # key
      /\ expiresAt' = [expiresAt EXCEPT ![issued'] = now + age]
      /\ ever' = ever \cup ledger' /\ now' = now /\ Elsewhere /\ Observe
  BY DEF Register, Registry!Admit
<1>3. issued \in 0 .. MaxIssued /\ issued' \in AgentIds /\ now + age \in Nat
  BY <1>1, <1>2 DEF ChainOK, Registry!LedgerOK
<1>4. new \in Registry!Entries /\ new.number = issued + 1 /\ new.key = key
  BY <1>1, <1>2, <1>3 DEF Registry!Entries
<1> HIDE DEF new
<1>5. Registry!LedgerOK'
  <2>1. \A a \in ledger : a.number <= issued /\ a.number \in Nat
    BY <1>1 DEF ChainOK, Registry!LedgerOK, Registry!Entries
  <2>2. \A a \in ledger' : a.number <= issued'
    BY <1>1, <1>2, <1>3, <1>4, <2>1
  <2>3. \A a \in ledger : a.number # issued + 1
    BY <1>1, <1>3, <2>1
  <2>4. \A a, b \in ledger' : a.number = b.number \/ a.key = b.key => a = b
    BY <1>1, <1>2, <1>4, <2>3 DEF ChainOK, Registry!LedgerOK
  <2>5. ledger' \subseteq Registry!Entries
    BY <1>1, <1>2, <1>4 DEF ChainOK, Registry!LedgerOK
  <2>6. issued' \in 0 .. MaxIssued
    BY <1>2, <1>3
  <2> QED
    BY <2>2, <2>4, <2>5, <2>6 DEF Registry!LedgerOK, Registry!Entries
<1>6. /\ ledger' \subseteq ever' /\ ever \subseteq ever'
      /\ \A a \in ever' : a.key \in AgentKeySet /\ a.number \in 1 .. issued'
      /\ \A a \in ever : a \notin ledger => a \notin ledger'
  <2>1. \A a \in ever : a.number \in 1 .. issued' /\ a.number # issued + 1
    BY <1>1, <1>2, <1>3 DEF ChainOK
  <2>2. \A a \in ever' : a \in ever \/ a = new
    BY <1>1, <1>2 DEF ChainOK
  <2>3. issued + 1 \in 1 .. issued'
    BY <1>2, <1>3
  <2> QED
    BY <1>1, <1>2, <1>4, <2>1, <2>2, <2>3 DEF ChainOK
<1>7. expiresAt' \in [AgentIds -> Nat]
  BY <1>1, <1>2, <1>3 DEF ChainOK
<1>8. ASSUME NEW id \in AgentIds, expiresAt'[id] # 0
      PROVE  HasHumanProof(id)'
  BY <1>1, <1>2, <1>3, <1>4, <1>8 DEF ChainOK, HasHumanProof
<1>9. ChainOK'
  BY <1>1, <1>2, <1>5, <1>6, <1>7, <1>8 DEF ChainOK
<1> QED
  BY <1>1, <1>2, <1>6, <1>9, ChainMoves

\* An agent is revoked.
LEMMA RevokeMoves ==
  ASSUME A2AInv, NEW a \in ledger, Revoke(a)
  PROVE  A2AInv'
<1>1. ChainOK /\ now \in Nat
  BY DEF A2AInv, ChainOK
<1>2. /\ ledger' = ledger \ {a} /\ issued' = issued /\ now' = now /\ ever' = ever
      /\ expiresAt' = [expiresAt EXCEPT ![a.number] = 0] /\ Elsewhere /\ Observe
  BY DEF Revoke, Registry!Remove
<1>3. Registry!LedgerOK'
  BY <1>1, <1>2 DEF ChainOK, Registry!LedgerOK, Registry!Entries
<1>4. expiresAt' \in [AgentIds -> Nat]
  BY <1>1, <1>2 DEF ChainOK
<1>5. ASSUME NEW id \in AgentIds, expiresAt'[id] # 0
      PROVE  HasHumanProof(id)'
  <2>1. id # a.number /\ expiresAt[id] # 0
    BY <1>1, <1>2, <1>5 DEF ChainOK
  <2> QED
    BY <1>1, <1>2, <2>1 DEF ChainOK, HasHumanProof
<1>6. ChainOK'
  BY <1>1, <1>2, <1>3, <1>4, <1>5 DEF ChainOK
<1> QED
  BY <1>1, <1>2, <1>6, ChainMoves

\* A proof is refreshed.
LEMMA RefreshMoves ==
  ASSUME A2AInv, NEW a \in ledger, NEW age \in ProofAges, Refresh(a, age)
  PROVE  A2AInv'
<1>1. ChainOK /\ now \in Nat /\ age \in Nat
  BY A2AAssumption DEF A2AInv, ChainOK
<1>2. /\ ledger' = ledger /\ issued' = issued /\ now' = now /\ ever' = ever
      /\ expiresAt' = [expiresAt EXCEPT ![a.number] = now + age] /\ Elsewhere /\ Observe
  BY DEF Refresh
<1>3. Registry!LedgerOK' /\ now + age \in Nat
  BY <1>1, <1>2 DEF ChainOK, Registry!LedgerOK
<1>4. expiresAt' \in [AgentIds -> Nat]
  BY <1>1, <1>2, <1>3 DEF ChainOK
<1>5. ASSUME NEW id \in AgentIds, expiresAt'[id] # 0
      PROVE  HasHumanProof(id)'
  BY <1>1, <1>2, <1>5 DEF ChainOK, HasHumanProof
<1>6. ChainOK'
  BY <1>1, <1>2, <1>3, <1>4, <1>5 DEF ChainOK
<1> QED
  BY <1>1, <1>2, <1>6, ChainMoves

\* Time passes.
LEMMA TickMoves ==
  ASSUME A2AInv, Tick
  PROVE  A2AInv'
<1>1. ChainOK /\ now \in Nat /\ now' = now + 1 /\ Elsewhere /\ Observe
  BY DEF A2AInv, ChainOK, Tick
<1>2. ChainOK' /\ ever' = ever /\ ledger' = ledger
  BY <1>1 DEF Tick, ChainOK, HasHumanProof, Registry!LedgerOK
<1>3. now' \in Nat /\ now <= now'
  BY <1>1
<1> QED
  BY <1>1, <1>2, <1>3, ChainMoves

\* A QR code is scanned, or others act.
LEMMA ScanMoves ==
  ASSUME A2AInv, Scan \/ Others
  PROVE  A2AInv'
<1>1. scene.keys \subseteq AgentKeySet
  BY A2AAssumption DEF A2AInv, SceneOK
<1>2. CASE Scan
  <2> PICK i \in 1 .. Len(sessions) :
        LET s == sessions[i] IN
        \/ /\ s.kind = "register"
           /\ nonce[s.key] = s.nonce
           /\ \E human \in (IF s.human = NoHuman THEN Humans ELSE {s.human}), age \in ProofAges :
                 Register(human, s.key, age)
        \/ /\ s.kind = "deregister"
           /\ \E a \in ledger : a.key = s.key /\ a.human = s.human /\ Revoke(a)
        \/ /\ s.kind = "refresh"
           /\ \E a \in ledger, age \in ProofAges :
                 a.number = s.id /\ a.human = s.human /\ Refresh(a, age)
    BY <1>2 DEF Scan
  <2>1. AboutOK(sessions[i])
    BY DEF A2AInv, SessionsOK, SessionOK
  <2>2. CASE /\ sessions[i].kind = "register"
             /\ \E human \in (IF sessions[i].human = NoHuman THEN Humans ELSE {sessions[i].human}),
                   age \in ProofAges : Register(human, sessions[i].key, age)
    BY <2>1, <2>2, RegisterMoves DEF AboutOK
  <2> QED
    BY <2>2, RevokeMoves, RefreshMoves
<1>3. CASE Others
  BY <1>1, <1>3, RegisterMoves, RevokeMoves, RefreshMoves DEF Others
<1> QED
  BY <1>2, <1>3

-----------------------------------------------------------------------------
(* A process ends.                                                         *)

\* A process ends with its stores and the requests it was handling.
LEMMA RestartStep ==
  ASSUME A2AInv, NEW p \in Processes, Restart(p)
  PROVE  A2AInv'
<1>1. /\ UNCHANGED <<scene, chainVars, sessions, taskCounter>> /\ Observe
      /\ tasks' = [tasks EXCEPT ![p] = [t \in TaskIds |-> "none"]]
      /\ tokens' = [tokens EXCEPT ![p] = [t \in TaskIds |-> NoToken]]
      /\ dropped' = [t \in TaskIds |-> IF tokens[p][t] # NoToken THEN "restart" ELSE dropped[t]]
  BY DEF Restart
<1>2. /\ DOMAIN call' = Calls /\ call' = [c \in Calls |-> call'[c]]
      /\ \A c \in Calls : call'[c] = call[c] \/ (call'[c] = Idle /\ call[c].pc # "answered")
  BY DEF Restart
<1>3. /\ Len(sessions) \in Nat /\ taskCounter \in Nat /\ now \in Nat /\ MaxTasks \in Nat
      /\ taskCounter \in 0 .. MaxTasks
  BY A2AAssumption DEF A2AInv, SessionsOK, StoresOK, ChainOK
<1>4. \A i \in 1 .. Len(sessions) :
         sessions[i].task \in TaskIds /\ sessions[i].process \in Processes
  BY <1>3 DEF A2AInv, SessionsOK, SessionOK
<1>5. ASSUME NEW i \in 1 .. Len(sessions), GoneFor(sessions[i])
      PROVE  GoneFor(sessions[i])'
  <2>1. dropped'[sessions[i].task] \in {"restart", dropped[sessions[i].task]}
    BY <1>1, <1>4
  <2> QED
    BY <1>1, <1>5, <2>1 DEF GoneFor, chainVars
<1>6. Later /\ \A t : NoneOpened(t)
  <2>1. Later
    BY <1>1, <1>3, <1>5 DEF Later, chainVars
  <2>2. \A t : NoneOpened(t)
    BY <1>1, <1>3 DEF NoneOpened
  <2> QED
    BY <2>1, <2>2
<1>7. ChainOK' /\ SceneOK'
  BY <1>1 DEF A2AInv, chainVars, ChainOK, SceneOK, HasHumanProof, Registry!LedgerOK
<1>8. SessionsOK'
  <2>1. \A i \in 1 .. Len(sessions) : SessionOK(sessions[i])'
    BY <1>1 DEF A2AInv, SessionsOK, SessionOK, AboutOK, chainVars, Was
  <2> QED
    BY <1>1, <2>1 DEF A2AInv, SessionsOK
<1>9. StoresOK'
  <2>1. /\ tasks \in [Processes -> [TaskIds -> States]]
        /\ tokens \in [Processes -> [TaskIds -> Nat]]
    BY DEF A2AInv, StoresOK
  <2>2. tasks' \in [Processes -> [TaskIds -> States]]
    <3>1. [t \in TaskIds |-> "none"] \in [TaskIds -> States]
      BY DEF States
    <3> QED
      BY <1>1, <2>1, <3>1
  <2>3. /\ tokens' \in [Processes -> [TaskIds -> Nat]]
        /\ \A t \in TaskIds : tokens'[p][t] = NoToken
        /\ \A q \in Processes : q # p => tokens'[q] = tokens[q]
    <3>1. [t \in TaskIds |-> NoToken] \in [TaskIds -> Nat]
      OBVIOUS
    <3>2. tokens' \in [Processes -> [TaskIds -> Nat]]
      BY <1>1, <2>1, <3>1
    <3>3. tokens'[p] = [t \in TaskIds |-> NoToken] /\ \A q \in Processes : q # p => tokens'[q] = tokens[q]
      BY <1>1, <2>1
    <3> QED
      BY <3>2, <3>3
  <2>4. \A x, q, u : TokenOf(x, q, u) <=> TokenOf(x, q, u)'
    BY <1>1 DEF TokenOf
  <2>5. ASSUME NEW q \in Processes, NEW u \in TaskIds, NEW x, x = tokens'[q][u], x # NoToken
        PROVE  TokenOf(x, q, u)'
    <3>1. x = tokens[q][u]
      BY <2>3, <2>5
    <3>2. TokenOf(x, q, u)
      BY <2>5, <3>1 DEF A2AInv, StoresOK
    <3> QED
      BY <2>4, <3>2
  <2>6. ASSUME NEW i \in 1 .. Len(sessions)
        PROVE  \/ tokens'[sessions[i].process][sessions[i].task] # NoToken
               \/ GoneFor(sessions[i])'
    <3>1. \/ tokens[sessions[i].process][sessions[i].task] # NoToken
          \/ GoneFor(sessions[i])
      BY DEF A2AInv, StoresOK
    <3>2. CASE GoneFor(sessions[i])
      BY <1>5, <3>2
    <3>3. CASE sessions[i].process # p
      BY <1>4, <1>5, <2>3, <3>1, <3>3
    <3>4. CASE sessions[i].process = p /\ tokens[p][sessions[i].task] # NoToken
      <4>1. dropped'[sessions[i].task] = "restart"
        BY <1>1, <1>4, <3>4
      <4> QED
        BY <1>1, <4>1 DEF GoneFor
    <3> QED
      BY <3>1, <3>2, <3>3, <3>4
  <2>7. DOMAIN dropped' = TaskIds /\ dropped' = [t \in TaskIds |-> dropped'[t]]
    BY <1>1
  <2> QED
    BY <1>1, <1>3, <2>2, <2>3, <2>5, <2>6, <2>7 DEF StoresOK
<1>10. ASSUME NEW d \in Calls
       PROVE  CallOK(call[d], seen[d])' /\ (Runs(call[d])' => \A id \in Subjects(call'[d]) :
                                               FactsOf(id)' \subseteq seen'[d])
  <2>1. CallOK(call[d], seen[d])
    BY DEF A2AInv, CallsOK
  <2>2. CASE call'[d] = call[d]
    <3>1. call[d].pc = "idle" \/ seen[d] \subseteq seen'[d]
      BY <1>1, <2>2, SeenGrows DEF Runs
    <3>2. CallOK(call[d], seen[d])'
      BY <1>6, <2>1, <2>2, <3>1, CallStays
    <3> QED
      BY <1>1, <2>2, <3>2, SeenGrows DEF Runs
  <2>3. CASE call'[d] = Idle
    <3>1. /\ Idle.pc = "idle" /\ Idle.id = 0 /\ Idle.caller = 0 /\ Idle.task = 0
          /\ Idle.about = 0
      BY DEF Idle
    <3>2. 0 \in Numbers /\ 0 \in 0 .. taskCounter'
      BY <1>1, <1>3, A2AAssumption DEF Numbers
    <3>3. \A facts : CallOK(Idle, facts)'
      BY <3>1, <3>2 DEF CallOK, WaitOK
    <3> QED
      BY <2>3, <3>1, <3>3 DEF Runs
  <2> QED
    BY <1>2, <2>2, <2>3
<1>11. CallsOK'
  BY <1>2, <1>10 DEF CallsOK
<1>12. TasksOK'
  <2>1. Idle.pc = "idle"
    BY DEF Idle
  <2>2. \A d \in Calls : /\ Runs(call'[d]) => call'[d] = call[d]
                         /\ call'[d].pc # "idle" => call'[d] = call[d]
    BY <1>2, <2>1 DEF Runs
  <2>3. ASSUME NEW b \in Calls, Runs(call'[b]), call'[b].task # 0
        PROVE  /\ \A d \in Calls \ {b} : Runs(call'[d]) => call'[d].task # call'[b].task
               /\ \A d \in Calls : call'[d].pc # "idle" => call'[d].about # call'[b].task
               /\ \A i \in 1 .. Len(sessions) : sessions[i].task # call'[b].task
    <3>1. Runs(call[b]) /\ call[b].task # 0 /\ call'[b] = call[b]
      BY <2>2, <2>3
    <3> QED
      BY <2>2, <3>1 DEF A2AInv, TasksOK
  <2> QED
    BY <1>1, <2>3 DEF TasksOK, Runs
<1> QED
  BY <1>7, <1>8, <1>9, <1>11, <1>12 DEF A2AInv

\* Steps that leave all that the invariant is about.
LEMMA NothingMoves ==
  ASSUME A2AInv, UNCHANGED <<scene, chainVars, sessions, storeVars, taskCounter, call, seen,
                             historyVars>>
  PROVE  A2AInv'
<1>1. Same /\ UNCHANGED <<tasks, taskCounter, call, seen>>
  BY DEF Same, storeVars, historyVars
<1>2. /\ taskCounter \in Nat /\ taskCounter' \in Nat /\ taskCounter <= taskCounter'
      /\ taskCounter' \in taskCounter .. MaxTasks /\ tasks' \in [Processes -> [TaskIds -> States]]
  BY <1>1, A2AAssumption DEF A2AInv, StoresOK
<1>3. /\ Later /\ \A t : NoneOpened(t)
      /\ ChainOK' /\ SceneOK' /\ StoresOK' /\ SessionsOK'
  BY <1>1, <1>2, SameIsLater, SameStores
<1>4. ASSUME NEW d \in Calls
      PROVE  CallOK(call[d], seen[d])' /\ (Runs(call[d])' => \A id \in Subjects(call'[d]) :
                                              FactsOf(id)' \subseteq seen'[d])
  <2>1. CallOK(call[d], seen[d]) /\ (Runs(call[d]) => \A id \in Subjects(call[d]) :
                                              FactsOf(id) \subseteq seen[d])
    BY DEF A2AInv, CallsOK
  <2>2. CallOK(call[d], seen[d])'
    BY <1>1, <1>3, <2>1, CallStays
  <2> QED
    BY <1>1, <2>1, <2>2, FactsStay DEF Same, Runs
<1>5. CallsOK'
  BY <1>1, <1>4 DEF A2AInv, CallsOK
<1>6. TasksOK'
  BY <1>1 DEF A2AInv, TasksOK, Runs, Same
<1> QED
  BY <1>3, <1>5, <1>6 DEF A2AInv

-----------------------------------------------------------------------------
(* The theorem.                                                            *)

\* It holds where the endpoint starts.
LEMMA A2AInit ==
  Init => A2AInv
<1> SUFFICES ASSUME Init PROVE A2AInv
  OBVIOUS
<1>1. /\ Idle.pc = "idle" /\ Idle.id = 0 /\ Idle.caller = 0 /\ Idle.task = 0
      /\ Idle.about = 0
  BY DEF Idle
<1>2. {MaxIssued, MaxTasks} \subseteq Nat
  BY A2AAssumption
<1>3. SceneOK
  BY DEF Init, SceneOK
<1>4. ChainOK
  BY <1>2 DEF Init, Registry!Init, Registry!LedgerOK, ChainOK
<1>5. sessions = << >> /\ Len(sessions) = 0
  BY DEF Init
<1>6. SessionsOK
  BY <1>5 DEF SessionsOK
<1>7. StoresOK
  BY <1>2, <1>5 DEF Init, StoresOK, States
<1>8. call = [c \in Calls |-> Idle]
  BY DEF Init
<1>9. CallsOK
  <2>1. 0 \in Numbers /\ 0 \in 0 .. taskCounter
    BY <1>2 DEF Numbers, Init
  <2>2. \A facts : CallOK(Idle, facts)
    BY <1>1, <2>1 DEF CallOK, WaitOK
  <2>3. ~ Runs(Idle)
    BY <1>1 DEF Runs
  <2> QED
    BY <1>8, <2>2, <2>3 DEF CallsOK
<1>10. TasksOK
  BY <1>1, <1>8 DEF TasksOK, Runs
<1> QED
  BY <1>3, <1>4, <1>6, <1>7, <1>9, <1>10 DEF A2AInv

\* Every step keeps it.
LEMMA A2ANext ==
  A2AInv /\ [Next]_vars => A2AInv'
<1> SUFFICES ASSUME A2AInv, [Next]_vars PROVE A2AInv'
  OBVIOUS
<1>1. /\ scene.calls \subseteq Calls /\ scene.processes \subseteq Processes
  BY A2AAssumption DEF A2AInv, SceneOK
<1>2. ASSUME NEW c \in scene.calls, NEW p \in scene.processes, NEW m \in scene.messages,
             \/ m.method \in {"message/send", "message/stream"} /\ Arrive(c, p, m, 0, NoToken)
             \/ \E t \in 1 .. taskCounter :
                   AsksForTask(m) /\ Known(t) /\ Arrive(c, p, m, t, NoToken)
             \/ \E i \in 1 .. Len(sessions) : AsksForStatus(m) /\ Arrive(c, p, m, 0, i)
      PROVE  A2AInv'
  <2>1. PICK about, token : MayAsk(m, about, token) /\ Arrive(c, p, m, about, token)
    BY <1>2 DEF MayAsk
  <2> QED
    BY <1>1, <2>1, ArriveStep
<1>3. ASSUME NEW c \in scene.calls, Step(c), Unmoved, Observe
      PROVE  A2AInv'
  BY <1>1, <1>3, StepMoves
<1>4. ASSUME NEW c \in scene.calls, Told(c), UNCHANGED <<scene, chainVars, stream>>, Observe
      PROVE  A2AInv'
  BY <1>1, <1>4, ToldStep
<1>5. CASE ReadChunk
  BY <1>5, NothingMoves DEF ReadChunk
<1>6. CASE Scan \/ Others
  BY <1>6, ScanMoves
<1>7. CASE Tick
  BY <1>7, TickMoves
<1>8. ASSUME NEW p \in scene.processes, Restart(p)
      PROVE  A2AInv'
  BY <1>1, <1>8, RestartStep
<1>9. CASE UNCHANGED vars
  BY <1>9, NothingMoves DEF vars
<1> QED
  BY <1>2, <1>3, <1>4, <1>5, <1>6, <1>7, <1>8, <1>9 DEF Next

\* So it always holds.
LEMMA A2AAlways ==
  Spec => []A2AInv
BY A2AInit, A2ANext, PTL DEF Spec

\* What the endpoint says of an agent was so at some time while it answered.
THEOREM A2AAnswersWereTrue ==
  Spec => []AnswersWereTrue
<1>1. ASSUME A2AInv, NEW c \in Calls, call[c].pc = "answered"
      PROVE  /\ AnswerOK(call[c], seen[c])
             /\ call[c].gated = "fresh" => <<"fresh", call[c].caller>> \in seen[c]
  BY <1>1 DEF A2AInv, CallsOK, CallOK
<1>2. A2AInv => AnswersWereTrue
  BY <1>1 DEF AnswerOK, AnswersWereTrue
<1> QED
  BY <1>2, A2AAlways, PTL

\* A registration that a poll reports complete is that of the task asked for, under
\* the number of its agent or, of one revoked meanwhile, none; and every session is
\* about the agent that was named.
THEOREM A2ARegistrationReported ==
  Spec => []RegistrationReported
<1>1. ASSUME A2AInv PROVE RegistrationReported
  <2>1. \A p \in Processes, t \in TaskIds :
          tokens[p][t] # NoToken => sessions[tokens[p][t]].task = t
    BY <1>1 DEF A2AInv, StoresOK, TokenOf
  <2>2. \A i \in 1 .. Len(sessions) :
          sessions[i].kind # "register" =>
              \E a \in ever : a.number = sessions[i].named /\ a.key = sessions[i].key
    BY <1>1 DEF A2AInv, SessionsOK, SessionOK, AboutOK, Was
  <2>3. \A c \in Calls :
          call[c].pc = "answered" /\ call[c].said = "registered" =>
              /\ call[c].about # 0 => sessions[call[c].token].task = call[c].about
              /\ \E a \in ever :
                    /\ a.key = sessions[call[c].token].key
                    /\ a.number = call[c].number \/ (call[c].number = 0 /\ a \notin ledger)
    BY <1>1 DEF A2AInv, CallsOK, CallOK, AnswerOK, Reported
  <2> QED
    BY <2>1, <2>2, <2>3 DEF RegistrationReported
<1> QED
  BY <1>1, A2AAlways, PTL

\* A process that knows of no registration for a task had its token dropped by a
\* poll that found it complete or expired, or was restarted.
THEOREM A2APolledToTheEnd ==
  Spec => []PolledToTheEnd
<1>1. ASSUME A2AInv PROVE PolledToTheEnd
  <2> SUFFICES ASSUME NEW c \in Calls, NEW i \in 1 .. Len(sessions),
                      call[c].pc = "answered", call[c].said = "no registration",
                      sessions[i].task = call[c].about, sessions[i].process = call[c].process
               PROVE  GoneFor(sessions[i])
    BY DEF PolledToTheEnd, GoneFor
  <2>1. AnswerOK(call[c], seen[c])
    BY <1>1 DEF A2AInv, CallsOK, CallOK
  <2> QED
    BY <2>1 DEF AnswerOK
<1> QED
  BY <1>1, A2AAlways, PTL
=============================================================================
