--------------------------- MODULE SelfAgentVerifier ---------------------------
(***************************************************************************)
(* One SelfAgentVerifier of a service, typescript-sdk/src/                 *)
(* SelfAgentVerifier.ts: concurrent calls of verify that share a replay    *)
(* cache, a cache of on-chain answers, a cache of the provider's address   *)
(* and a rate limiter.  JavaScript runs a call without interruption from   *)
(* one await to the next, so an action is such a stretch; the answers to   *)
(* the reads of one Promise.all are produced by a node at instants of      *)
(* their own, and the chain moves between them.                            *)
(*                                                                         *)
(* The chain is the AgentLedger that SelfAgentRegistry implements, with    *)
(* the expiry and the provider of each proof.  An error is an outcome: the *)
(* texts are left out.                                                     *)
(***************************************************************************)
EXTENDS Integers, FiniteSets

CONSTANTS
    Calls,                \* calls of verify
    Requests,             \* signed requests: [id, key, ts, scheme]
    NoRequest,
    AgentKeySet,          \* keys that sign
    Humans, NoHuman,
    Providers, NoProvider,
    MaxIssued,            \* bound on the number of registrations
    LimitValues,          \* agents per human that a registry may allow
    ProofAge,             \* time a proof lasts on chain
    ProviderTtlFactor,    \* 12
    RpcTimeout,           \* longest time a call waits before it gets an error
    MaxTime,              \* bound on the clock
    Services              \* the services to choose from, each of Settings

\* A service configures its verifier and meets some of the calls, requests and
\* people; the bounds on registrations and on the clock are its own.
Settings ==
    [calls : SUBSET Calls, requests : SUBSET Requests, keys : SUBSET AgentKeySet,
     humans : SUBSET Humans, providers : SUBSET Providers,
     registrations : 0 .. MaxIssued, end : 1 .. MaxTime,
     limits : SUBSET LimitValues,
     maxAge : Nat, cacheTtl : Nat,
     maxAgentsPerHuman : Nat,         \* 0: any number
     requireSelfProvider : BOOLEAN,
     checkCredentials : BOOLEAN,      \* a minimum age, OFAC or nationality
     qualified : SUBSET Humans,       \* whose documents meet the requirement
     replayProtection : BOOLEAN, replayCacheMax : Nat,
     perMinute : Nat, perHour : Nat,  \* rate limits; 0: none
     minute : Nat, hour : Nat]        \* lengths of the two windows

AgentIds == 1 .. MaxIssued

ASSUME VerifierAssumption ==
    /\ {MaxIssued, ProofAge, ProviderTtlFactor, RpcTimeout, MaxTime} \subseteq Nat
    /\ RpcTimeout > 0
    /\ LimitValues \subseteq Nat
    /\ \A r \in Requests : r.key \in AgentKeySet /\ r.ts \in Nat
                           /\ r.scheme \in {"ecdsa", "ed25519"}
    /\ NoRequest \notin Requests
    /\ NoHuman \notin Humans
    /\ NoProvider \notin Providers
    /\ \A s \in Services : s \in Settings /\ s.minute <= s.hour

VARIABLES
    service,    \* the one of Services that runs
    \* the chain
    ledger, issued, limit, expiresAt, providerOf, selfProofProvider, now,
    \* the verifier
    call, cache, replayCache, selfProviderCache, buckets,
    \* history: every agent there was; when each was last fresh, each human last
    \* held no more than MaxAgentsPerHuman and each provider was last the
    \* registry's own; how often (at most 2) each request passed the replay
    \* check since the cache was cleared; when the limiter let requests of
    \* each key through
    ever, lastFresh, lastFew, lastSelf, passed, admitted

Registry == INSTANCE AgentLedger

MaxAge == service.maxAge
CacheTtl == service.cacheTtl
MaxAgentsPerHuman == service.maxAgentsPerHuman
RequireSelfProvider == service.requireSelfProvider
CheckCredentials == service.checkCredentials
EnableReplayProtection == service.replayProtection
ReplayCacheMaxEntries == service.replayCacheMax
PerMinute == service.perMinute
PerHour == service.perHour
Minute == service.minute
Hour == service.hour

chainVars == <<ledger, issued, limit, expiresAt, providerOf, selfProofProvider, now,
               ever, lastFresh, lastFew, lastSelf>>
verifierVars == <<call, cache, replayCache, selfProviderCache, buckets, passed, admitted>>
vars == <<service, chainVars, verifierVars>>

-----------------------------------------------------------------------------
(* The views of the registry that the verifier reads.                      *)

Fresh(id) == (\E a \in ledger : a.number = id) /\ now < expiresAt[id]

HumanOf(id) ==
    IF \E a \in ledger : a.number = id
    THEN (CHOOSE a \in ledger : a.number = id).human
    ELSE NoHuman

IdOf(key) ==
    IF \E a \in ledger : a.key = key
    THEN (CHOOSE a \in ledger : a.key = key).number
    ELSE 0

\* What a node answers about a key, the agent id and the human read before.
OnChain(key, id, human) ==
    [isVerifiedAgent |-> IdOf(key) # 0,
     getAgentId |-> IdOf(key),
     isProofFresh |-> Fresh(id),
     proofExpiresAt |-> expiresAt[id],
     getHumanNullifier |-> HumanOf(id),
     getAgentCountForHuman |-> Cardinality(Registry!HeldBy(human)),
     getProofProvider |-> providerOf[id]]

NoAnswers ==
    [isVerifiedAgent |-> FALSE, getAgentId |-> 0, isProofFresh |-> FALSE,
     proofExpiresAt |-> 0, getHumanNullifier |-> NoHuman,
     getAgentCountForHuman |-> 0, getProofProvider |-> NoProvider]

Questions ==
    [ident |-> {"isVerifiedAgent", "getAgentId"},
     detail |-> {"isProofFresh", "proofExpiresAt"}
        \cup (IF MaxAgentsPerHuman > 0
              THEN {"getHumanNullifier", "getAgentCountForHuman"} ELSE {})
        \cup (IF RequireSelfProvider THEN {"getProofProvider"} ELSE {})]

NoJob == [req |-> NoRequest, entered |-> 0]

\* A call: the phase whose answers it awaits or how it ended, the request with
\* the time its agent was looked up, when the phase began, what was answered.
Idle == [pc |-> "idle", job |-> NoJob, since |-> 0, known |-> {}, answers |-> NoAnswers]

Waiting == {"signature", "ident", "detail", "provider", "credentials"}

Init ==
    /\ service \in Services
    /\ Registry!Init
    /\ expiresAt = [id \in 0 .. MaxIssued |-> 0]
    /\ providerOf = [id \in 0 .. MaxIssued |-> NoProvider]
    /\ selfProofProvider \in service.providers
    /\ now = 1
    /\ call = [c \in Calls |-> Idle]
    /\ cache = [k \in AgentKeySet |-> [answers |-> NoAnswers, expiresAt |-> 0]]
    /\ replayCache = {}
    /\ selfProviderCache = [address |-> NoProvider, expiresAt |-> 0]
    /\ buckets = [k \in AgentKeySet |-> {}]
    /\ ever = {}
    /\ lastFresh = [id \in AgentIds |-> 0]
    /\ lastFew = [h \in Humans |-> now]
    /\ lastSelf = [p \in Providers |-> IF p = selfProofProvider THEN now ELSE 0]
    /\ passed = [r \in Requests |-> 0]
    /\ admitted = [k \in AgentKeySet |-> {}]

-----------------------------------------------------------------------------
(* Steps of a call.  Await leaves it in a phase, Accept and Reject end it.  *)

Await(c, job, phase, answers) ==
    call' = [call EXCEPT ![c] = [pc |-> phase, job |-> job, since |-> now,
                                 known |-> {}, answers |-> answers]]

Accept(c, job, answers) ==
    call' = [call EXCEPT ![c] = [pc |-> "valid", job |-> job, since |-> 0,
                                 known |-> {}, answers |-> answers]]

\* A result that is not valid, or an error that verify throws, leaves nothing.
Reject(c) == call' = [call EXCEPT ![c] = Idle]

\* RateLimiter.check: a sliding window over the times of what it let through; a number
\* tells two of one time apart.
Recent(key, window) == {e \in buckets[key] : e.at > now - window}

RateLimited == PerMinute > 0 \/ PerHour > 0

\* Slip: one request too many.
PastLimit(key) ==
    \/ PerMinute > 0 /\ Cardinality(Recent(key, Minute)) > PerMinute
    \/ PerHour > 0 /\ Cardinality(Recent(key, Hour)) > PerHour

OverLimit(key) ==
    \/ PerMinute > 0 /\ Cardinality(Recent(key, Minute)) >= PerMinute
    \/ PerHour > 0 /\ Cardinality(Recent(key, Hour)) >= PerHour

Passage(key) == [nth |-> Cardinality(admitted[key]) + 1, at |-> now]

Pushed(key) == Recent(key, Hour) \cup {Passage(key)}

CheckRate(c, job, answers) ==
    LET key == job.req.key IN
    \/ /\ ~ RateLimited
       /\ Accept(c, job, answers)
       /\ UNCHANGED <<buckets, admitted>>
    \/ /\ RateLimited
       /\ OverLimit(key)
       /\ Reject(c)
       /\ buckets' = [buckets EXCEPT ![key] = Recent(key, Hour)]
       /\ UNCHANGED admitted
    \/ /\ RateLimited
       /\ ~ OverLimit(key)
       /\ Accept(c, job, answers)
       /\ buckets' = [buckets EXCEPT ![key] = Pushed(key)]
       /\ admitted' = [admitted EXCEPT ![key] = @ \cup {Passage(key)}]

\* Nothing but the state of the call changes.
NoRateCheck == UNCHANGED <<buckets, admitted>>

\* Slip: any provider will do.
AcceptableFromAny(answers, selfProvider) ==
    /\ RequireSelfProvider => answers.getProofProvider # NoProvider
    /\ MaxAgentsPerHuman > 0 => answers.getAgentCountForHuman <= MaxAgentsPerHuman

\* The provider of the proof, and the agents of its human.
Acceptable(answers, selfProvider) ==
    /\ RequireSelfProvider => answers.getProofProvider = selfProvider
    /\ MaxAgentsPerHuman > 0 => answers.getAgentCountForHuman <= MaxAgentsPerHuman

Screen(c, job, answers, selfProvider) ==
    \/ /\ ~ Acceptable(answers, selfProvider)
       /\ Reject(c)
       /\ NoRateCheck
    \/ /\ Acceptable(answers, selfProvider)
       /\ CheckCredentials
       /\ Await(c, job, "credentials", answers)
       /\ NoRateCheck
    \/ /\ Acceptable(answers, selfProvider)
       /\ ~ CheckCredentials
       /\ CheckRate(c, job, answers)

ProviderKnown == RequireSelfProvider => selfProviderCache.expiresAt > now

\* verify, from what checkOnChain returned.
Judge(c, job, answers) ==
    LET proven == answers.isVerifiedAgent /\ answers.isProofFresh IN
    \/ /\ ~ proven
       /\ Reject(c)
       /\ NoRateCheck
    \/ /\ proven
       /\ ~ ProviderKnown
       /\ Await(c, job, "provider", answers)
       /\ NoRateCheck
    \/ /\ proven
       /\ ProviderKnown
       /\ Screen(c, job, answers, selfProviderCache.address)

WindowEnd(r) == r.ts + MaxAge

\* Slip: a full cache drops what expires last.
PrunedLatestFirst(kept) ==
    LET live == {r \in replayCache : WindowEnd(r) > now}
        overflow == Cardinality(live) - ReplayCacheMaxEntries
    IN /\ kept \subseteq live
       /\ Cardinality(live \ kept) = IF overflow > 0 THEN overflow ELSE 0
       /\ \A r \in live \ kept, s \in kept : r.ts >= s.ts

\* pruneReplayCache: what has expired goes, then what expires first until the
\* cache is within its size; entries that expire together go in any order.
Pruned(kept) ==
    LET live == {r \in replayCache : WindowEnd(r) > now}
        overflow == Cardinality(live) - ReplayCacheMaxEntries
    IN /\ kept \subseteq live
       /\ Cardinality(live \ kept) = IF overflow > 0 THEN overflow ELSE 0
       /\ \A r \in live \ kept, s \in kept : r.ts <= s.ts

\* checkAndRecordReplay, when it finds nothing.
RecordRequest(r) ==
    \/ /\ EnableReplayProtection
       /\ \E kept \in SUBSET replayCache :
             /\ Pruned(kept)
             /\ r \notin kept
             /\ replayCache' = kept \cup {r}
       /\ passed' = [passed EXCEPT ![r] = IF @ < 2 THEN @ + 1 ELSE @]
    \/ /\ ~ EnableReplayProtection
       /\ UNCHANGED <<replayCache, passed>>

\* Slip: entries live as long as the provider's address.
HitForLonger(key) ==
    cache[key].expiresAt > 0
       /\ cache[key].expiresAt - CacheTtl + CacheTtl * ProviderTtlFactor > now

CacheHit(key) == cache[key].expiresAt > now

\* The replay check and what follows it up to the next await.
Enter(c, r) ==
    LET job == [req |-> r, entered |-> now] IN
    /\ \/ /\ EnableReplayProtection
          /\ \E kept \in SUBSET replayCache :
                Pruned(kept) /\ r \in kept /\ replayCache' = kept
          /\ Reject(c)
          /\ NoRateCheck
          /\ UNCHANGED passed
       \/ /\ RecordRequest(r)
          /\ \/ /\ CacheHit(r.key)
                /\ Judge(c, job, cache[r.key].answers)
             \/ /\ ~ CacheHit(r.key)
                /\ Await(c, job, "ident", NoAnswers)
                /\ NoRateCheck
    /\ UNCHANGED <<cache, selfProviderCache>>

\* verify, with a timestamp within MaxAge of the clock on either side.
Receive(c, r) ==
    /\ call[c].pc \notin Waiting
    /\ now <= r.ts + MaxAge
    /\ r.ts <= now + MaxAge
    /\ \/ /\ r.scheme = "ecdsa"
          /\ Enter(c, r)
       \/ /\ r.scheme = "ed25519"
          /\ Await(c, [req |-> r, entered |-> 0], "signature", NoAnswers)
          /\ UNCHANGED <<cache, replayCache, selfProviderCache, buckets, passed, admitted>>

\* verifyAsync found the Ed25519 signature valid.
SignatureVerified(c) ==
    /\ call[c].pc = "signature"
    /\ Enter(c, call[c].job.req)

\* A node answers one of the reads that the call awaits.  The human's count is
\* asked for once the human is known.
Answered(c, question) ==
    LET asked == call[c] IN
    /\ asked.pc \in {"ident", "detail"}
    /\ question \in Questions[asked.pc] \ asked.known
    /\ question = "getAgentCountForHuman" => "getHumanNullifier" \in asked.known
    /\ call' = [call EXCEPT
          ![c].known = @ \cup {question},
          ![c].answers[question] =
              OnChain(asked.job.req.key, asked.answers.getAgentId,
                      asked.answers.getHumanNullifier)[question]]
    /\ UNCHANGED <<cache, replayCache, selfProviderCache, buckets, passed, admitted>>

\* The agent is there: checkOnChain asks for the rest.
AskDetails(c) ==
    /\ call[c].pc = "ident"
    /\ call[c].known = Questions.ident
    /\ call[c].answers.getAgentId # 0
    /\ Await(c, call[c].job, "detail", call[c].answers)
    /\ UNCHANGED <<cache, replayCache, selfProviderCache, buckets, passed, admitted>>

\* checkOnChain has all it asked for, whatever it says of the agent.
StoreAnswers(c) ==
    LET job == call[c].job
        answers == call[c].answers
    IN
    /\ \/ /\ call[c].pc = "ident"
          /\ answers.getAgentId = 0
       \/ call[c].pc = "detail"
    /\ call[c].known = Questions[call[c].pc]
    /\ cache' = [cache EXCEPT ![job.req.key] =
                     [answers |-> answers, expiresAt |-> now + CacheTtl]]
    /\ Judge(c, job, answers)
    /\ UNCHANGED <<replayCache, selfProviderCache, passed>>

\* getSelfProviderAddress has its answer.
ProviderAnswered(c) ==
    /\ call[c].pc = "provider"
    /\ selfProviderCache' = [address |-> selfProofProvider,
                             expiresAt |-> now + CacheTtl * ProviderTtlFactor]
    /\ Screen(c, call[c].job, call[c].answers, selfProofProvider)
    /\ UNCHANGED <<cache, replayCache, passed>>

\* fetchCredentials has its answer; those of an agent without a token are empty.
CredentialsAnswered(c) ==
    LET answers == call[c].answers IN
    /\ call[c].pc = "credentials"
    /\ \/ /\ HumanOf(answers.getAgentId) \in service.qualified
          /\ CheckRate(c, call[c].job, answers)
       \/ /\ HumanOf(answers.getAgentId) \notin service.qualified
          /\ Reject(c)
          /\ NoRateCheck
    /\ UNCHANGED <<cache, replayCache, selfProviderCache, passed>>

\* An RPC error in place of the answer: the credentials are done without.
CredentialsFailed(c) ==
    /\ call[c].pc = "credentials"
    /\ CheckRate(c, call[c].job, call[c].answers)
    /\ UNCHANGED <<cache, replayCache, selfProviderCache, passed>>

\* An invalid Ed25519 signature, or an RPC error before the credentials.
CallFailed(c) ==
    /\ call[c].pc \in Waiting \ {"credentials"}
    /\ Reject(c)
    /\ UNCHANGED <<cache, replayCache, selfProviderCache, buckets, passed, admitted>>

ClearCache ==
    /\ cache' = [k \in AgentKeySet |-> [answers |-> NoAnswers, expiresAt |-> 0]]
    /\ selfProviderCache' = [address |-> NoProvider, expiresAt |-> 0]
    /\ replayCache' = {}
    /\ passed' = [r \in Requests |-> 0]
    /\ UNCHANGED <<call, buckets, admitted>>

VerifierStep ==
    /\ \/ \E c \in service.calls :
             \/ \E r \in service.requests : Receive(c, r)
             \/ SignatureVerified(c)
             \/ \E question \in Questions.ident \cup Questions.detail : Answered(c, question)
             \/ AskDetails(c)
             \/ StoreAnswers(c)
             \/ ProviderAnswered(c)
             \/ CredentialsAnswered(c)
             \/ CredentialsFailed(c)
             \/ CallFailed(c)
       \/ ClearCache
    /\ UNCHANGED chainVars

-----------------------------------------------------------------------------
(* The chain, as far as the verifier can see it.                           *)

Register(human, key, provider) ==
    /\ issued < service.registrations
    /\ Registry!Admit(human, key)
    /\ expiresAt' = [expiresAt EXCEPT ![issued'] = now + ProofAge]
    /\ providerOf' = [providerOf EXCEPT ![issued'] = provider]
    /\ ever' = ever \cup ledger'
    /\ UNCHANGED <<selfProofProvider, now>>

Revoke(a) ==
    /\ Registry!Remove(a)
    /\ expiresAt' = [expiresAt EXCEPT ![a.number] = 0]
    /\ providerOf' = [providerOf EXCEPT ![a.number] = NoProvider]
    /\ UNCHANGED <<selfProofProvider, now, ever>>

Refresh(a) ==
    /\ expiresAt' = [expiresAt EXCEPT ![a.number] = now + ProofAge]
    /\ UNCHANGED <<ledger, issued, limit, providerOf, selfProofProvider, now, ever>>

SetLimit(l) ==
    /\ Registry!SetLimit(l)
    /\ UNCHANGED <<expiresAt, providerOf, selfProofProvider, now, ever>>

SetSelfProofProvider(provider) ==
    /\ selfProofProvider' = provider
    /\ UNCHANGED <<ledger, issued, limit, expiresAt, providerOf, now, ever>>

\* Time passes for the chain and the service alike, but no call waits longer
\* than its RPC provider lets it.
Tick ==
    /\ now < service.end
    /\ \A c \in Calls : call[c].pc \in Waiting => now < call[c].since + RpcTimeout
    /\ now' = now + 1
    /\ UNCHANGED <<ledger, issued, limit, expiresAt, providerOf, selfProofProvider, ever>>

ChainStep ==
    /\ \/ \E h \in service.humans, k \in service.keys, p \in service.providers :
             Register(h, k, p)
       \/ \E a \in ledger : Revoke(a) \/ Refresh(a)
       \/ \E l \in service.limits : SetLimit(l)
       \/ \E p \in service.providers : SetSelfProofProvider(p)
       \/ Tick
    /\ lastFresh' = [id \in AgentIds |-> IF Fresh(id)' THEN now' ELSE lastFresh[id]]
    /\ lastFew' = [h \in Humans |-> IF /\ MaxAgentsPerHuman > 0
                                      /\ Cardinality(Registry!HeldBy(h)') <= MaxAgentsPerHuman
                                   THEN now' ELSE lastFew[h]]
    /\ lastSelf' = [p \in Providers |-> IF p = selfProofProvider' THEN now' ELSE lastSelf[p]]
    /\ UNCHANGED verifierVars

Next == (VerifierStep \/ ChainStep) /\ UNCHANGED service

Spec == Init /\ [][Next]_vars

-----------------------------------------------------------------------------
(* Properties.                                                             *)

Answers ==
    [isVerifiedAgent : BOOLEAN, getAgentId : 0 .. MaxIssued, isProofFresh : BOOLEAN,
     proofExpiresAt : Nat, getHumanNullifier : Humans \cup {NoHuman},
     getAgentCountForHuman : Nat, getProofProvider : Providers \cup {NoProvider}]

Phases == Waiting \cup {"idle", "valid"}

\* A request that passed the replay check is remembered while its timestamp is
\* still good, through concurrent calls, pruning and eviction; only a cache
\* full of requests that stay good at least as long lets one go.
RememberedUnlessFull ==
    EnableReplayProtection =>
       \A r \in Requests :
          passed[r] > 0 /\ now < WindowEnd(r) /\ r \notin replayCache =>
             Cardinality({s \in replayCache : s.ts >= r.ts}) >= ReplayCacheMaxEntries

\* What a valid result says was true of one agent: the agent it names was
\* registered under the key that signed, by the human it names if it names one,
\* and no longer ago than the cache and one wait allow its proof was fresh and
\* that human had no more agents than admissible, though the answers were read
\* at different instants of a moving chain and may be those of another call.
ValidWasTrue ==
    \A c \in Calls : call[c].pc = "valid" =>
       LET answers == call[c].answers
           job == call[c].job
           human == answers.getHumanNullifier
           earliest == job.entered - CacheTtl - RpcTimeout
       IN
       /\ \E a \in ever :
             /\ a.number = answers.getAgentId
             /\ a.key = job.req.key
             /\ human \in {a.human, NoHuman}
       /\ lastFresh[answers.getAgentId] > earliest
       /\ MaxAgentsPerHuman > 0 /\ human # NoHuman => lastFew[human] > earliest

\* The provider that vouched for a valid result was the registry's own while the
\* call ran, or before it within the time that its address is cached for.
ProviderWasSelf ==
    RequireSelfProvider =>
       \A c \in Calls : call[c].pc = "valid" =>
          LET provider == call[c].answers.getProofProvider
              entered == call[c].job.entered
          IN
          /\ provider \in Providers
          /\ \/ lastSelf[provider] >= entered
             \/ lastSelf[provider] > entered - CacheTtl * ProviderTtlFactor

AdmittedIn(key, first, last) ==
    Cardinality({e \in admitted[key] : first < e.at /\ e.at <= last})

\* In no window of a minute or an hour, wherever it starts, does one agent get
\* more requests through than the limit of that window.
RateHolds ==
    \A key \in AgentKeySet, t \in 1 .. MaxTime :
       /\ PerMinute > 0 => AdmittedIn(key, t - Minute, t) <= PerMinute
       /\ PerHour > 0 => AdmittedIn(key, t - Hour, t) <= PerHour
=============================================================================
