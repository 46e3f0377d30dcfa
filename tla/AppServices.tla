------------------------------ MODULE AppServices ------------------------------
(***************************************************************************)
(* The services of the web app that answer agents: the gas relay           *)
(* (app/app/api/demo/chain-verify*, with the contracts AgentDemoVerifier   *)
(* and AgentDemoVerifierEd25519), the verification demos (verify, census,  *)
(* agent-to-agent, chat) and the account abstraction proxy (aa/token,      *)
(* bundler, paymaster).  Several server processes run the same routes, each*)
(* with its memory, over one SecurityStore and one chain.                  *)
(*                                                                         *)
(* An action is what a request does from one await to the next.  A request *)
(* that is refused before its first await changes nothing and is left out. *)
(* What SelfAgentVerifier answers is its module's business: here it is any *)
(* answer.  Texts, origins, bodies and the two networks are left out.      *)
(***************************************************************************)
EXTENDS SecurityStore, Sequences, FiniteSets

CONSTANTS
    Calls,
    Requests,       \* signed: [route, key, signer, nonce, deadline, ts, id]
    NoRequest,
    Humans, NoHuman,
    AgentKeySet, MaxIssued, LimitValues,
    DemoKey,        \* the demo agent's
    Clients,        \* browsers of the account abstraction proxy
    MaxAge,         \* age at which a timestamp is stale
    RelayLimit,     \* 3 relayed verifications of a human
    RelayHour,      \* in this time
    Quota,          \* requests of a client to a route of the proxy in a window
    TokenTtl,       \* lifetime of a proxy token
    MaxSent,        \* bound on the transactions of the relay
    Scenes          \* what happens in a behaviour, and its bounds:
                    \* [routes, processes, calls, requests, keys, restarts, faults,
                    \*  registrations, allowances, end]

Relays == {"chain-verify", "chain-verify-ed25519"}
Demos == {"verify", "census", "agent-to-agent", "chat"}
ProxyRoutes == {"token", "bundler", "paymaster"}

AgentIds == 1 .. MaxIssued

ASSUME ServicesAssumption ==
    /\ {MaxIssued, MaxAge, RelayLimit, RelayHour, Quota, TokenTtl, MaxSent,
        Window, MaxTime} \subseteq Nat
    /\ LimitValues \subseteq Nat
    /\ Quota > 0 /\ Window > 0
    /\ CounterKeys = ProxyRoutes \X Clients
    /\ ReplayKeys = Requests
    /\ NoRequest \notin Requests /\ NoHuman \notin Humans
    /\ \A r \in Requests : r.route \in Relays \cup Demos /\ r.ts \in Nat
    /\ "shared" \notin Processes
    /\ \A s \in Scenes : /\ s.calls \subseteq Calls /\ s.processes \subseteq Processes
                          /\ s.requests \subseteq Requests /\ s.keys \subseteq AgentKeySet

VARIABLES
    scene,
    \* the chain: the registry, the two demo contracts, transactions sent
    ledger, issued, limit, nonces, verificationCount, txs,
    \* memory of each process beside its part of the store: the times the relay
    \* let a human through, the census, the callers the demo agent counted
    relayed, census, verifiedAgents,
    \* proxy tokens issued, requests in progress
    tokens, call,
    \* history: how often each request passed the replay check of each store
    \* while its timestamp was good; the count and the time at which each store
    \* counted a request that was let through
    passed, allowed

Chain == INSTANCE AgentLedger

chainVars == <<ledger, issued, limit, nonces, verificationCount, txs>>
processVars == <<relayed, census, verifiedAgents>>
historyVars == <<passed, allowed>>
vars == <<scene, storeVars, chainVars, processVars, tokens, call, historyVars>>

Stores == Processes \cup {"shared"}

\* The signer is who the key names: AgentDemoVerifier takes the key for its
\* address, AgentDemoVerifierEd25519 for the digest of its public key.
EcdsaSigned(request) ==
    request.route = "chain-verify" /\ request.key = request.signer

Ed25519Signed(request) ==
    request.route = "chain-verify-ed25519" /\ request.key = <<"keccak256", request.signer>>

RequestKeys == {r.key : r \in Requests}

IdOf(key) ==
    IF \E a \in ledger : a.key = key
    THEN (CHOOSE a \in ledger : a.key = key).number
    ELSE 0

HumanOf(id) ==
    IF \E a \in ledger : a.number = id
    THEN (CHOOSE a \in ledger : a.number = id).human
    ELSE NoHuman

\* Slip: two agents that are gone have the same human, none.
SameHumanUnproven(a, b) == HumanOf(a) = HumanOf(b)

\* sameHuman of the registry.
SameHuman(a, b) == HumanOf(a) # NoHuman /\ HumanOf(a) = HumanOf(b)

Unread == -1

Idle == [pc |-> "idle", process |-> "none", request |-> NoRequest,
         counterKey |-> <<>>, ttl |-> 0, since |-> 0, count |-> 0, id |-> 0, demoId |-> 0, tx |-> 0,
         same |-> FALSE]

Init ==
    /\ scene \in Scenes
    /\ StoreInit
    /\ Chain!Init
    /\ nonces = [relay \in Relays |-> [k \in RequestKeys |-> 0]]
    /\ verificationCount = [relay \in Relays |-> [k \in RequestKeys |-> 0]]
    /\ txs = << >>
    /\ relayed = [p \in Processes |-> [relay \in Relays |-> [h \in Humans \cup {NoHuman} |-> << >>]]]
    /\ census = [p \in Processes |-> {}]
    /\ verifiedAgents = [p \in Processes |-> {}]
    /\ tokens = {}
    /\ call = [c \in Calls |-> Idle]
    /\ passed = [r \in Requests |-> [s \in Stores |-> 0]]
    /\ allowed = [s \in Stores |-> [k \in CounterKeys |-> {}]]

-----------------------------------------------------------------------------
(* Steps of a request.                                                     *)

Go(c, pc) == call' = [call EXCEPT ![c].pc = pc]

\* An answer that is an error, or one nothing depends on.
Finish(c) == call' = [call EXCEPT ![c] = Idle]

Begin(c, p, request) ==
    call' = [call EXCEPT ![c] = [Idle EXCEPT !.pc = IF request.route \in Relays
                                                    THEN "simulate" ELSE "verify",
                                             !.process = p, !.request = request]]

\* A signed request reaches a relay or a demo.
Receive(c, p, request) ==
    /\ call[c].pc \in {"idle", "answered"}
    /\ request.route \in scene.routes
    /\ Begin(c, p, request)
    /\ UNCHANGED <<storeVars, chainVars, processVars, tokens, historyVars>>

\* metaVerifyAgent would not revert.
MetaValid(request) ==
    /\ now <= request.deadline
    /\ nonces[request.route][request.key] = request.nonce
    /\ EcdsaSigned(request) \/ Ed25519Signed(request)
    /\ IdOf(request.key) # 0

\* The lifetime that checkAndRecordReplay asks for, at least one unit.
ReplayTtl(request) ==
    IF request.ts + MaxAge > now THEN request.ts + MaxAge - now ELSE 1

CheckReplay(c) ==
    call' = [call EXCEPT ![c].pc = "replay", ![c].ttl = ReplayTtl(call[c].request)]

\* The relay's static call, or the demo's verifier, accepts the request.
Accepted(c) ==
    LET request == call[c].request IN
    /\ \/ call[c].pc = "simulate" /\ MetaValid(request)
       \/ call[c].pc = "verify"
    /\ CheckReplay(c)
    /\ UNCHANGED <<storeVars, chainVars, processVars, tokens, historyVars>>

\* An answer is no, or an await throws: the request ends with an error.
CallFailed(c) ==
    /\ call[c].pc \in {"simulate", "verify", "agentId", "nullifier", "credentials", "send",
                       "receipt", "counts", "facts", "sameHuman", "upstream"}
    /\ Finish(c)
    /\ UNCHANGED <<storeVars, chainVars, processVars, tokens, historyVars>>

\* What follows the replay check, by route.
RelayPassed(c) == call[c].request.route \in Relays /\ Go(c, "agentId") /\ UNCHANGED processVars

VerifyPassed(c) == call[c].request.route = "verify" /\ Finish(c) /\ UNCHANGED processVars

CensusPassed(c) ==
    /\ call[c].request.route = "census"
    /\ Finish(c)
    /\ census' = [census EXCEPT ![call[c].process] = @ \cup {call[c].request.key}]
    /\ UNCHANGED <<relayed, verifiedAgents>>

DemoAgentPassed(c) ==
    /\ call[c].request.route = "agent-to-agent"
    /\ call' = [call EXCEPT ![c].pc = "facts", ![c].id = Unread, ![c].demoId = Unread]
    /\ UNCHANGED processVars

ChatPassed(c) ==
    call[c].request.route = "chat" /\ Go(c, "upstream") /\ UNCHANGED processVars

AfterReplay(c) ==
    \/ RelayPassed(c) \/ VerifyPassed(c) \/ CensusPassed(c)
    \/ DemoAgentPassed(c) \/ ChatPassed(c)

\* A store that did not hold the key lets the request pass.
JudgeReplay(c, store, inserted) ==
    LET request == call[c].request IN
    \/ /\ inserted
       /\ AfterReplay(c)
       /\ passed' = IF now < request.ts + MaxAge
                    THEN [passed EXCEPT ![request][store] = @ + 1] ELSE passed
       /\ UNCHANGED allowed
    \/ /\ ~ inserted
       /\ Finish(c)
       /\ UNCHANGED <<processVars, historyVars>>

\* The shared store answers.
ReplayAnswered(c) ==
    LET request == call[c].request IN
    /\ call[c].pc = "replay"
    /\ SharedSet(request, call[c].ttl)
    /\ JudgeReplay(c, "shared", setUntil[request] = 0)
    /\ UNCHANGED <<now, counter, memorySetUntil, memoryCounter, chainVars, tokens>>

\* Slip: the memory is asked and not told.
AskMemoryOnly(c) ==
    LET request == call[c].request
        p == call[c].process
    IN /\ UNCHANGED memorySetUntil
       /\ JudgeReplay(c, p, memorySetUntil[p][request] = 0)

UseMemory(c) ==
    LET request == call[c].request
        p == call[c].process
    IN /\ MemorySet(p, request, call[c].ttl)
       /\ JudgeReplay(c, p, memorySetUntil[p][request] = 0)

\* The command failed, carried out or not.
ReplayLost(c) ==
    /\ scene.faults
    /\ call[c].pc = "replay"
    /\ SharedSet(call[c].request, call[c].ttl) \/ UNCHANGED setUntil
    /\ UseMemory(c)
    /\ UNCHANGED <<now, counter, memoryCounter, chainVars, tokens>>

-----------------------------------------------------------------------------
(* The relay after the replay check.                                       *)

AgentIdAnswered(c) ==
    /\ call[c].pc = "agentId"
    /\ call' = [call EXCEPT ![c].id = IdOf(call[c].request.key), ![c].pc = "nullifier"]
    /\ UNCHANGED <<storeVars, chainVars, processVars, tokens, historyVars>>

\* checkRateLimit of the route: times within the hour, kept by one process.
NullifierAnswered(c) ==
    LET p == call[c].process
        human == HumanOf(call[c].id)
        relay == call[c].request.route
        recent == SelectSeq(relayed[p][relay][human], LAMBDA t : t > now - RelayHour)
        over == Len(recent) >= RelayLimit
    IN
    /\ call[c].pc = "nullifier"
    /\ relayed' = [relayed EXCEPT ![p][relay][human] =
                       IF over THEN recent ELSE Append(recent, now)]
    /\ IF over THEN Finish(c) ELSE Go(c, "credentials")
    /\ UNCHANGED <<storeVars, chainVars, census, verifiedAgents, tokens, historyVars>>

\* The SDK's answer, which only adds to the response.
CredentialsAnswered(c) ==
    /\ call[c].pc = "credentials"
    /\ Go(c, "send")
    /\ UNCHANGED <<storeVars, chainVars, processVars, tokens, historyVars>>

\* Gas is estimated, which runs the contract, and the transaction sent; its
\* hash may not come back.
Send(c) ==
    /\ call[c].pc = "send"
    /\ Len(txs) < MaxSent
    /\ MetaValid(call[c].request)
    /\ txs' = Append(txs, [request |-> call[c].request, status |-> "pending"])
    /\ \/ call' = [call EXCEPT ![c].pc = "receipt", ![c].tx = Len(txs')]
       \/ scene.faults /\ Finish(c)
    /\ UNCHANGED <<storeVars, ledger, issued, limit, nonces, verificationCount, processVars,
                   tokens, historyVars>>

\* Slip: the nonce stays.
MetaVerifyUncounted(request) ==
    LET relay == request.route
        key == request.key
    IN /\ verificationCount' = [verificationCount EXCEPT ![relay][key] = @ + 1]
       /\ UNCHANGED nonces

MetaVerify(request) ==
    LET relay == request.route
        key == request.key
    IN /\ nonces' = [nonces EXCEPT ![relay][key] = @ + 1]
       /\ verificationCount' = [verificationCount EXCEPT ![relay][key] = @ + 1]

\* A transaction is mined: metaVerifyAgent runs or reverts.
Mine(i) ==
    /\ txs[i].status = "pending"
    /\ \/ /\ MetaValid(txs[i].request)
          /\ MetaVerify(txs[i].request)
          /\ txs' = [txs EXCEPT ![i].status = "verified"]
       \/ /\ ~ MetaValid(txs[i].request)
          /\ txs' = [txs EXCEPT ![i].status = "reverted"]
          /\ UNCHANGED <<nonces, verificationCount>>
    /\ UNCHANGED <<storeVars, ledger, issued, limit, processVars, tokens, call, historyVars>>

\* tx.wait returns for a transaction that succeeded; one that reverted makes
\* it throw, see CallFailed.
ReceiptAnswered(c) ==
    /\ call[c].pc = "receipt"
    /\ txs[call[c].tx].status = "verified"
    /\ Go(c, "counts")
    /\ UNCHANGED <<storeVars, chainVars, processVars, tokens, historyVars>>

\* Eight seconds pass first: the answer is the hash, pending.
ReceiptLate(c) ==
    /\ call[c].pc = "receipt"
    /\ Finish(c)
    /\ UNCHANGED <<storeVars, chainVars, processVars, tokens, historyVars>>

CountsAnswered(c) ==
    /\ call[c].pc = "counts"
    /\ call' = [call EXCEPT ![c].pc = "answered",
                            ![c].count = verificationCount[call[c].request.route][call[c].request.key]]
    /\ UNCHANGED <<storeVars, chainVars, processVars, tokens, historyVars>>

-----------------------------------------------------------------------------
(* The demo agent's answer: whether the caller has its human.              *)

\* The number of one of the two agents; each read has its instant.
FactAnswered(c) ==
    /\ call[c].pc = "facts"
    /\ \/ /\ call[c].id = Unread
          /\ call' = [call EXCEPT ![c].id = IdOf(call[c].request.key)]
       \/ /\ call[c].demoId = Unread
          /\ call' = [call EXCEPT ![c].demoId = IdOf(DemoKey)]
    /\ UNCHANGED <<storeVars, chainVars, processVars, tokens, historyVars>>

\* The caller is counted and the answer signed.
Answer(c, same) ==
    LET p == call[c].process IN
    /\ call' = [call EXCEPT ![c].pc = "answered", ![c].same = same]
    /\ verifiedAgents' = [verifiedAgents EXCEPT ![p] = @ \cup {call[c].request.key}]
    /\ UNCHANGED <<relayed, census>>

\* All are read; sameHuman is asked only about two numbers.
FactsComplete(c) ==
    /\ call[c].pc = "facts"
    /\ call[c].id # Unread /\ call[c].demoId # Unread
    /\ \/ /\ call[c].id # 0 /\ call[c].demoId # 0
          /\ Go(c, "sameHuman")
          /\ UNCHANGED processVars
       \/ /\ call[c].id = 0 \/ call[c].demoId = 0
          /\ Answer(c, FALSE)
    /\ UNCHANGED <<storeVars, chainVars, tokens, historyVars>>

SameHumanAnswered(c) ==
    /\ call[c].pc = "sameHuman"
    /\ Answer(c, SameHuman(call[c].demoId, call[c].id))
    /\ UNCHANGED <<storeVars, chainVars, tokens, historyVars>>

-----------------------------------------------------------------------------
(* The proxy.                                                              *)

\* A request passes the checks before the quota; the bundler and the paymaster
\* want a token of this client that has not expired.
HoldsToken(client) == \E t \in tokens : t.client = client /\ t.expiresAt > now

BundlerOpen(route, client) == route = "bundler" /\ HoldsToken(client)

PaymasterOpen(route, client) == route = "paymaster" /\ HoldsToken(client)

ReceiveProxy(c, p, route, client) ==
    /\ call[c].pc \in {"idle", "answered"}
    /\ route \in scene.routes
    /\ route = "token" \/ BundlerOpen(route, client) \/ PaymasterOpen(route, client)
    /\ call' = [call EXCEPT ![c] = [Idle EXCEPT !.pc = "increment", !.process = p,
                                                !.counterKey = <<route, client>>]]
    /\ UNCHANGED <<storeVars, chainVars, processVars, tokens, historyVars>>

\* Slip: one request too many.
OverQuota(count) == count <= Quota + 1

WithinQuota(count) == count <= Quota

IssueToken(c) ==
    LET key == call[c].counterKey IN
    /\ key[1] = "token"
    /\ tokens' = {t \in tokens : t.expiresAt > now}
                    \cup {[client |-> key[2], expiresAt |-> now + TokenTtl]}
    /\ Finish(c)

\* The upstream is asked.
Forward(c) == call[c].counterKey[1] # "token" /\ Go(c, "upstream") /\ UNCHANGED tokens

\* A request that a store counted; no store gives two of one time the same count.
Allowance(count, time) == [count |-> count, at |-> time]

\* checkRateLimit has its count.
JudgeQuota(c, store, count, time) ==
    LET key == call[c].counterKey IN
    \/ /\ ~ WithinQuota(count)
       /\ Finish(c)
       /\ UNCHANGED <<tokens, allowed>>
    \/ /\ WithinQuota(count)
       /\ allowed' = [allowed EXCEPT ![store][key] = @ \cup {Allowance(count, time)}]
       /\ IssueToken(c) \/ Forward(c)

\* Bound: requests past the quota that are counted; further ones change nothing.
MaxCount == Quota + 1

Allowances ==
    Cardinality(UNION {{s} \X {k} \X allowed[s][k] : s \in Stores, k \in CounterKeys})

Incremented(c) ==
    LET key == call[c].counterKey
        count == SharedCount(key)
    IN
    /\ call[c].pc = "increment"
    /\ count <= MaxCount
    /\ SharedIncrement(key)
    /\ call' = [call EXCEPT ![c].count = count, ![c].since = now,
                            ![c].pc = IF count = 1 THEN "expire" ELSE "ttl"]
    /\ UNCHANGED <<now, setUntil, memorySetUntil, memoryCounter, chainVars, processVars,
                   tokens, historyVars>>

WindowSet(c) ==
    /\ call[c].pc = "expire"
    /\ SharedExpire(call[c].counterKey)
    /\ Go(c, "ttl")
    /\ UNCHANGED <<now, setUntil, memorySetUntil, memoryCounter, chainVars, processVars,
                   tokens, historyVars>>

TtlAnswered(c) ==
    /\ call[c].pc = "ttl"
    /\ Allowances < scene.allowances
    /\ JudgeQuota(c, "shared", call[c].count, call[c].since)
    /\ UNCHANGED <<storeVars, chainVars, processVars, passed>>

\* One of the three commands failed, carried out or not: the request counts in
\* the memory of the process, and a counter left without a window stays so.
CounterLost(c) ==
    LET key == call[c].counterKey
        p == call[c].process
    IN
    /\ scene.faults
    /\ call[c].pc \in {"increment", "expire", "ttl"}
    /\ SharedCount(key) <= MaxCount /\ MemoryCount(p, key) <= MaxCount
    /\ Allowances < scene.allowances
    /\ \/ call[c].pc = "increment" /\ (SharedIncrement(key) \/ UNCHANGED counter)
       \/ call[c].pc = "expire" /\ (SharedExpire(key) \/ UNCHANGED counter)
       \/ call[c].pc = "ttl" /\ UNCHANGED counter
    /\ MemoryIncrement(p, key)
    /\ JudgeQuota(c, p, MemoryCount(p, key), now)
    /\ UNCHANGED <<now, setUntil, memorySetUntil, chainVars, processVars, passed>>

\* The upstream of the proxy or of the chat answers in time.
UpstreamAnswered(c) ==
    /\ call[c].pc = "upstream"
    /\ Finish(c)
    /\ UNCHANGED <<storeVars, chainVars, processVars, tokens, historyVars>>

-----------------------------------------------------------------------------
(* Processes, the chain and time.                                          *)

\* A process ends with its requests and its memory; another takes its place.
Restart(p) ==
    LET dying == {c \in Calls : call[c].pc # "idle" /\ call[c].process = p} IN
    /\ scene.restarts
    /\ ForgetMemory(p)
    /\ relayed' = [relayed EXCEPT ![p] = [relay \in Relays |->
                                            [h \in Humans \cup {NoHuman} |-> << >>]]]
    /\ census' = [census EXCEPT ![p] = {}]
    /\ verifiedAgents' = [verifiedAgents EXCEPT ![p] = {}]
    /\ call' = [c \in Calls |-> IF c \in dying THEN Idle ELSE call[c]]
    /\ passed' = [r \in Requests |-> [passed[r] EXCEPT ![p] = 0]]
    /\ allowed' = [allowed EXCEPT ![p] = [k \in CounterKeys |-> {}]]
    /\ UNCHANGED <<now, setUntil, counter, chainVars, tokens>>

RegistryStep ==
    /\ \/ \E h \in Humans, k \in scene.keys :
             issued < scene.registrations /\ Chain!Admit(h, k)
       \/ \E a \in ledger : Chain!Remove(a)
       \/ \E l \in LimitValues : scene.registrations > 1 /\ Chain!SetLimit(l)
    /\ UNCHANGED <<storeVars, nonces, verificationCount, txs, processVars, tokens, call,
                   historyVars>>

Tick ==
    /\ now < scene.end
    /\ StoreTick
    /\ UNCHANGED <<chainVars, processVars, tokens, call, historyVars>>

Next ==
    /\ \/ \E c \in scene.calls, p \in scene.processes :
             \/ \E request \in scene.requests : Receive(c, p, request)
             \/ \E route \in ProxyRoutes, client \in Clients : ReceiveProxy(c, p, route, client)
       \/ \E c \in scene.calls :
             \/ Accepted(c)
             \/ CallFailed(c)
             \/ ReplayAnswered(c)
             \/ ReplayLost(c)
             \/ AgentIdAnswered(c)
             \/ NullifierAnswered(c)
             \/ CredentialsAnswered(c)
             \/ Send(c)
             \/ ReceiptAnswered(c)
             \/ ReceiptLate(c)
             \/ CountsAnswered(c)
             \/ FactAnswered(c)
             \/ FactsComplete(c)
             \/ SameHumanAnswered(c)
             \/ Incremented(c)
             \/ WindowSet(c)
             \/ TtlAnswered(c)
             \/ CounterLost(c)
             \/ UpstreamAnswered(c)
       \/ \E i \in DOMAIN txs : Mine(i)
       \/ \E p \in scene.processes : Restart(p)
       \/ RegistryStep
       \/ Tick
    /\ UNCHANGED scene

Spec == Init /\ [][Next]_vars

-----------------------------------------------------------------------------
(* Properties.                                                             *)

\* A signed meta-transaction is verified on chain at most once, however often
\* it is relayed, by however many processes, and whatever becomes of the
\* answers; the contract's counts are exact, and an answer's count includes
\* the verification it reports.
VerifiedOnce ==
    LET verified == {i \in DOMAIN txs : txs[i].status = "verified"} IN
    /\ \A i, j \in verified :
          /\ txs[i].request.route = txs[j].request.route
          /\ txs[i].request.key = txs[j].request.key
          /\ txs[i].request.nonce = txs[j].request.nonce
          => i = j
    /\ \A relay \in Relays, k \in RequestKeys :
          verificationCount[relay][k] =
             Cardinality({i \in verified : /\ txs[i].request.route = relay
                                           /\ txs[i].request.key = k})
    /\ \A c \in Calls :
          call[c].pc = "answered" /\ call[c].request.route \in Relays =>
             call[c].count > call[c].request.nonce

\* While its timestamp is good, a signed request passes the replay check at
\* most once through the shared store, and once more in the life of each
\* process that had to use its memory.
PassedOncePerStore ==
    \A r \in Requests, s \in Stores : passed[r][s] <= 1

\* The windows are fixed, so a caller gets more than the quota in a time of one
\* window, but no store lets it have twice the quota: of two windows that meet
\* in that time the first began with a request outside it.
QuotaHolds ==
    \A s \in Stores, k \in CounterKeys, t \in 1 .. MaxTime :
       Cardinality({e \in allowed[s][k] : t - Window < e.at /\ e.at <= t}) <= 2 * Quota - 1

\* An answer "same human" is so when it is given.
SaysWhatIsSo ==
    \A c \in Calls :
       call[c].pc = "sameHuman" /\ call'[c].same =>
          \E a, b \in ledger : /\ a.key = call[c].request.key
                               /\ b.key = DemoKey
                               /\ a.human = b.human

\* When the demo agent says that a caller has its human, an agent under the key
\* that signed and its own have one human at that moment, though the numbers it
\* asks about were read before.
SameHumanIsTrue == [][SaysWhatIsSo]_vars
=============================================================================
