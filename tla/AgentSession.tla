------------------------------ MODULE AgentSession ------------------------------
(***************************************************************************)
(* A session of the app's agent API and the client that waits for it:      *)
(* app/app/api/agent/{register,deregister,refresh,identify} with           *)
(* typescript-sdk/src/registration-flow.ts.                                *)
(*                                                                         *)
(* The app keeps nothing.  A session lives in encrypted tokens: a route    *)
(* decrypts the one it is given, reads the chain and answers with another. *)
(* What the Self app proves reaches the registry through the Hub and not   *)
(* through the app, so a session learns of it by asking the chain.  Other  *)
(* sessions are felt only through the chain: they are among the actions of *)
(* others there.  The chain is the AgentLedger that SelfAgentRegistry      *)
(* implements, with challenge nonces, and with expiries and                *)
(* NullifierIdentified events for the sessions that read them; the kind of *)
(* the session is settled from the start so that the rest is left out.     *)
(***************************************************************************)
EXTENDS Integers, Sequences, FiniteSets

CONSTANTS
    Humans, NoHuman,
    WalletKeys,       \* keys of agents that have an address of their own
    Ed25519Keys,
    NoKey,            \* the padded address derived from an Ed25519 key: no agent has it
    MaxIssued,        \* bound on the number of registrations
    LimitValues,
    ProofAges,        \* how long a proof may last, capped by its document or not
    Kinds,            \* the kinds of session
    Modes,            \* the modes of registration
    AllowLegacyQueryToken, \* ALLOW_LEGACY_QUERY_SESSION_TOKEN
    SessionTtl,       \* 30 minutes
    Timeout,          \* timeoutMs
    Interval,         \* pollIntervalMs
    RouteTimeout,     \* longest time a request takes
    Buffer,           \* 10 blocks
    MaxIdentified,    \* bound on the number of NullifierIdentified events
    MaxTime           \* bound on the clock

AgentKeySet == WalletKeys \cup Ed25519Keys

Numbers == 0 .. MaxIssued

ASSUME SessionAssumption ==
    /\ {MaxIssued, SessionTtl, Timeout, Interval, RouteTimeout, Buffer,
        MaxIdentified, MaxTime} \subseteq Nat
    /\ ProofAges \subseteq Nat \ {0}
    /\ WalletKeys \cap Ed25519Keys = {}
    /\ NoKey \notin AgentKeySet
    /\ NoHuman \notin Humans
    /\ Kinds \subseteq {"register", "deregister", "refresh", "identify"}
    /\ Modes \subseteq {"generated", "ed25519", "ed25519-linked"}
    /\ AllowLegacyQueryToken \in BOOLEAN

VARIABLES
    \* the chain
    ledger, issued, limit, expiresAt, nonce, identified, now,
    \* the session, the token its client holds and whether its key was exported
    session, token, exported,
    \* the client's call of waitForCompletion
    wait,
    \* history: every agent there was; whether the session's agent was refreshed
    \* since the session began; since when what it waits for has been so (0: it is not)
    ever, refreshed, doneSince

Registry == INSTANCE AgentLedger

chainVars == <<ledger, issued, limit, expiresAt, nonce, identified, now, ever, refreshed>>
clientVars == <<session, token, exported, wait>>
elsewhere == <<chainVars, doneSince>>
vars == <<chainVars, clientVars, doneSince>>

\* What stays the same in every token of a session.
NoSession ==
    [kind |-> "none", human |-> NoHuman, key |-> NoKey, mode |-> "none", nonce |-> 0,
     agentId |-> 0, originalProofExpiry |-> 0, created |-> 0]

NoToken == [stage |-> "pending", agentId |-> 0, proofExpiresAt |-> 0, found |-> NoHuman]

\* since: when the client last went to sleep or woke, or gave up; sent: the token of
\* the request under way; from, to: the events it looks through.
NoWait == [pc |-> "off", deadline |-> 0, since |-> 0, sent |-> NoToken, from |-> 0, to |-> 0]

Polling == {"sleep", "asked", "named"}

Ended == {"completed", "failed", "expired", "timeout", "error"}

Init ==
    /\ Registry!Init
    /\ expiresAt = [id \in Numbers |-> 0]
    /\ nonce = [k \in AgentKeySet |-> 0]
    /\ identified = << >>
    /\ now = 1
    /\ \E kind \in Kinds : session = [NoSession EXCEPT !.kind = kind]
    /\ token = NoToken
    /\ exported = FALSE
    /\ wait = NoWait
    /\ ever = {}
    /\ refreshed = FALSE
    /\ doneSince = 0

-----------------------------------------------------------------------------
(* The views of the registry that the routes read.                         *)

IdOf(key) ==
    IF \E a \in ledger : a.key = key
    THEN (CHOOSE a \in ledger : a.key = key).number
    ELSE 0

\* Slip: the derived address, in every mode with an Ed25519 key.
PolledAddress == IF session.mode \in {"ed25519", "ed25519-linked"} THEN NoKey ELSE session.key

\* The key that register/status asks for: the padded agentAddress but in mode
\* "ed25519".  For "ed25519-linked" that is the derived address.
PolledKey == IF session.mode = "ed25519-linked" THEN NoKey ELSE session.key

Opened == session.created # 0

\* What the session waits for has come about.
Done ==
    /\ Opened
    /\ \/ session.kind = "register" /\ IdOf(session.key) # 0
       \/ session.kind = "deregister" /\ IdOf(session.key) = 0
       \/ session.kind = "refresh"
             /\ expiresAt[session.agentId] > session.originalProofExpiry
       \/ session.kind = "identify"
             /\ \E i \in 1 .. Len(identified) : identified[i].at >= session.created

Observe == doneSince' = IF ~ Done' THEN 0 ELSE IF doneSince = 0 THEN now' ELSE doneSince

-----------------------------------------------------------------------------
(* POST register, deregister, refresh, identify: a new session.  The reads *)
(* of a route are one step: ownerOf, the last of them, reverts for an      *)
(* agent that went meanwhile, and then there is no session.                *)

\* createSessionToken, moved on to qr-ready.
Open(kind, data) ==
    /\ session.kind = kind
    /\ ~ Opened
    /\ session' = [data EXCEPT !.created = now]
    /\ token' = [NoToken EXCEPT !.stage = "qr-ready", !.agentId = data.agentId]
    /\ UNCHANGED <<exported, wait, chainVars>>
    /\ Observe

\* The app makes a fresh key and signs its challenge for nonce 0, or the
\* client brings an Ed25519 key with a challenge signed for its nonce.
Supplied(key, mode) ==
    IF mode = "generated"
    THEN key \in WalletKeys /\ \A a \in ever : a.key # key
    ELSE key \in Ed25519Keys

OpenRegister(human, key, mode) ==
    /\ Supplied(key, mode)
    /\ Open("register",
            [session EXCEPT !.human = human, !.key = key, !.mode = mode,
                            !.nonce = IF mode = "generated" THEN 0 ELSE nonce[key]])

OpenDeregister(human, key) ==
    /\ IdOf(key) # 0
    /\ Open("deregister",
            [session EXCEPT !.human = human, !.key = key, !.agentId = IdOf(key)])

OpenRefresh(human, a) ==
    Open("refresh",
         [session EXCEPT !.human = human, !.agentId = a.number,
                         !.originalProofExpiry = expiresAt[a.number]])

OpenIdentify(human) == Open("identify", [session EXCEPT !.human = human])

OpenSession ==
    \E human \in Humans :
        \/ \E key \in AgentKeySet, mode \in Modes : OpenRegister(human, key, mode)
        \/ \E key \in WalletKeys : OpenDeregister(human, key)
        \/ \E a \in ledger : OpenRefresh(human, a)
        \/ OpenIdentify(human)

\* decryptSession accepts tokens up to and including the time they end.
Alive == Opened /\ now <= session.created + SessionTtl

-----------------------------------------------------------------------------
(* POST callback, export.                                                  *)

\* Slip: a completed session goes back to proof-received.
StagedAgain(error) ==
    [token EXCEPT !.stage = IF error THEN "failed" ELSE "proof-received"]

\* The token that the callback routes answer with.
Staged(error) ==
    IF token.stage = "completed" THEN token
    ELSE [token EXCEPT !.stage = IF error THEN "failed" ELSE "proof-received"]

\* The payload of the Self app is posted with the client's token.  The one who
\* posts it gets the new token: when that is not the client, nothing changes.
Callback(error) ==
    /\ session.kind \in {"register", "deregister"}
    /\ Alive
    /\ token' = Staged(error)
    /\ UNCHANGED <<session, exported, wait, elsewhere>>

Export ==
    /\ session.kind = "register"
    /\ session.mode = "generated"
    /\ Alive
    /\ token.stage = "completed"
    /\ exported' = TRUE
    /\ UNCHANGED <<session, token, wait, elsewhere>>

-----------------------------------------------------------------------------
(* waitForCompletion and the status routes.  The SDK has no call for       *)
(* identify: its client is taken to wait in the same way.                  *)

\* A call, the first or one that resumes, that the bound on the clock lets end.
StartWait ==
    /\ Opened
    /\ wait.pc \notin Polling
    /\ now + Timeout + Interval + RouteTimeout <= MaxTime
    /\ wait' = [NoWait EXCEPT !.pc = "sleep", !.deadline = now + Timeout, !.since = now]
    /\ UNCHANGED <<session, token, exported, elsewhere>>

\* The call ends without a new token.
End(outcome) ==
    /\ wait' = [NoWait EXCEPT !.pc = outcome]
    /\ UNCHANGED <<session, token, exported, elsewhere>>

\* The client stores the token of the answer, and ends or sleeps again.
Receive(new) ==
    /\ token' = new
    /\ wait' = IF new.stage \in {"completed", "failed"}
               THEN [NoWait EXCEPT !.pc = new.stage]
               ELSE IF now < wait.deadline
               THEN [wait EXCEPT !.pc = "sleep", !.since = now, !.sent = NoToken,
                                 !.from = 0, !.to = 0]
               ELSE [NoWait EXCEPT !.pc = "timeout", !.since = now]
    /\ UNCHANGED <<session, exported, elsewhere>>

\* Identify sessions have no stage failed.
Settled == token.stage = "completed" \/ token.stage = "failed"

\* readSessionTokenFromRequest: a token in the query is read only when that is allowed.
TokenRead == AllowLegacyQueryToken

\* The client wakes and sends its token, as a query parameter.
Poll ==
    /\ wait.pc = "sleep"
    /\ now >= wait.since + Interval
    /\ \/ /\ ~ TokenRead
          /\ End("error")
       \/ /\ TokenRead
          /\ ~ Alive
          /\ End("expired")
       \/ /\ TokenRead
          /\ Alive
          /\ Settled
          /\ Receive(token)
       \/ /\ TokenRead
          /\ Alive
          /\ ~ Settled
          /\ wait' = [wait EXCEPT !.pc = "asked", !.since = now, !.sent = token]
          /\ UNCHANGED <<session, token, exported, elsewhere>>

Ask == /\ wait' = [wait EXCEPT !.pc = "named"]
       /\ UNCHANGED <<session, token, exported, elsewhere>>

\* Slip: once the proof is received the agent is taken to be registered.
RegisterStatusByStage ==
    \/ /\ IdOf(PolledKey) = 0
       /\ wait.sent.stage # "proof-received"
       /\ Receive(wait.sent)
    \/ /\ IdOf(PolledKey) # 0 \/ wait.sent.stage = "proof-received"
       /\ Ask

\* isVerifiedAgent.  The number is asked for in a second read.
RegisterStatus ==
    \/ /\ IdOf(PolledKey) = 0
       /\ Receive(wait.sent)
    \/ /\ IdOf(PolledKey) # 0
       /\ Ask

\* Slip: the proof is taken for the burn.
DeregisterStatusByStage ==
    \/ /\ IdOf(session.key) = 0 \/ wait.sent.stage = "proof-received"
       /\ Receive([wait.sent EXCEPT !.stage = "completed"])
    \/ /\ IdOf(session.key) # 0
       /\ wait.sent.stage # "proof-received"
       /\ Ask

DeregisterStatus ==
    \/ /\ IdOf(session.key) = 0
       /\ Receive([wait.sent EXCEPT !.stage = "completed"])
    \/ /\ IdOf(session.key) # 0
       /\ Ask

\* Slip: an expiry that did not move will do.
RefreshStatusUnmoved ==
    LET expiry == expiresAt[session.agentId] IN
    \/ /\ expiry >= session.originalProofExpiry
       /\ Receive([wait.sent EXCEPT !.stage = "completed", !.proofExpiresAt = expiry])
    \/ /\ expiry < session.originalProofExpiry
       /\ Receive(wait.sent)

\* The original expiry is that of a live agent and never 0.
RefreshStatus ==
    LET expiry == expiresAt[session.agentId] IN
    \/ /\ expiry > session.originalProofExpiry
       /\ Receive([wait.sent EXCEPT !.stage = "completed", !.proofExpiresAt = expiry])
    \/ /\ expiry <= session.originalProofExpiry
       /\ Receive(wait.sent)

\* Blocks are taken to come as often as estimated.
SearchedFrom == IF session.created > Buffer THEN session.created - Buffer ELSE 0

\* getBlockNumber: the events to look through are fixed.
IdentifyStatus ==
    /\ wait' = [wait EXCEPT !.pc = "named", !.from = SearchedFrom, !.to = Len(identified)]
    /\ UNCHANGED <<session, token, exported, elsewhere>>

\* A node answers the first read of a status route.
FirstAnswer ==
    /\ wait.pc = "asked"
    /\ \/ session.kind = "register" /\ RegisterStatus
       \/ session.kind = "deregister" /\ DeregisterStatus
       \/ session.kind = "refresh" /\ RefreshStatus
       \/ session.kind = "identify" /\ IdentifyStatus

\* Slip: a number that is gone is asked for again.
RegisterNumberAgain ==
    /\ IdOf(PolledKey) # 0
    /\ Receive([wait.sent EXCEPT !.stage = "completed", !.agentId = IdOf(PolledKey)])

\* getAgentId, which is 0 when the agent went between the reads.
RegisterNumber ==
    Receive([wait.sent EXCEPT !.stage = "completed", !.agentId = IdOf(PolledKey)])

\* The latest event in the range wins.
IdentifyEvents ==
    LET inRange == {i \in 1 .. wait.to : identified[i].at >= wait.from} IN
    \/ /\ inRange = {}
       /\ Receive(wait.sent)
    \/ \E i \in inRange :
          /\ \A j \in inRange : j <= i
          /\ Receive([wait.sent EXCEPT !.stage = "completed", !.found = identified[i].human])

\* A node answers the second read; that of deregister/status goes unused.
SecondAnswer ==
    /\ wait.pc = "named"
    /\ \/ session.kind = "register" /\ RegisterNumber
       \/ session.kind = "deregister" /\ Receive(wait.sent)
       \/ session.kind = "identify" /\ IdentifyEvents

\* A request or its answer is lost, or a node reports an error: the client
\* throws.  What a route did not get to say is lost with it.
RequestFailed ==
    /\ wait.pc \in {"asked", "named"}
    /\ End("error")

-----------------------------------------------------------------------------
(* The chain, moved by the session's human and by others.                  *)

\* A refresh session reads the expiry of one agent and cannot tell what becomes of
\* the others.
Seen(id) == (session.kind = "refresh" /\ Opened) => id = session.agentId

\* Only refresh sessions read expiries.
ExpiresAt(id, expiry) ==
    IF session.kind = "refresh" THEN [expiresAt EXCEPT ![id] = expiry] ELSE expiresAt

Register(human, key, age) ==
    /\ session.kind # "identify"
    /\ Seen(issued + 1)
    /\ Registry!Admit(human, key)
    /\ expiresAt' = ExpiresAt(issued', now + age)
    /\ nonce' = [nonce EXCEPT ![key] = @ + 1]
    /\ ever' = ever \cup ledger'
    /\ UNCHANGED <<identified, now, refreshed, clientVars>>
    /\ Observe

Revoke(a) ==
    /\ Seen(a.number)
    /\ Registry!Remove(a)
    /\ expiresAt' = ExpiresAt(a.number, 0)
    /\ UNCHANGED <<nonce, identified, now, ever, refreshed, clientVars>>
    /\ Observe

\* The new expiry may be earlier than the old one.
Refresh(a, age) ==
    /\ session.kind = "refresh"
    /\ Seen(a.number)
    /\ expiresAt' = ExpiresAt(a.number, now + age)
    /\ refreshed' = (refreshed \/ session.agentId = a.number)
    /\ UNCHANGED <<ledger, issued, limit, nonce, identified, now, ever, clientVars>>
    /\ Observe

Identify(human) ==
    /\ session.kind = "identify"
    /\ Len(identified) < MaxIdentified
    /\ identified' = Append(identified, [human |-> human, at |-> now])
    /\ UNCHANGED <<ledger, issued, limit, expiresAt, nonce, now, ever, refreshed, clientVars>>
    /\ Observe

\* The session's QR code is scanned, once or again, before or after the session
\* ends, and the proof reaches the registry.
Scan ==
    \/ /\ session.kind = "register"
       /\ Opened
       /\ nonce[session.key] = session.nonce
       /\ \E age \in ProofAges : Register(session.human, session.key, age)
    \/ /\ session.kind = "deregister"
       /\ \E a \in ledger :
             a.key = session.key /\ a.human = session.human /\ Revoke(a)
    \/ /\ session.kind = "refresh"
       /\ \E a \in ledger, age \in ProofAges :
             a.number = session.agentId /\ a.human = session.human /\ Refresh(a, age)
    \/ /\ Opened
       /\ Identify(session.human)

\* No one else holds the key of a generated agent before it is exported.
Others ==
    \/ \E human \in Humans, key \in AgentKeySet, age \in ProofAges :
          /\ (session.mode = "generated" /\ ~ exported) => key # session.key
          /\ Register(human, key, age)
    \/ \E a \in ledger : Revoke(a) \/ \E age \in ProofAges : Refresh(a, age)
    \/ \E human \in Humans : Identify(human)

\* Timers fire and requests end on time.
Tick ==
    /\ now < MaxTime
    /\ wait.pc = "sleep" => now < wait.since + Interval
    /\ wait.pc \in {"asked", "named"} => now < wait.since + RouteTimeout
    /\ now' = now + 1
    /\ UNCHANGED <<ledger, issued, limit, expiresAt, nonce, identified, ever, refreshed, clientVars>>
    /\ Observe

Next ==
    \/ OpenSession
    \/ \E error \in BOOLEAN : Callback(error)
    \/ Export
    \/ StartWait
    \/ Poll
    \/ FirstAnswer
    \/ SecondAnswer
    \/ RequestFailed
    \/ Scan
    \/ Others
    \/ Tick

\* The client's runtime runs its timers, nodes answer, time passes.
Spec ==
    /\ Init
    /\ [][Next]_vars
    /\ WF_vars(Tick)
    /\ WF_vars(Poll \/ FirstAnswer \/ SecondAnswer)
-----------------------------------------------------------------------------
(* Properties.                                                             *)

\* A registration that the client was told is complete did put an agent under the
\* session's key on the chain, and the number told is that agent's, or 0 if the
\* agent went between the two reads of register/status.  So a private key is only
\* exported for an agent that was registered.
RegistrationWasReal ==
    /\ (session.kind = "register" /\ token.stage = "completed") =>
          \E a \in ever : a.key = session.key /\ token.agentId \in {a.number, 0}
    /\ exported => \E a \in ever : a.key = session.key

\* Once the client was told that its agent is gone, that agent does not come
\* back, even if others register the same key again: deregister/status asks for
\* the key while the session is about a number.
DeregistrationIsFinal ==
    (session.kind = "deregister" /\ token.stage = "completed") =>
        \A a \in ledger : a.number # session.agentId

\* A refresh that the client was told is complete did happen after the session
\* began, and the new expiry it was told is later than the old one.
RefreshHappened ==
    (session.kind = "refresh" /\ token.stage = "completed") =>
        refreshed /\ token.proofExpiresAt > session.originalProofExpiry

\* A completed session stays completed, with the result it completed with,
\* whatever callbacks, polls and resumed waits come after.
CompletedIsFinal ==
    [][token.stage = "completed" => UNCHANGED <<session, token>>]_vars

\* A wait that gives up did look: what it waited for had not come about when the
\* last request of the wait went out.  In mode "ed25519-linked" register/status
\* looks under a key that no agent has, and every wait is in vain.
NoMissedCompletion ==
    (wait.pc = "timeout" /\ session.mode # "ed25519-linked") =>
        doneSince = 0 \/ doneSince + RouteTimeout >= wait.since

\* Every wait that starts ends, whatever the answers and however they are spread.
EveryWaitEnds == wait.pc \in Polling ~> wait.pc \in Ended
=============================================================================
