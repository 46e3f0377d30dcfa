------------------------------ MODULE A2AEndpoint ------------------------------
(***************************************************************************)
(* The A2A endpoint of the app (app/app/api/a2a/route.ts) on the JSON-RPC  *)
(* server of the SDK (typescript-sdk/src/a2a/server.ts), and the SDK's     *)
(* client (typescript-sdk/src/a2a/client.ts).                              *)
(*                                                                         *)
(* Several server processes run the endpoint, each with its own tasks,     *)
(* session tokens and push configurations, and answer requests one await   *)
(* at a time.  What they ask of the agent API is answered here in one step *)
(* on the app's side (AgentSession has those steps), and its answer may    *)
(* take its time to come back.  The registry is the AgentLedger with the   *)
(* expiry of proofs.                                                       *)
(*                                                                         *)
(* Task ids are taken to be unique (a millisecond and a counter).  Texts,  *)
(* QR codes, histories, the two networks and the copies of tasks that      *)
(* A2AServer keeps for getStoredTask, which no one calls, are left out.    *)
(***************************************************************************)
EXTENDS Integers, Sequences, FiniteSets

LOCAL INSTANCE SequencesExt

CONSTANTS
    Processes,
    Calls,
    Humans, NoHuman,
    WalletKeys,       \* agents with an address of their own
    Ed25519Keys,
    NoKey,            \* no key, or the address cut out of an Ed25519 key: no agent has it
    MaxIssued, LimitValues,
    ProofAges,
    SessionTtl,       \* 30 minutes
    NoCall,
    MaxTasks,         \* bound on the number of tasks
    MaxTime,          \* bound on the clock
    Scenes            \* what happens in a behaviour, and its bounds:
                      \* [messages, processes, calls, keys, lines, restarts, faults, tasks,
                      \*  registrations, end]

AgentKeySet == WalletKeys \cup Ed25519Keys

AgentIds == 1 .. MaxIssued

TaskIds == 1 .. MaxTasks

\* A JSON-RPC request.  Of a message: the intent of its data part, or what its text
\* has of the words that parseIntent looks for and the one before the agent number.
Message ==
    [method : {"message/send", "message/stream", "tasks/get", "tasks/cancel"},
     intent : STRING, words : SUBSET STRING, near : STRING,
     id : 0 .. MaxIssued, caller : 0 .. MaxIssued, mode : STRING,
     human : Humans \cup {NoHuman}, key : Ed25519Keys \cup {NoKey}, push : BOOLEAN]

ASSUME A2AAssumption ==
    /\ {MaxIssued, SessionTtl, MaxTasks, MaxTime} \subseteq Nat
    /\ LimitValues \subseteq Nat /\ ProofAges \subseteq Nat \ {0}
    /\ WalletKeys \cap Ed25519Keys = {} /\ NoKey \notin AgentKeySet
    /\ NoHuman \notin Humans /\ NoCall \notin Calls
    /\ \A scene \in Scenes :
          /\ scene.messages \subseteq Message /\ scene.keys \subseteq AgentKeySet
          /\ scene.processes \subseteq Processes /\ scene.calls \subseteq Calls

VARIABLES
    scene,
    \* the registry
    ledger, issued, limit, expiresAt, nonce, now,
    \* sessions of the agent API, in the order they were opened
    sessions,
    \* each process: taskStore, taskSessionStore, taskPushConfigStore, currentRequest
    tasks, tokens, pushes, currentRequest,
    taskCounter,
    call,
    \* a stream that the client reads: lines to come, events yielded
    stream,
    \* history: agents there ever were, what was true of the agents a call is about at
    \* some time since it began, tasks a push was sent for, why a token was dropped
    ever, seen, pushed, dropped

Registry == INSTANCE AgentLedger

chainVars == <<ledger, issued, limit, expiresAt, nonce, now, ever>>
storeVars == <<tasks, tokens, pushes>>
historyVars == <<pushed, dropped>>
vars == <<scene, chainVars, sessions, storeVars, currentRequest, taskCounter, call, stream,
          seen, historyVars>>

\* A session token, which every poll renews: the number of its session.
NoToken == 0

\* caller: the agent of X-Agent-Id; task: its own; about: the task it asks for.
Idle == [pc |-> "idle", process |-> "none", message |-> "none", caller |-> 0, id |-> 0,
         intent |-> "none", task |-> 0, about |-> 0, token |-> NoToken, context |-> NoCall,
         need |-> {},
         hasProof |-> FALSE, key |-> NoKey, expiry |-> 0, nullifier |-> NoHuman,
         gated |-> "no", lenient |-> FALSE, said |-> "none", number |-> 0, siblings |-> {}]

-----------------------------------------------------------------------------
(* The registry as the endpoint reads it.                                  *)

IdOf(key) ==
    IF \E a \in ledger : a.key = key
    THEN (CHOOSE a \in ledger : a.key = key).number
    ELSE 0

HasHumanProof(id) == \E a \in ledger : a.number = id

KeyOf(id) ==
    IF HasHumanProof(id) THEN (CHOOSE a \in ledger : a.number = id).key ELSE NoKey

HumanOf(id) ==
    IF HasHumanProof(id) THEN (CHOOSE a \in ledger : a.number = id).human ELSE NoHuman

IsProofFresh(id) == HasHumanProof(id) /\ now < expiresAt[id]

FactsOf(id) ==
    {<<IF HasHumanProof(id) THEN "live" ELSE "gone", id>>,
     <<IF IsProofFresh(id) THEN "fresh" ELSE "stale", id>>}

\* What was true meanwhile of the agents a request is about.
Observe ==
    seen' = [c \in Calls |->
                IF call'[c].pc = "idle" THEN {}
                ELSE IF call'[c] = call[c] /\ call[c].pc = "answered" THEN seen[c]
                ELSE (IF call[c].pc \in {"idle", "answered"} THEN {} ELSE seen[c])
                     \cup UNION {FactsOf(id)' : id \in {call'[c].caller, call'[c].id} \ {0}}]

Init ==
    /\ scene \in Scenes
    /\ Registry!Init
    /\ expiresAt = [id \in AgentIds |-> 0]
    /\ nonce = [k \in AgentKeySet |-> 0]
    /\ now = 1
    /\ sessions = << >>
    /\ tasks = [p \in Processes |-> [t \in TaskIds |-> "none"]]
    /\ tokens = [p \in Processes |-> [t \in TaskIds |-> NoToken]]
    /\ pushes = [p \in Processes |-> {}]
    /\ currentRequest = [p \in Processes |-> NoCall]
    /\ taskCounter = 0
    /\ call = [c \in Calls |-> Idle]
    /\ stream = [lines |-> scene.lines, yielded |-> << >>]
    /\ ever = {}
    /\ seen = [c \in Calls |-> {}]
    /\ pushed = {}
    /\ dropped = [t \in TaskIds |-> "kept"]

-----------------------------------------------------------------------------
(* parseIntent.                                                            *)

StructuredIntents ==
    << <<"register", {"register", "registration"}>>,
       <<"register-poll", {"register-status", "status"}>>,
       <<"lookup", {"lookup", "info"}>>,
       <<"verify", {"verify", "check"}>>,
       <<"deregister", {"deregister", "unregister", "revoke"}>>,
       <<"check-freshness", {"freshness", "check-freshness"}>>,
       <<"refresh-proof", {"refresh-proof", "refresh", "renew", "re-verify", "reauthenticate"}>> >>

Asks(words, near, intent) ==
    CASE intent = "deregister" -> near \in {"deregister", "unregister", "revoke", "remove", "delete"}
      [] intent = "register" ->
            \/ "register" \in words /\ words \cap {"deregister", "unregister"} = {}
            \/ words \cap {"sign up", "create agent", "new agent"} # {}
      [] intent = "status" -> {"status", "registration"} \subseteq words
      [] intent = "refresh-proof" -> near \in {"refresh", "renew", "re-verify"}
      [] intent = "check-freshness" -> near \in {"fresh", "freshness", "expired", "expiry"}
      [] intent = "lookup" -> near \in {"look up", "info", "details", "get", "fetch", "card"}
      [] intent = "verify" -> near \in {"verify", "check", "is", "has", "does"}
      [] intent = "help" -> words \cap {"help", "what can you do", "capabilities"} # {}
      [] OTHER -> TRUE

\* The questions put to a text, in this order.
TextIntents ==
    <<"deregister", "register", "status", "refresh-proof", "check-freshness", "lookup",
      "verify", "help", "unknown">>

ModeWords == {"ed25519", "ed25519-linked", "linked", "wallet-free"}

FirstOf(seq, Test(_)) ==
    seq[CHOOSE i \in 1 .. Len(seq) : Test(seq[i]) /\ \A j \in 1 .. i - 1 : ~ Test(seq[j])]

ParseIntent(m, about, token) ==
    LET named == {i \in 1 .. Len(StructuredIntents) : m.intent \in StructuredIntents[i][2]}
        text == FirstOf(TextIntents, LAMBDA intent : Asks(m.words, m.near, intent))
    IN  IF named # {}
        THEN LET intent == StructuredIntents[CHOOSE i \in named : TRUE][1] IN
             IF intent # "register-poll" \/ about # 0 THEN intent
             ELSE IF token # NoToken THEN "register-status"
             ELSE "unknown"
        ELSE IF text = "register" /\ m.words \cap ModeWords = {} /\ m.human = NoHuman
             THEN "register-ask"
             ELSE IF text = "status" THEN "unknown"
             ELSE text

Mode(m) ==
    IF m.mode # "" THEN m.mode
    ELSE IF m.intent # ""
    THEN IF m.key = NoKey THEN "wallet-free"
         ELSE IF m.human = NoHuman THEN "ed25519" ELSE "ed25519-linked"
    ELSE IF m.words \cap ModeWords = {} THEN "linked"
    ELSE FirstOf(<<"ed25519-linked", "ed25519", "linked", "wallet-free">>,
                 LAMBDA mode : mode \in m.words)

-----------------------------------------------------------------------------
(* A request, up to its handler.                                           *)

At(c) == call[c].process

Go(c, pc) == call' = [call EXCEPT ![c].pc = pc]

\* What is left of a call that was answered.
Ended(c, said) ==
    [Idle EXCEPT !.pc = "answered", !.process = At(c), !.caller = call[c].caller,
                 !.id = call[c].id, !.about = call[c].about, !.gated = call[c].gated,
                 !.said = said]

\* An answer that stores no task.
Reply(c, said) ==
    /\ call' = [call EXCEPT ![c] = Ended(c, said)]
    /\ UNCHANGED <<storeVars, taskCounter>>

Unmoved == UNCHANGED <<scene, chainVars, stream, historyVars>>

\* The client asks for a task or a session it may know of.  A request without
\* X-Agent-Id becomes the current one at once.
Arrive(c, p, m, about, token) ==
    /\ call[c].pc \in {"idle", "answered"}
    /\ taskCounter < scene.tasks
    /\ call' = [call EXCEPT ![c] = [Idle EXCEPT !.pc = IF m.caller = 0 THEN "body" ELSE "gate",
                                                !.process = p, !.message = m, !.id = m.id,
                                                !.caller = m.caller, !.about = about,
                                                !.token = token]]
    /\ currentRequest' = IF m.caller = 0 THEN [currentRequest EXCEPT ![p] = c]
                                         ELSE currentRequest
    /\ UNCHANGED <<sessions, storeVars, taskCounter>>
    /\ Unmoved
    /\ Observe

Enter(c) ==
    /\ currentRequest' = [currentRequest EXCEPT ![At(c)] = c]
    /\ UNCHANGED <<sessions, storeVars, taskCounter>>

\* verifyAgentOnChain: hasHumanProof, and then isProofFresh, which a registry of old
\* may not have: when it fails the caller is let through.
Gate(c) ==
    \/ /\ call[c].pc = "gate"
       /\ \/ /\ ~ HasHumanProof(call[c].caller) \/ scene.faults
             /\ Reply(c, "refused")
          \/ /\ HasHumanProof(call[c].caller)
             /\ Go(c, "gate-fresh")
             /\ UNCHANGED <<storeVars, taskCounter>>
       /\ UNCHANGED <<sessions, currentRequest>>
    \/ /\ call[c].pc = "gate-fresh"
       /\ ~ IsProofFresh(call[c].caller)
       /\ Reply(c, "refused")
       /\ UNCHANGED <<sessions, currentRequest>>
    \/ /\ call[c].pc = "gate-fresh"
       /\ IsProofFresh(call[c].caller) \/ scene.faults
       /\ call' = [call EXCEPT ![c].pc = "body",
                               ![c].gated = IF IsProofFresh(call[c].caller) THEN "fresh"
                                            ELSE "unread"]
       /\ Enter(c)

-----------------------------------------------------------------------------
(* The methods of the server, once the body has arrived.                   *)

Terminal == {"completed", "canceled", "failed"}

\* onGetTask.
GetTask(c) ==
    LET state == tasks[At(c)][call[c].about] IN
    Reply(c, IF state = "none" THEN "TASK_NOT_FOUND" ELSE state)

\* onCancelTask.  The session of the task goes on.
CancelTask(c) ==
    LET state == tasks[At(c)][call[c].about] IN
    \/ /\ state = "none"
       /\ Reply(c, "TASK_NOT_FOUND")
    \/ /\ state \in Terminal
       /\ Reply(c, "TASK_NOT_CANCELABLE")
    \/ /\ state \notin Terminal \cup {"none"}
       /\ tasks' = [tasks EXCEPT ![At(c)][call[c].about] = "canceled"]
       /\ call' = [call EXCEPT ![c] = Ended(c, "canceled")]
       /\ UNCHANGED <<tokens, pushes, taskCounter>>

\* A handler ends: its task is stored under its own id.
Store(c, task, state, said) ==
    /\ tasks' = [tasks EXCEPT ![At(c)][task] = state]
    /\ call' = [call EXCEPT ![c] = [Ended(c, said) EXCEPT !.task = task]]

\* The handlers that await nothing.
Answered(intent) ==
    CASE intent = "register-ask" -> "input-required"
      [] intent \in {"help", "unknown"} -> "completed"
      [] OTHER -> "none"

\* A handler starts with a new task and the headers of the current request.
Started(c, pc) ==
    [call[c] EXCEPT !.pc = pc, !.task = taskCounter + 1, !.context = currentRequest[At(c)],
                    !.intent = pc, !.message = IF pc = "register" THEN @ ELSE "none"]

NoRegistration(c) ==
    Store(c, taskCounter + 1, "failed", "no registration")

FirstStep(c, intent) ==
    CASE intent \in {"register", "verify", "deregister"} -> Started(c, intent)
      [] intent = "refresh-proof" -> Started(c, "refresh")
      [] intent = "register-status" -> Started(c, "status")
      [] intent = "register-poll" ->
            [Started(c, "status") EXCEPT !.token = tokens[At(c)][call[c].about]]
      [] intent = "lookup" -> [Started(c, intent) EXCEPT !.pc = "reading", !.need = {"key", "proof"}]
      [] intent = "check-freshness" ->
            [Started(c, intent) EXCEPT !.pc = "reading", !.need = {"proof", "expiry", "nullifier"}]

\* A linked agent needs a human, a question the number of an agent (which is read
\* before anything is awaited, and NaN is none), and a poll a session.
HumanWanted(m, intent) ==
    intent = "register" /\ Mode(m) \in {"linked", "ed25519-linked"} /\ m.human = NoHuman

NumberWanted(c, intent) ==
    intent \in {"lookup", "verify", "deregister", "check-freshness"} /\ call[c].id = 0

SessionWanted(c, intent) ==
    intent = "register-poll" /\ tokens[At(c)][call[c].about] = NoToken

\* onMessage, up to the first await of the handler.
SendMessage(c) ==
    LET m == call[c].message
        intent == ParseIntent(m, call[c].about, call[c].token)
    IN  /\ taskCounter < MaxTasks
        /\ taskCounter' = taskCounter + 1
        /\ \/ /\ Answered(intent) # "none"
              /\ Store(c, taskCounter + 1, Answered(intent), intent)
           \/ /\ HumanWanted(m, intent)
              /\ Store(c, taskCounter + 1, "input-required", "human wanted")
           \/ /\ NumberWanted(c, intent)
              /\ Store(c, taskCounter + 1, "failed", "number wanted")
           \/ /\ SessionWanted(c, intent)
              /\ NoRegistration(c)
           \/ /\ Answered(intent) = "none"
              /\ ~ HumanWanted(m, intent) /\ ~ NumberWanted(c, intent)
              /\ ~ SessionWanted(c, intent)
              /\ call' = [call EXCEPT ![c] = FirstStep(c, intent)]
              /\ UNCHANGED tasks
        /\ UNCHANGED <<tokens, pushes>>

Body(c) ==
    /\ call[c].pc = "body"
    /\ LET method == call[c].message.method IN
       \/ method = "message/send" /\ SendMessage(c)
       \/ method = "tasks/get" /\ GetTask(c)
       \/ method = "tasks/cancel" /\ CancelTask(c)
       \/ method = "message/stream" /\ Reply(c, "UNSUPPORTED_OPERATION")
       \/ scene.faults /\ Reply(c, "PARSE_ERROR")
    /\ UNCHANGED <<sessions, currentRequest>>

-----------------------------------------------------------------------------
(* Handlers that open a session of the agent API.                          *)

Opened(session) == sessions' = Append(sessions, session)

NewSession(c, kind) ==
    [kind |-> kind, human |-> NoHuman, key |-> NoKey, mode |-> "none", nonce |-> 0,
     id |-> 0, named |-> call[c].id, created |-> now, task |-> call[c].task,
     process |-> At(c)]

Keep(c) == tokens' = [tokens EXCEPT ![At(c)][call[c].task] = Len(sessions) + 1]

\* The API refuses, or it cannot be reached.
Failed(c, said) ==
    /\ Store(c, call[c].task, "failed", said)
    /\ UNCHANGED <<tokens, pushes, sessions>>

\* A new key for a new wallet; an Ed25519 agent brings its own.
RegisterKeys(m) ==
    IF Mode(m) \in {"ed25519", "ed25519-linked"} THEN {m.key} \ {NoKey}
    ELSE {k \in WalletKeys \cap scene.keys :
             /\ \A a \in ever : a.key # k
             /\ \A i \in 1 .. Len(sessions) : sessions[i].key # k}

\* The human is shown a QR code, and the task waits for the scan.
AskToScan(c) ==
    /\ Keep(c)
    /\ pushes' = IF call[c].message.push
                 THEN [pushes EXCEPT ![At(c)] = @ \cup {call[c].task}]
                 ELSE pushes
    /\ Store(c, call[c].task, "input-required", "scan")

\* handleRegister.
HandleRegister(c) ==
    LET m == call[c].message IN
    /\ call[c].pc = "register"
    /\ \/ /\ RegisterKeys(m) = {} \/ scene.faults
          /\ Failed(c, "failed")
       \/ \E key \in RegisterKeys(m) :
             /\ Opened([NewSession(c, "register") EXCEPT
                           !.human = m.human, !.key = key, !.mode = Mode(m),
                           !.nonce = nonce[key]])
             /\ AskToScan(c)
    /\ UNCHANGED <<taskCounter, currentRequest>>

\* The last 20 bytes of a key: an address, but for an Ed25519 key.
AddressOf(key) == IF key \in WalletKeys THEN key ELSE NoKey

\* handleDeregister: the agent's address, and then a session for that address.
HandleDeregister(c) ==
    /\ \/ /\ call[c].pc = "deregister"
          /\ HasHumanProof(call[c].id)
          /\ call' = [call EXCEPT ![c].pc = "deregister-address",
                                  ![c].key = AddressOf(KeyOf(call[c].id))]
          /\ UNCHANGED <<sessions, storeVars>>
       \/ /\ call[c].pc = "deregister"
          /\ ~ HasHumanProof(call[c].id)
          /\ Failed(c, "not found")
       \/ /\ call[c].pc = "deregister"
          /\ scene.faults
          /\ Failed(c, "failed")
       \/ /\ call[c].pc = "deregister-address"
          /\ IdOf(call[c].key) = 0 \/ scene.faults
          /\ Failed(c, "failed")
       \/ /\ call[c].pc = "deregister-address"
          /\ IdOf(call[c].key) # 0
          /\ Opened([NewSession(c, "deregister") EXCEPT
                        !.human = HumanOf(IdOf(call[c].key)), !.key = call[c].key,
                        !.id = IdOf(call[c].key)])
          /\ Keep(c)
          /\ Store(c, call[c].task, "input-required", "scan")
          /\ UNCHANGED pushes
    /\ UNCHANGED <<taskCounter, currentRequest>>

\* handleRefreshProof.
HandleRefreshProof(c) ==
    /\ call[c].pc = "refresh"
    /\ \/ /\ ~ HasHumanProof(call[c].id) \/ scene.faults
          /\ Failed(c, "failed")
       \/ /\ HasHumanProof(call[c].id)
          /\ Opened([NewSession(c, "refresh") EXCEPT
                        !.human = HumanOf(call[c].id), !.key = KeyOf(call[c].id),
                        !.id = call[c].id])
          /\ Keep(c)
          /\ Store(c, call[c].task, "input-required", "scan")
          /\ UNCHANGED pushes
    /\ UNCHANGED <<taskCounter, currentRequest>>

-----------------------------------------------------------------------------
(* handleRegisterStatus.                                                   *)

\* The key that register/status asks for: not an Ed25519 key unless the mode is
\* "ed25519".
PolledKey(session) == IF session.mode = "ed25519-linked" THEN NoKey ELSE session.key

\* register/status: what it answers to a token, by isVerifiedAgent.
StatusOf(token) ==
    LET session == sessions[token] IN
    CASE now > session.created + SessionTtl -> "expired"
      [] session.kind # "register" -> "not a registration"
      [] IdOf(PolledKey(session)) # 0 -> "registered"
      [] OTHER -> "working"

\* The agent API answers, of a verified agent with the number it has when that is read
\* (getAgentId), 0 when it was revoked meanwhile; the answer takes its time.
AskStatus(c) ==
    /\ \/ /\ call[c].pc = "status"
          /\ LET said == StatusOf(call[c].token) IN
             call' = [call EXCEPT ![c].pc = IF said = "registered" THEN "status-number" ELSE "told",
                                  ![c].said = said]
       \/ /\ call[c].pc = "status-number"
          /\ call' = [call EXCEPT ![c].pc = "told",
                                  ![c].number = IdOf(PolledKey(sessions[call[c].token]))]
    /\ UNCHANGED <<sessions, storeVars, taskCounter, currentRequest>>

\* The stores forget the task that was asked for.
Forget(c, why) ==
    LET p == At(c) t == call[c].about IN
    IF t = 0 THEN UNCHANGED <<tokens, pushes, dropped>>
    ELSE /\ tokens' = [tokens EXCEPT ![p][t] = NoToken]
         /\ pushes' = [pushes EXCEPT ![p] = @ \ {t}]
         /\ dropped' = [dropped EXCEPT ![t] = why]

\* The push configuration is looked up when the stores have forgotten it.
Push(c) == pushed' = pushed \cup ({call[c].about} \cap pushes'[At(c)])

\* Slip: the new token is kept under the task of the poll.
RenewedUnderPoll(c) ==
    /\ tokens' = IF call[c].about = 0 THEN tokens
                 ELSE [tokens EXCEPT ![At(c)][call[c].task] = call[c].token]
    /\ UNCHANGED <<pushes, dropped>>

\* Slip: an answer without a token of its own clears the one that is kept.
RenewedToNone(c) ==
    /\ tokens' = IF call[c].about = 0 THEN tokens
                 ELSE [tokens EXCEPT ![At(c)][call[c].about] = NoToken]
    /\ UNCHANGED <<pushes, dropped>>

\* The new token of a session replaces the one kept under its task.
Renewed(c) ==
    /\ tokens' = IF call[c].about = 0 THEN tokens
                 ELSE [tokens EXCEPT ![At(c)][call[c].about] = call[c].token]
    /\ UNCHANGED <<pushes, dropped>>

Told(c) ==
    /\ call[c].pc = "told"
    /\ LET said == call[c].said task == call[c].task IN
       \/ /\ said = "expired"
          /\ Forget(c, "expired")
          /\ Store(c, task, "failed", "expired")
          /\ UNCHANGED pushed
       \/ /\ said = "registered"
          /\ Forget(c, "registered")
          /\ Push(c)
          /\ tasks' = [tasks EXCEPT ![At(c)][task] = "completed"]
          /\ call' = [call EXCEPT ![c] = [Ended(c, "registered") EXCEPT
                                             !.number = call[c].number,
                                             !.token = call[c].token]]
       \/ /\ said = "working"
          /\ Renewed(c)
          /\ Store(c, task, "working", "working")
          /\ UNCHANGED pushed
       \/ /\ said = "not a registration"
          /\ Store(c, task, "failed", said)
          /\ UNCHANGED <<tokens, pushes, historyVars>>
    /\ UNCHANGED <<sessions, taskCounter, currentRequest>>

\* The request or its answer is lost: the stores stay as they are.
StatusLost(c) ==
    /\ scene.faults
    /\ call[c].pc \in {"status", "status-number", "told"}
    /\ Store(c, call[c].task, "failed", "lost")
    /\ UNCHANGED <<tokens, pushes, sessions, taskCounter, currentRequest>>

-----------------------------------------------------------------------------
(* Handlers that read the registry.                                        *)

Quiet == UNCHANGED <<sessions, tokens, pushes, taskCounter, currentRequest>>

\* Slip: an expired proof is as good.
VerifiedAnyway(hasProof, fresh) == hasProof

Verified(hasProof, fresh) == hasProof /\ fresh

\* handleVerify: hasHumanProof, and then isProofFresh, taken for true when it fails.
HandleVerify(c) ==
    /\ \/ /\ call[c].pc = "verify"
          /\ call' = [call EXCEPT ![c].pc = "verify-fresh",
                                  ![c].hasProof = HasHumanProof(call[c].id)]
          /\ UNCHANGED tasks
       \/ /\ call[c].pc = "verify"
          /\ scene.faults
          /\ Store(c, call[c].task, "failed", "lost")
       \/ /\ call[c].pc = "verify-fresh"
          /\ Store(c, call[c].task, "completed",
                   IF Verified(call[c].hasProof, IsProofFresh(call[c].id)) THEN "verified"
                   ELSE IF call[c].hasProof THEN "proof expired" ELSE "no proof")
       \/ /\ call[c].pc = "verify-fresh"
          /\ scene.faults
          /\ tasks' = [tasks EXCEPT ![At(c)][call[c].task] = "completed"]
          /\ call' = [call EXCEPT ![c] = [Ended(c, IF Verified(call[c].hasProof, TRUE)
                                                   THEN "verified" ELSE "no proof")
                                          EXCEPT !.lenient = TRUE]]
    /\ Quiet

Fetched(c, what) ==
    CASE what = "key" -> [call[c] EXCEPT !.key = KeyOf(call[c].id)]
      [] what = "proof" -> [call[c] EXCEPT !.hasProof = HasHumanProof(call[c].id)]
      [] what = "expiry" -> [call[c] EXCEPT !.expiry = expiresAt[call[c].id]]
      [] what = "nullifier" -> [call[c] EXCEPT !.nullifier = HumanOf(call[c].id)]

\* The reads that a handler starts together come back in any order.
Read(c) ==
    /\ call[c].pc = "reading"
    /\ \E what \in call[c].need :
          call' = [call EXCEPT ![c] =
                      [Fetched(c, what) EXCEPT
                          !.need = @ \ {what},
                          !.pc = IF call[c].need # {what} THEN "reading"
                                 ELSE IF call[c].intent = "lookup" THEN "looked-up"
                                 ELSE "siblings"]]
    /\ UNCHANGED tasks
    /\ Quiet

\* A read fails, the one of the strength of the agent's provider included.  The lookup
\* takes an error of the node that says BAD_DATA, coalesce or ERC721 for a missing agent.
ReadFails(c) ==
    /\ scene.faults
    /\ \/ call[c].pc = "reading"
       \/ call[c].pc = "looked-up" /\ call[c].key # NoKey /\ call[c].hasProof
    /\ \/ Store(c, call[c].task, "failed", "lost")
       \/ /\ call[c].intent = "lookup"
          /\ tasks' = [tasks EXCEPT ![At(c)][call[c].task] = "completed"]
          /\ call' = [call EXCEPT ![c] = [Ended(c, "not found") EXCEPT !.lenient = TRUE]]
    /\ Quiet

\* handleLookup, once everything is read.
HandleLookup(c) ==
    /\ call[c].pc = "looked-up"
    /\ Store(c, call[c].task, "completed",
             IF call[c].key = NoKey THEN "not found"
             ELSE IF call[c].hasProof THEN "has proof" ELSE "no proof")
    /\ Quiet

\* What the freshness of a proof is said to be.
Freshness(hasProof, expiry, time) ==
    IF ~ hasProof THEN "no proof" ELSE IF expiry <= time THEN "expired" ELSE "fresh"

\* handleCheckFreshness: the other agents of the human, and then the clock.
HandleCheckFreshness(c) ==
    /\ call[c].pc = "siblings"
    /\ LET siblings == {a.number : a \in {x \in ledger : x.human = call[c].nullifier}} IN
       /\ tasks' = [tasks EXCEPT ![At(c)][call[c].task] = "completed"]
       /\ call' = [call EXCEPT ![c] =
                      [Ended(c, Freshness(call[c].hasProof, call[c].expiry, now)) EXCEPT
                          !.siblings = siblings \ {call[c].id}]]
    /\ Quiet

-----------------------------------------------------------------------------
(* sendMessageStream of the client.                                        *)

\* One pass over the lines of a chunk: data is gathered until an empty line.
ParseLine(state, line) ==
    IF line # "" THEN [state EXCEPT !.data = Append(@, line)]
    ELSE IF state.data # << >>
    THEN [data |-> << >>, events |-> Append(state.events, state.data)]
    ELSE state

EventsOf(lines) == FoldLeft(ParseLine, [data |-> << >>, events |-> << >>], lines).events

\* A chunk brings some lines; what it leaves of an event is dropped with it.
ReadChunk ==
    /\ stream.lines # << >>
    /\ \E n \in 1 .. Len(stream.lines) :
          stream' = [lines |-> SubSeq(stream.lines, n + 1, Len(stream.lines)),
                     yielded |-> stream.yielded \o EventsOf(SubSeq(stream.lines, 1, n))]
    /\ UNCHANGED <<scene, chainVars, sessions, storeVars, currentRequest, taskCounter, call,
                   seen, historyVars>>

-----------------------------------------------------------------------------
(* The chain, moved by the humans of sessions and by others.               *)

Elsewhere == UNCHANGED <<scene, sessions, storeVars, currentRequest, taskCounter, call, stream,
                         historyVars>>

Register(human, key, age) ==
    /\ issued < scene.registrations
    /\ Registry!Admit(human, key)
    /\ expiresAt' = [expiresAt EXCEPT ![issued'] = now + age]
    /\ nonce' = [nonce EXCEPT ![key] = @ + 1]
    /\ ever' = ever \cup ledger'
    /\ UNCHANGED now
    /\ Elsewhere
    /\ Observe

Revoke(a) ==
    /\ Registry!Remove(a)
    /\ expiresAt' = [expiresAt EXCEPT ![a.number] = 0]
    /\ UNCHANGED <<nonce, now, ever>>
    /\ Elsewhere
    /\ Observe

Refresh(a, age) ==
    /\ expiresAt' = [expiresAt EXCEPT ![a.number] = now + age]
    /\ expiresAt' # expiresAt
    /\ UNCHANGED <<ledger, issued, limit, nonce, now, ever>>
    /\ Elsewhere
    /\ Observe

\* The QR code of a session is scanned.
Scan ==
    \E i \in 1 .. Len(sessions) :
        LET s == sessions[i] IN
        \/ /\ s.kind = "register"
           /\ nonce[s.key] = s.nonce
           /\ \E human \in (IF s.human = NoHuman THEN Humans ELSE {s.human}), age \in ProofAges :
                 Register(human, s.key, age)
        \/ /\ s.kind = "deregister"
           /\ \E a \in ledger : a.key = s.key /\ a.human = s.human /\ Revoke(a)
        \/ /\ s.kind = "refresh"
           /\ \E a \in ledger, age \in ProofAges :
                 a.number = s.id /\ a.human = s.human /\ Refresh(a, age)

\* Others hold the keys that no session has.
Others ==
    \/ \E human \in Humans, key \in scene.keys, age \in ProofAges :
          /\ \A i \in 1 .. Len(sessions) : sessions[i].key # key
          /\ Register(human, key, age)
    \/ \E a \in ledger : Revoke(a) \/ \E age \in ProofAges : Refresh(a, age)

Tick ==
    /\ now < scene.end
    /\ now' = now + 1
    /\ UNCHANGED <<ledger, issued, limit, expiresAt, nonce, ever>>
    /\ Elsewhere
    /\ Observe

\* A process ends, and with it what it kept and what it was doing.
Restart(p) ==
    /\ scene.restarts
    /\ tasks' = [tasks EXCEPT ![p] = [t \in TaskIds |-> "none"]]
    /\ tokens' = [tokens EXCEPT ![p] = [t \in TaskIds |-> NoToken]]
    /\ pushes' = [pushes EXCEPT ![p] = {}]
    /\ currentRequest' = [currentRequest EXCEPT ![p] = NoCall]
    /\ call' = [c \in Calls |-> IF call[c].process = p /\ call[c].pc # "answered" THEN Idle ELSE call[c]]
    /\ dropped' = [t \in TaskIds |-> IF tokens[p][t] # NoToken THEN "restart" ELSE dropped[t]]
    /\ UNCHANGED <<scene, chainVars, sessions, taskCounter, stream, pushed>>
    /\ Observe

AsksForStatus(m) == m.method = "message/send" /\ m.intent \in {"register-status", "status"}

AsksForTask(m) == m.method \in {"tasks/get", "tasks/cancel"} \/ AsksForStatus(m)

\* A task is known once the request that makes it is answered.
Known(t) == \A c \in Calls : call[c].task = t => call[c].pc = "answered"

\* What a request does next.
Step(c) ==
    \/ Gate(c) \/ Body(c)
    \/ HandleRegister(c) \/ HandleDeregister(c) \/ HandleRefreshProof(c)
    \/ AskStatus(c) \/ StatusLost(c)
    \/ HandleVerify(c) \/ Read(c) \/ ReadFails(c) \/ HandleLookup(c) \/ HandleCheckFreshness(c)

Next ==
    \/ \E c \in scene.calls, p \in scene.processes, m \in scene.messages :
          \/ m.method \in {"message/send", "message/stream"} /\ Arrive(c, p, m, 0, NoToken)
          \/ \E t \in 1 .. taskCounter :
                AsksForTask(m) /\ Known(t) /\ Arrive(c, p, m, t, NoToken)
          \/ \E i \in 1 .. Len(sessions) : AsksForStatus(m) /\ Arrive(c, p, m, 0, i)
    \/ \E c \in scene.calls :
          \/ Step(c) /\ Unmoved /\ Observe
          \/ /\ Told(c)
             /\ UNCHANGED <<scene, chainVars, stream>>
             /\ Observe
    \/ ReadChunk
    \/ Scan
    \/ Others
    \/ Tick
    \/ \E p \in scene.processes : Restart(p)

Spec == Init /\ [][Next]_vars
-----------------------------------------------------------------------------
(* Properties.                                                             *)

\* What the endpoint says of an agent was so at some time while it answered, though
\* it reads the registry piece by piece: a verified agent had a proof that had not
\* expired, unless that could not be read; a fresh one too; one without a proof was
\* not registered, nor was one not found, unless a read failed; the other agents named
\* are the same human's; and a caller that got past X-Agent-Id was verified.  An agent
\* called expired by the freshness check may just have been refreshed.
AnswersWereTrue ==
    \A c \in Calls :
        LET id == call[c].id said == call[c].said caller == call[c].caller IN
        call[c].pc = "answered" =>
            /\ said = "verified" =>
                  {<<"live", id>>} \cup (IF call[c].lenient THEN {} ELSE {<<"fresh", id>>})
                      \subseteq seen[c]
            /\ said = "fresh" => <<"fresh", id>> \in seen[c]
            /\ said = "proof expired" => <<"stale", id>> \in seen[c]
            /\ said = "has proof" => <<"live", id>> \in seen[c]
            /\ said = "no proof" => <<"gone", id>> \in seen[c]
            /\ said = "not found" /\ ~ call[c].lenient => <<"gone", id>> \in seen[c]
            /\ \A n \in call[c].siblings :
                  \E a \in ever, b \in ever :
                      a.number = n /\ b.number = id /\ a.human = b.human
            /\ call[c].gated = "fresh" => <<"fresh", caller>> \in seen[c]

\* Every token is kept under the task that opened its session, and the session is
\* about the agent that was named.  So a registration that a poll reports complete is
\* that of the task that was asked for, and its agent was registered under the number
\* reported; no number is reported only of an agent that has been revoked since.
RegistrationReported ==
    /\ \A p \in Processes, t \in TaskIds :
          tokens[p][t] # NoToken => sessions[tokens[p][t]].task = t
    /\ \A i \in 1 .. Len(sessions) :
          sessions[i].kind # "register" =>
              \E a \in ever : a.number = sessions[i].named /\ a.key = sessions[i].key
    /\ \A c \in Calls :
          call[c].pc = "answered" /\ call[c].said = "registered" =>
              /\ call[c].about # 0 => sessions[call[c].token].task = call[c].about
              /\ \E a \in ever :
                    /\ a.key = sessions[call[c].token].key
                    /\ a.number = call[c].number \/ (call[c].number = 0 /\ a \notin ledger)

\* A process answers that it knows of no registration for a task that opened one
\* there only when a poll found that registration complete or expired, or when the
\* process was restarted.  Whether the client got the answer of that poll is another
\* matter: a completion that is lost on its way is not told again.
PolledToTheEnd ==
    \A c \in Calls, i \in 1 .. Len(sessions) :
        /\ call[c].pc = "answered" /\ call[c].said = "no registration"
        /\ sessions[i].task = call[c].about /\ sessions[i].process = call[c].process
        => \/ dropped[call[c].about] \in {"expired", "restart"}
           \/ /\ dropped[call[c].about] = "registered"
              /\ \E a \in ever : a.key = sessions[i].key
=============================================================================
