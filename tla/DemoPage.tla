------------------------------ MODULE DemoPage ------------------------------
(***************************************************************************)
(* The live demo: four ways to load an agent, three tests that run with    *)
(* its key against the demo services, and a chat that a passed test        *)
(* unlocks.                                                                *)
(*                                                                         *)
(* The agent that is shown is state of the reducer; the signer and its     *)
(* private key are refs beside it.  "Change" resets the reducer only, so   *)
(* what is under way goes on, and so do the refs.                          *)
(*                                                                         *)
(* The demo services ask the registry through verifiers that they share    *)
(* between requests: an answer is remembered for a minute and stands for   *)
(* the registry as long.  "services" holds the passes that some process of *)
(* the services has read and not yet forgotten, with the height at which   *)
(* it read them.  A refusal is remembered as well; here one may come at    *)
(* any time.                                                               *)
(*                                                                         *)
(* A test's record keeps, for the properties, the key it ran with and the  *)
(* heights its answers may be from: its start's, and those of the passes   *)
(* its service then remembered for the key.                                *)
(***************************************************************************)
EXTENDS Browser

VARIABLES
  demo,          \* the state of the page, its reducer's and its refs
  services       \* the passes that the demo services remember

demoVars == <<demo, services>>

Tests == {"service", "peer", "gate"}
TestOrder == <<"service", "peer", "gate">>

Idle == [status |-> "idle", of |-> None, since |-> {}]

\* The reducer's part.
InitialState(page) ==
  [page EXCEPT !.agent = None, !.loading = FALSE, !.unlocked = FALSE, !.chatting = FALSE,
               !.tests = [t \in Tests |-> Idle]]

DemoBlank ==
  [agent |-> None, loading |-> FALSE, unlocked |-> FALSE, chatting |-> FALSE,
   tests |-> [t \in Tests |-> Idle], setup |-> "private-key", signer |-> None, key |-> None,
   keyType |-> "ecdsa", viaPasskey |-> FALSE, smart |-> None, ready |-> FALSE, passkeyLoading |-> FALSE,
   wallet |-> None, walletLoading |-> FALSE, socialLoading |-> FALSE, effect |-> FALSE]

DemoInit == demo = DemoBlank /\ services = {}

Loading == [demo EXCEPT !.loading = TRUE]
SetupError == demo' = [demo EXCEPT !.loading = FALSE]
SetupDone(page, key) == demo' = [page EXCEPT !.loading = FALSE, !.agent = key]

------------------------------------------------------------------------------
(* Loading an agent.                                                       *)

ChooseSetup ==
  /\ demo.agent = None
  /\ \E m \in scene.setups \ {demo.setup} :
       demo' = [demo EXCEPT !.setup = m, !.effect = (m = "social")]
  /\ UNCHANGED <<vault, signedIn, job>>

HandleLoadAgent(n) ==
  /\ demo.agent = None /\ demo.setup = "private-key" /\ ~ demo.loading
  /\ demo' = Loading
  /\ \E k \in scene.keys : Run(n, [kind |-> "byKey", at |-> "boot", key |-> k])
  /\ UNCHANGED <<vault, signedIn>>

\* The refs change and the key is stored before the registry is asked, and
\* without a guardian.
KeyBoots(n) ==
  /\ At(n, "byKey") /\ job[n].at = "boot"
  /\ LET k == job[n].key
     IN /\ demo' = [demo EXCEPT !.signer = k, !.key = k, !.viaPasskey = FALSE,
                                !.smart = None, !.ready = TRUE,
                                !.keyType = IF k \in EdKeys THEN "ed25519" ELSE "ecdsa"]
        /\ IF k \in EdKeys THEN UNCHANGED vault ELSE SaveAgentPrivateKey(k, None)
  /\ Run(n, [job[n] EXCEPT !.at = "registered"])
  /\ UNCHANGED signedIn

\* The agent is not registered, or a read fails.
KeyRefused(n) ==
  /\ At(n, "byKey") /\ job[n].at \in {"registered", "info"}
  /\ (job[n].at = "registered" /\ ~ Registered(job[n].key)) \/ scene.faults
  /\ SetupError /\ Done(n)
  /\ UNCHANGED <<vault, signedIn>>

KeyRegistered(n) ==
  /\ At(n, "byKey") /\ job[n].at = "registered" /\ Registered(job[n].key)
  /\ Run(n, [job[n] EXCEPT !.at = "info"])
  /\ UNCHANGED <<demo, vault, signedIn>>

\* What is shown may have been revoked since: the card says so.
KeyLoaded(n) ==
  /\ At(n, "byKey") /\ job[n].at = "info"
  /\ SetupDone(demo, job[n].key) /\ Done(n)
  /\ UNCHANGED <<vault, signedIn>>

HandleLoadAgentWithPasskey(n) ==
  /\ demo.agent = None /\ demo.setup = "passkey" /\ ~ demo.loading /\ ~ demo.passkeyLoading
  /\ demo' = [Loading EXCEPT !.passkeyLoading = TRUE, !.ready = FALSE]
  /\ Run(n, [kind |-> "byPasskey", smart |-> None])
  /\ UNCHANGED <<vault, signedIn>>

PasskeySignedIn(n) ==
  /\ At(n, "byPasskey") /\ job[n].smart = None
  /\ \E s \in SmartWallets :
       /\ demo' = [demo EXCEPT !.smart = s]
       /\ Run(n, [job[n] EXCEPT !.smart = s])
  /\ UNCHANGED <<vault, signedIn>>

Guarded(smart) == {a \in Alive : a.guardian = smart}

\* No agent for this passkey, or an error anywhere before.
PasskeyRefused(n) ==
  /\ At(n, "byPasskey")
  /\ job[n].smart = None \/ scene.faults \/ Guarded(job[n].smart) = {}
  /\ demo' = [demo EXCEPT !.loading = FALSE, !.passkeyLoading = FALSE]
  /\ Done(n)
  /\ UNCHANGED <<vault, signedIn>>

\* Slip: only the keys stored with this guardian are looked for.
GuardiansKey(key, smart) == KeyByGuardian(smart)

\* The key of the agent, or else the latest of its guardian.
CachedKey(key, smart) == IF HasPrivateKey(key) THEN key ELSE KeyByGuardian(smart)

\* The newest agent of the passkey; its key, if this browser has it, is
\* stored again with the guardian.  A key of another agent is not used.
PasskeyLoaded(n) ==
  /\ At(n, "byPasskey") /\ job[n].smart # None
  /\ \E a \in Guarded(job[n].smart) :
       /\ scene.faults \/ \A b \in Guarded(job[n].smart) : b.id <= a.id
       /\ LET signs == CachedKey(a.key, job[n].smart) = a.key
              signer == IF signs THEN a.key ELSE None
              page == [demo EXCEPT !.viaPasskey = TRUE, !.ready = signs, !.signer = signer,
                                   !.key = signer, !.passkeyLoading = FALSE]
          IN /\ IF signs THEN SaveAgentPrivateKey(a.key, job[n].smart) ELSE UNCHANGED vault
             /\ SetupDone(page, a.key)
  /\ Done(n)
  /\ UNCHANGED signedIn

\* The key is typed in: it must be the shown agent's.
HandleAttachPasskeyAgentKey ==
  /\ demo.agent # None /\ demo.viaPasskey /\ ~ demo.ready
  /\ demo' = [demo EXCEPT !.signer = demo.agent, !.key = demo.agent, !.ready = TRUE]
  /\ SaveAgentPrivateKey(demo.agent, demo.smart)
  /\ UNCHANGED <<signedIn, job>>

HandleConnectWallet(n) ==
  /\ demo.agent = None /\ demo.setup = "wallet" /\ ~ demo.walletLoading
  /\ demo' = [demo EXCEPT !.walletLoading = TRUE]
  /\ Run(n, [kind |-> "byWallet", key |-> None])
  /\ UNCHANGED <<vault, signedIn>>

WalletRefused(n) ==
  /\ At(n, "byWallet")
  /\ job[n].key = None \/ scene.faults
  /\ demo' = [demo EXCEPT !.walletLoading = FALSE]
  /\ Done(n)
  /\ UNCHANGED <<vault, signedIn>>

WalletVerified(n) ==
  /\ At(n, "byWallet") /\ job[n].key = None
  /\ \E w \in Wallets :
       /\ Registered(w)
       /\ demo' = [demo EXCEPT !.signer = w, !.key = None, !.wallet = w]
       /\ Run(n, [job[n] EXCEPT !.key = w])
  /\ UNCHANGED <<vault, signedIn>>

WalletLoaded(n) ==
  /\ At(n, "byWallet") /\ job[n].key # None
  /\ SetupDone([demo EXCEPT !.walletLoading = FALSE], job[n].key)
  /\ Done(n)
  /\ UNCHANGED <<vault, signedIn>>

SocialLogin ==
  /\ demo.agent = None /\ demo.setup = "social" /\ ~ demo.socialLoading
  /\ demo' = [demo EXCEPT !.socialLoading = TRUE, !.effect = TRUE]
  /\ UNCHANGED <<vault, signedIn, job>>

SocialSignedIn ==
  /\ demo.socialLoading /\ ~ signedIn
  /\ signedIn' = TRUE
  /\ demo' = [demo EXCEPT !.effect = TRUE]
  /\ UNCHANGED <<vault, job>>

\* The effect: it runs again when the mode or the session has changed.
LoadPrivyAgent(n) ==
  /\ demo.effect /\ demo.setup = "social" /\ demo.socialLoading /\ signedIn
  /\ demo' = [demo EXCEPT !.effect = FALSE]
  /\ \E v \in SocialWallets : Run(n, [kind |-> "bySocial", key |-> v, at |-> "verified"])
  /\ UNCHANGED <<vault, signedIn>>

SocialRefused(n) ==
  /\ At(n, "bySocial")
  /\ (job[n].at = "verified" /\ ~ Registered(job[n].key)) \/ scene.faults
  /\ demo' = [demo EXCEPT !.loading = FALSE, !.socialLoading = FALSE]
  /\ Done(n)
  /\ UNCHANGED <<vault, signedIn>>

\* Without a stored key the signer is a new wallet of no agent.
SocialVerified(n) ==
  /\ At(n, "bySocial") /\ job[n].at = "verified" /\ Registered(job[n].key)
  /\ LET key == IF HasPrivateKey(job[n].key) THEN job[n].key ELSE None
     IN demo' = [demo EXCEPT !.signer = IF key = None THEN "stranger" ELSE key, !.key = key]
  /\ Run(n, [job[n] EXCEPT !.at = "id"])
  /\ UNCHANGED <<vault, signedIn>>

SocialLoaded(n) ==
  /\ At(n, "bySocial") /\ job[n].at = "id"
  /\ SetupDone([demo EXCEPT !.socialLoading = FALSE], job[n].key)
  /\ Done(n)
  /\ UNCHANGED <<vault, signedIn>>

\* "Change": the refs stay, and so does what is under way.
Change ==
  /\ demo.agent # None
  /\ demo' = [InitialState(demo) EXCEPT !.viaPasskey = FALSE, !.smart = None, !.ready = FALSE,
                                        !.wallet = None, !.setup = "private-key"]
  /\ UNCHANGED <<vault, signedIn, job>>
-----------------------------------------------------------------------------
(* The three tests.                                                        *)

Running == \E t \in Tests : demo.tests[t].status = "running"

\* The rest of a run: the next step of each test, or Over.
Over == 3

\* The verifier of /verify and the census is one, that of the demo agent and
\* the chat another; the gate asks its contract.
Remembered(t, key) == {p \in services : p.by = t /\ p.key = key}

MayRestOn(t, key) == {height} \cup {p.at : p \in Remembered(t, key)}

StartTests(n, signer, key, inOrder) ==
  /\ demo' = [demo EXCEPT !.tests = [t \in Tests |->
                [status |-> "running", of |-> signer, since |-> MayRestOn(t, signer)]]]
  /\ Run(n, [kind |-> "tests", signer |-> signer, key |-> key, keyType |-> demo.keyType,
             inOrder |-> inOrder, at |-> [t \in Tests |-> 0],
             since |-> [t \in Tests |-> MayRestOn(t, signer)]])

\* With a wallet but no key the tests run one after the other.
RunAllTests(n) ==
  /\ scene.tests /\ ~ demo.loading /\ ~ Running /\ demo.agent # None /\ demo.signer # None
  /\ demo.key # None \/ demo.wallet # None
  /\ StartTests(n, demo.signer, demo.key, demo.key = None)
  /\ UNCHANGED <<vault, signedIn>>

RunFakeAgent(n) ==
  /\ scene.fakes /\ ~ demo.loading /\ ~ Running
  /\ StartTests(n, "stranger", "stranger", FALSE)
  /\ UNCHANGED <<vault, signedIn>>

\* Whether test t of a run may go on.
Lane(n, t, step) ==
  /\ At(n, "tests") /\ job[n].at[t] = step
  /\ job[n].inOrder => \A i, k \in 1 .. 3 :
       TestOrder[k] = t /\ i < k => job[n].at[TestOrder[i]] = Over

Advance(n, t) ==
  /\ Run(n, [job[n] EXCEPT !.at[t] = @ + 1])
  /\ UNCHANGED demo

\* UPDATE_TEST with a result: it counts whatever the page has become.  The
\* run is over when its three tests are.
Result(n, t, status) ==
  /\ demo' = [demo EXCEPT !.tests[t] = [status |-> status, of |-> job[n].signer,
                                        since |-> job[n].since[t]],
                          !.unlocked = @ \/ status = "success"]
  /\ \/ /\ \A u \in Tests \ {t} : job[n].at[u] = Over
        /\ Done(n)
     \/ /\ \E u \in Tests \ {t} : job[n].at[u] # Over
        /\ Run(n, [job[n] EXCEPT !.at[t] = Over])

\* A verifier reads the registry for a key, for a request of this page or of
\* somebody else, and remembers that the agent is registered.
Reads(t, key) ==
  /\ Registered(key)
  /\ services' = services \cup {[by |-> t, key |-> key, at |-> height]}

\* The request passes, by what is remembered or by what is read now.
Passes(t, key) == \/ Remembered(t, key) # {} /\ UNCHANGED services
                  \/ Reads(t, key)

\* POST /verify, POST /census, GET /census.
RunServiceTest(n) ==
  \E step \in 0 .. 2 :
    /\ Lane(n, "service", step)
    /\ \/ step < 2 /\ Passes("service", job[n].signer) /\ Advance(n, "service")
       \/ step = 2 /\ Passes("service", job[n].signer) /\ Result(n, "service", "success")
       \/ Result(n, "service", "error") /\ UNCHANGED services

\* The request, its answer, the signature and the address of the answer.
RunPeerTest(n) ==
  \E step \in 0 .. 2 :
    /\ Lane(n, "peer", step)
    /\ \/ step = 0 /\ Passes("peer", job[n].signer) /\ Advance(n, "peer")
       \/ step = 1 /\ Advance(n, "peer") /\ UNCHANGED services
       \/ step = 2 /\ Result(n, "peer", "success") /\ UNCHANGED services
       \/ (step = 0 \/ scene.faults) /\ Result(n, "peer", "error") /\ UNCHANGED services

\* The kind of key is a ref that only the load by private key sets.
RightKind(n) == (job[n].keyType = "ed25519") <=> (job[n].signer \in EdKeys)

\* Slip: the status of the relayer's answer is not looked at.
GateUnread(n) ==
  \/ Lane(n, "gate", 0) /\ Advance(n, "gate")
  \/ Lane(n, "gate", 1) /\ Result(n, "gate", "success")

\* The nonce and the signature, then the relayer's transaction.
RunGateTest(n) ==
  \/ Lane(n, "gate", 0) /\ Advance(n, "gate")
  \/ Lane(n, "gate", 0) /\ scene.faults /\ Result(n, "gate", "error")
  \/ /\ Lane(n, "gate", 1) /\ RightKind(n) /\ Registered(job[n].signer)
     /\ Result(n, "gate", "success")
  \/ /\ Lane(n, "gate", 1)
     /\ ~ RightKind(n) \/ ~ Registered(job[n].signer) \/ scene.faults
     /\ Result(n, "gate", "error")

TestStep(n) ==
  /\ \/ RunServiceTest(n) \/ RunPeerTest(n)
     \/ RunGateTest(n) /\ UNCHANGED services
  /\ UNCHANGED <<vault, signedIn>>

------------------------------------------------------------------------------
(* The chat. *)

\* A message is signed by the ref once the chat is unlocked, else anonymous.
SendChatMessage(n) ==
  /\ scene.chats /\ ~ demo.chatting
  /\ demo' = [demo EXCEPT !.chatting = TRUE]
  /\ Run(n, [kind |-> "chat", signer |-> IF demo.unlocked THEN demo.signer ELSE None])
  /\ UNCHANGED <<vault, signedIn>>

ChatAnswered(n) ==
  /\ At(n, "chat")
  /\ demo' = [demo EXCEPT !.chatting = FALSE]
  /\ Done(n)
  /\ UNCHANGED <<vault, signedIn>>

------------------------------------------------------------------------------

DemoHandler ==
  \/ ChooseSetup \/ HandleAttachPasskeyAgentKey \/ SocialLogin \/ SocialSignedIn \/ Change
  \/ \E n \in Slots : Free(n) /\ \/ HandleLoadAgent(n) \/ HandleLoadAgentWithPasskey(n)
                                 \/ HandleConnectWallet(n) \/ LoadPrivyAgent(n)
                                 \/ RunAllTests(n) \/ RunFakeAgent(n) \/ SendChatMessage(n)
  \/ \E n \in Slots : \/ KeyBoots(n) \/ KeyRefused(n) \/ KeyRegistered(n) \/ KeyLoaded(n)
                      \/ PasskeySignedIn(n) \/ PasskeyRefused(n) \/ PasskeyLoaded(n)
                      \/ WalletRefused(n) \/ WalletVerified(n) \/ WalletLoaded(n)
                      \/ SocialRefused(n) \/ SocialVerified(n) \/ SocialLoaded(n)
                      \/ ChatAnswered(n)

DemoNext ==
  /\ Open("demo") /\ UNCHANGED <<scene, chainVars, scans, passkey>>
  /\ \/ DemoHandler /\ UNCHANGED services
     \/ \E n \in Slots : TestStep(n)

\* Requests of other clients of an agent, the chat's among them.
OthersAsk == \E t \in {"service", "peer"}, key \in scene.asking : Reads(t, key)

\* A pass is forgotten: its minute is over, a later answer takes its place, or
\* its process ends.
Forget == \E p \in services : services' = services \ {p}

------------------------------------------------------------------------------
(* Properties. *)

\* In a browser that loads agents by key and by passkey only, the key that
\* signs is the shown agent's; and an agent loaded with its passkey signs
\* whenever this browser has its key, however the key came there and whatever
\* was loaded before.
ShownAgentSigns ==
  demo.agent # None /\ scene.setups \subseteq {"private-key", "passkey"} =>
    /\ demo.signer \in {demo.agent, None}
    /\ demo.viaPasskey /\ HasPrivateKey(demo.agent) => demo.signer = demo.agent

\* A test shows a success only for a key that was a registered agent's at
\* some moment of its run, or at one after its service had read a pass that it
\* still remembered when the run began: never for a fake agent; the gate never
\* for an agent whose revocation came before the run, and a service for such
\* an agent only while it has not forgotten a pass from before.
PassWasVerified ==
  \A t \in Tests : demo.tests[t].status = "success" =>
    \E a \in agents, moment \in demo.tests[t].since :
      a.key = demo.tests[t].of /\ (a.died = 0 \/ a.died > moment)
===============================================================================
