---------------------------- MODULE RegisterPage ----------------------------
(***************************************************************************)
(* The registration page of the web front end: the wizard, one way to      *)
(* start for each mode, the QR code, and the two ways the page learns of   *)
(* the registration - a message over the websocket of the QR code, and a   *)
(* poll of the registry every few seconds.                                 *)
(*                                                                         *)
(* "made" are the keys this browser has generated.  A reload forgets the   *)
(* page; local storage, the session flag and Privy's session stay.         *)
(***************************************************************************)
EXTENDS Browser

VARIABLES
  reg,           \* the state of the page
  made,          \* keys generated so far, on this page or before a reload
  resume         \* the mode remembered across Privy's redirect

regVars == <<reg, made, resume>>

RegBlank == [step |-> "wizard", mode |-> "linked", wallet |-> None, human |-> None,
             smart |-> None, social |-> None, app |-> None, loading |-> FALSE,
             redirected |-> FALSE, done |-> FALSE, edKey |-> None, edNonce |-> None,
             edStep |-> "pubkey", card |-> "pending"]

RegInit == reg = RegBlank /\ made = {} /\ resume = FALSE

\* The handlers of this page.
RegHandlers ==
  {n \in Slots : \E kind \in {"connect", "passkey", "sign", "edNonce", "poll", "card"} : At(n, kind)}

WizardComplete ==
  /\ reg.step = "wizard"
  /\ \E m \in scene.modes : reg' = [reg EXCEPT !.mode = m, !.step = "connect"]
  /\ UNCHANGED <<made, resume, storeVars, signedIn, job>>

BackToWizard ==
  /\ reg.step = "connect"
  /\ reg' = [reg EXCEPT !.step = "wizard", !.human = None, !.wallet = None]
  /\ UNCHANGED <<made, resume, storeVars, signedIn, job>>

BackToConnect ==
  /\ reg.step = "scan"
  /\ reg' = [reg EXCEPT !.step = "connect", !.wallet = None, !.smart = None, !.social = None,
                        !.human = None, !.app = None, !.done = FALSE]
  /\ UNCHANGED <<made, resume, storeVars, signedIn, job>>

------------------------------------------------------------------------------
(* The starts of the modes that generate a key. *)

\* A fresh key; the handler goes on when its nonce has been read.
Generate(n, key, start) ==
  /\ key \in scene.fresh \ made
  /\ made' = made \cup {key}
  /\ Run(n, [kind |-> "sign", mode |-> start.mode, key |-> key, user |-> start.user,
             guardian |-> start.guardian, action |-> start.action])

Connect(n) ==
  /\ reg.step = "connect" /\ reg.mode \in {"linked", "ed25519-linked"}
  /\ Run(n, [kind |-> "connect"])
  /\ UNCHANGED <<reg, made, resume, storeVars, signedIn>>

\* The wallet answers with an account, or not at all.
Connected(n) ==
  /\ At(n, "connect")
  /\ \/ Done(n) /\ UNCHANGED <<reg, made>>
     \/ \E w \in Wallets, k \in EvmKeys :
          /\ reg' = [reg EXCEPT !.human = w, !.wallet = k]
          /\ Generate(n, k, [mode |-> "linked", action |-> "K", user |-> w, guardian |-> None])
  /\ UNCHANGED <<resume, storeVars, signedIn>>

WalletFreeStart(n) ==
  /\ reg.step = "connect" /\ reg.mode = "walletfree"
  /\ \E k \in EvmKeys :
       /\ reg' = [reg EXCEPT !.wallet = k]
       /\ Generate(n, k, [mode |-> "walletfree", action |-> "W", user |-> k, guardian |-> None])
  /\ UNCHANGED <<resume, storeVars, signedIn>>

SmartWalletStart(n) ==
  /\ reg.step = "connect" /\ reg.mode = "smartwallet" /\ ~ reg.loading
  /\ reg' = [reg EXCEPT !.loading = TRUE]
  /\ Run(n, [kind |-> "passkey"])
  /\ UNCHANGED <<made, resume, storeVars, signedIn>>

\* Slip: the key is stored when the registration has succeeded, if the page
\* is still there.
SmartKeyLater(key, guardian) == UNCHANGED vault

\* The agent's key goes to local storage as soon as it exists.
KeepSmartKey(key, guardian) == SaveAgentPrivateKey(key, guardian)

\* The passkey exists, or the browser refused.
PasskeyCreated(n) ==
  /\ At(n, "passkey")
  /\ \/ Done(n) /\ reg' = [reg EXCEPT !.loading = FALSE] /\ UNCHANGED <<made, vault>>
     \/ \E s \in SmartWallets, k \in EvmKeys :
          /\ reg' = [reg EXCEPT !.smart = s, !.wallet = k]
          /\ Generate(n, k, [mode |-> "smartwallet", action |-> "W", user |-> k, guardian |-> s])
          /\ KeepSmartKey(k, s)
  /\ UNCHANGED <<resume, passkey, signedIn>>

PrivyStart ==
  /\ reg.step = "connect" /\ reg.mode = "privy" /\ ~ reg.loading
  /\ reg' = [reg EXCEPT !.loading = TRUE]
  /\ resume' = TRUE
  /\ UNCHANGED <<made, storeVars, signedIn, job>>

\* The user signs in with Privy, in the page or by way of a redirect that
\* loads the page anew.
SignIn ==
  /\ Open("register") /\ reg.loading /\ reg.mode = "privy" /\ ~ signedIn
  /\ signedIn' = TRUE
  /\ \/ UNCHANGED <<reg, resume, job>>
     \/ /\ reg' = [RegBlank EXCEPT !.redirected = resume, !.mode = IF resume THEN "privy" ELSE @]
        /\ resume' = FALSE
        /\ Abandon(RegHandlers)
  /\ UNCHANGED <<made, storeVars>>

\* The effect that completes a social registration, once for a wallet address.
CompletePrivy(n) ==
  /\ reg.mode = "privy" /\ signedIn
  /\ reg.loading \/ reg.redirected
  /\ reg.social = None
  /\ \E v \in SocialWallets, k \in EvmKeys :
       /\ reg' = [reg EXCEPT !.redirected = FALSE, !.loading = TRUE, !.social = v, !.wallet = k]
       /\ Generate(n, k, [mode |-> "privy", action |-> "K", user |-> v, guardian |-> None])
       /\ SaveAgentPrivateKey(k, None)
  /\ UNCHANGED <<resume, passkey, signedIn>>

------------------------------------------------------------------------------
(* The nonce has been read: sign the challenge and show the code. *)

\* What the agent signs, and the code built from it.
Challenge(j) == [mode |-> j.mode, action |-> j.action, key |-> j.key, signer |-> j.key,
                 signedFor |-> j.user, nonce |-> nonces[j.key], user |-> j.user,
                 guardian |-> j.guardian]

ShowCode(n) ==
  /\ At(n, "sign")
  /\ reg' = [reg EXCEPT !.app = Challenge(job[n]), !.step = "scan",
                        !.loading = IF job[n].mode \in {"smartwallet", "privy"} THEN FALSE ELSE @]
  /\ passkey' = IF job[n].mode = "smartwallet" THEN job[n].guardian ELSE passkey
  /\ Done(n)
  /\ UNCHANGED <<made, resume, vault, signedIn>>

\* The nonce cannot be read: only two of the handlers catch it.
SignFails(n) ==
  /\ At(n, "sign")
  /\ reg' = [reg EXCEPT !.loading = IF job[n].mode \in {"smartwallet", "privy"} THEN FALSE ELSE @]
  /\ Done(n)
  /\ UNCHANGED <<made, resume, storeVars, signedIn>>

------------------------------------------------------------------------------
(* The modes for an agent that has an Ed25519 key. *)

Ed25519Mode == reg.mode \in {"ed25519", "ed25519-linked"}

Ed25519ValidateKey(n) ==
  /\ reg.step = "connect" /\ Ed25519Mode /\ reg.edStep = "pubkey"
  /\ \E k \in EdKeys :
       /\ reg' = [reg EXCEPT !.edKey = k]
       /\ Run(n, [kind |-> "edNonce", key |-> k])
  /\ UNCHANGED <<made, resume, storeVars, signedIn>>

Ed25519Challenged(n) ==
  /\ At(n, "edNonce")
  /\ \/ reg' = [reg EXCEPT !.edNonce = nonces[job[n].key], !.edStep = "challenge"]
     \/ UNCHANGED reg
  /\ Done(n)
  /\ UNCHANGED <<made, resume, storeVars, signedIn>>

\* The pasted signature may be by any key: the page does not verify it.  No
\* guardian is passed, whatever the mode.
Ed25519SubmitSignature ==
  /\ reg.step = "connect" /\ Ed25519Mode /\ reg.edStep = "challenge" /\ ~ reg.loading
  /\ \E signer \in {reg.edKey, None} :
       reg' = [reg EXCEPT !.step = "scan", !.edStep = "scan",
                 !.app = [mode |-> reg.mode, action |-> "E", key |-> reg.edKey,
                          signer |-> signer, signedFor |-> reg.edKey, nonce |-> reg.edNonce,
                          user |-> reg.edKey, guardian |-> None]]
  /\ UNCHANGED <<made, resume, storeVars, signedIn, job>>

------------------------------------------------------------------------------
(* Learning of the registration. *)

HandleSuccess ==
  reg' = IF reg.done THEN reg ELSE [reg EXCEPT !.done = TRUE, !.step = "success"]

\* The websocket of the code that is shown tells of its proof.
SocketSuccess ==
  /\ reg.step = "scan"
  /\ \E s \in scans : s.page = "register" /\ s.landed /\ s.qr = reg.app
  /\ HandleSuccess
  /\ UNCHANGED <<made, resume, storeVars, signedIn, job>>

\* The key the interval asks about: the pasted key of mode "ed25519", else
\* the generated one; a linked Ed25519 agent has none.
PolledKey == IF reg.mode = "ed25519" THEN reg.edKey ELSE reg.wallet

PollRegistry(n) ==
  /\ reg.step = "scan" /\ PolledKey # None
  /\ \A m \in Slots : ~ At(m, "poll")
  /\ Run(n, [kind |-> "poll", key |-> PolledKey])
  /\ UNCHANGED <<reg, made, resume, storeVars, signedIn>>

\* Slip: a read that failed counts as a registration.
PollHopeful(n) ==
  /\ At(n, "poll")
  /\ HandleSuccess
  /\ Done(n)
  /\ UNCHANGED <<made, resume, storeVars, signedIn>>

\* The answer, or an error, which counts as "not yet".  Nothing compares the
\* key asked about with what the page now shows.
PollAnswered(n) ==
  /\ At(n, "poll")
  /\ \/ Registered(job[n].key) /\ HandleSuccess
     \/ UNCHANGED reg
  /\ Done(n)
  /\ UNCHANGED <<made, resume, storeVars, signedIn>>

------------------------------------------------------------------------------
(* The agent card, offered once the agent is registered. *)

SetCard(n) ==
  /\ reg.step = "success" /\ reg.card = "pending" /\ \A m \in Slots : ~ At(m, "card")
  /\ \/ /\ reg.mode \in {"privy", "walletfree"} \/ reg.wallet = None
        /\ reg' = [reg EXCEPT !.card = "skipped"] /\ UNCHANGED job
     \/ reg.wallet # None /\ Run(n, [kind |-> "card", key |-> reg.wallet]) /\ UNCHANGED reg
  /\ UNCHANGED <<made, resume, storeVars, signedIn>>

\* The agent's number is read; without one, or after an error, the card is
\* skipped.
CardAgentRead(n) ==
  /\ At(n, "card") /\ reg.card = "pending"
  /\ \/ Registered(job[n].key) /\ reg' = [reg EXCEPT !.card = "writing"] /\ UNCHANGED job
     \/ reg' = [reg EXCEPT !.card = "skipped"] /\ Done(n)
  /\ UNCHANGED <<made, resume, storeVars, signedIn>>

CardFails(n) ==
  /\ At(n, "card") /\ reg.card = "writing"
  /\ reg' = [reg EXCEPT !.card = "skipped"]
  /\ Done(n)
  /\ UNCHANGED <<made, resume, storeVars, signedIn>>

\* Only the owner of the token can write it.
CardWritten(n) ==
  /\ At(n, "card") /\ reg.card = "writing"
  /\ \E a \in Alive : /\ a.key = job[n].key /\ a.owner = reg.human
                      /\ agents' = (agents \ {a}) \cup {[a EXCEPT !.card = TRUE]}
  /\ reg' = [reg EXCEPT !.card = "done"]
  /\ Done(n)
  /\ UNCHANGED <<made, resume, storeVars, signedIn, height, nonces>>

------------------------------------------------------------------------------

\* The tab is reloaded, or closed and opened again.
Reload ==
  /\ scene.reloads /\ reg # RegBlank
  /\ reg' = [RegBlank EXCEPT !.redirected = resume, !.mode = IF resume THEN "privy" ELSE @]
  /\ resume' = FALSE
  /\ Abandon(RegHandlers)
  /\ UNCHANGED <<made, storeVars, signedIn>>

RegisterHandler ==
  \/ WizardComplete \/ BackToWizard \/ BackToConnect
  \/ \E n \in Slots : Free(n) /\ \/ Connect(n) \/ WalletFreeStart(n) \/ SmartWalletStart(n)
                                 \/ CompletePrivy(n) \/ Ed25519ValidateKey(n)
                                 \/ PollRegistry(n) \/ SetCard(n)
  \/ \E n \in Slots : \/ Connected(n) \/ PasskeyCreated(n) \/ ShowCode(n) \/ SignFails(n)
                      \/ Ed25519Challenged(n) \/ PollAnswered(n)
                      \/ CardAgentRead(n) \/ CardFails(n)
  \/ PrivyStart \/ SignIn \/ Ed25519SubmitSignature \/ SocketSuccess \/ Reload

RegisterNext ==
  \/ Open("register") /\ RegisterHandler /\ UNCHANGED <<scene, chainVars, scans>>
  \/ (\E n \in Slots : CardWritten(n)) /\ UNCHANGED <<scene, scans>>
  \/ reg.step = "scan" /\ reg.app # None /\ Scan("register", reg.app) /\ UNCHANGED regVars

------------------------------------------------------------------------------
(* Properties. *)

\* The private key of every agent registered with a passkey or a social
\* login is in local storage, whatever becomes of the page between the key's
\* generation and the end of the registration.
RegisteredKeyKept ==
  \A a \in agents : a.via \in {"smartwallet", "privy"} => HasPrivateKey(a.key)

\* The page says "registered" only after some agent it offered for
\* registration, or whose public key was pasted, was on the chain.
SuccessWasReal ==
  reg.step = "success" => \E a \in agents : a.key \in made \cup EdKeys
===============================================================================
