------------------------------ MODULE Browser ------------------------------
(***************************************************************************)
(* What the pages of the web front end share: the registry as they see it, *)
(* the storage of the browser, the phone that scans their QR codes, and    *)
(* the handlers that are under way.                                        *)
(*                                                                         *)
(* A handler of a page is asynchronous: it runs to its next "await", the   *)
(* page goes on, and the rest runs when the answer is there.  The rest is  *)
(* a record in one of the Slots; the page's own state is one record per    *)
(* page.  Reads of the registry happen at the instant of their answer.     *)
(*                                                                         *)
(* Time is the number of changes of the registry, "height".  A burnt agent *)
(* stays in "agents" with the height of its end, so that a property can    *)
(* speak of what was true since a lookup began.                            *)
(***************************************************************************)
EXTENDS Naturals, Sequences, FiniteSets
LOCAL INSTANCE SequencesExt

CONSTANTS
  EvmKeys,       \* addresses of agents whose private key a page may hold
  EdKeys,        \* Ed25519 public keys of agents
  Wallets,       \* addresses of injected wallets
  SocialWallets, \* addresses of Privy's embedded wallets
  SmartWallets,  \* addresses of the smart accounts of passkeys
  Humans,        \* the people who hold a passport
  None,          \* no key, no address, nothing shown
  NoJob,         \* a slot without a handler
  Slots,         \* handlers that may be under way at once
  Scenes         \* the situations a behaviour may start in, with their bounds

VARIABLES
  scene,         \* the situation: the pages that are open, what they may do
  agents,        \* every token ever minted with a human proof
  height,        \* changes of the registry so far
  nonces,        \* registrations of each key so far
  vault,         \* private keys in local storage, the latest saved last
  passkey,       \* the smart wallet of the passkey in local storage
  signedIn,      \* Privy's session of this browser
  scans,         \* proofs made on a phone and not yet on the chain
  job            \* the rest of each handler that is waiting for an answer

browserVars == <<scene, agents, height, nonces, vault, passkey, signedIn, scans, job>>
chainVars == <<agents, height, nonces>>
storeVars == <<vault, passkey>>

\* A wallet may be its own agent.
AgentKeys == EvmKeys \cup EdKeys \cup Wallets \cup SocialWallets
Addresses == AgentKeys \cup SmartWallets

\* An agent that was registered before a behaviour starts.
EarlierAgents ==
  [id : Nat, key : AgentKeys, owner : Addresses, guardian : SmartWallets \cup {None},
   human : Humans, born : {0}, died : {0}, card : BOOLEAN, via : {"other"}]

\* The agents are numbered, each has a key of its own, and the keys that the
\* browser will generate are nobody's yet.
SceneOK(sc) ==
  /\ sc.agents \subseteq EarlierAgents /\ IsFiniteSet(sc.agents)
  /\ \A a \in sc.agents : a.id \in 1 .. Cardinality(sc.agents)
  /\ \A a, b \in sc.agents : a.id = b.id \/ a.key = b.key => a = b
  /\ sc.fresh \subseteq EvmKeys
  /\ \A k \in sc.fresh : k \notin sc.strangers /\ \A a \in sc.agents : a.key # k
  /\ sc.keys \cup sc.strangers \subseteq AgentKeys
  /\ sc.owners \subseteq Addresses /\ sc.guardians \subseteq SmartWallets \cup {None}
  /\ sc.vault \in Seq([key : AgentKeys, guardian : SmartWallets \cup {None}])

ASSUME BrowserAssumption ==
  /\ None \notin Addresses
  /\ EvmKeys \cap EdKeys = {}
  /\ \A sc \in Scenes : SceneOK(sc)

BrowserInit ==
  /\ scene \in Scenes
  /\ agents = scene.agents
  /\ height = 0
  /\ nonces = [k \in AgentKeys |-> IF \E a \in scene.agents : a.key = k THEN 1 ELSE 0]
  /\ vault = scene.vault
  /\ passkey = scene.passkey
  /\ signedIn = FALSE
  /\ scans = {}
  /\ job = [n \in Slots |-> NoJob]

Open(page) == page \in scene.pages

------------------------------------------------------------------------------
(* Handlers under way. *)

Free(n) == job[n] = NoJob
Run(n, rest) == job' = [job EXCEPT ![n] = rest]
Done(n) == job' = [job EXCEPT ![n] = NoJob]
At(n, kind) == job[n] # NoJob /\ job[n].kind = kind

\* A page is left: its handlers do nothing more.
Abandon(handlers) == job' = [n \in Slots |-> IF n \in handlers THEN NoJob ELSE job[n]]

------------------------------------------------------------------------------
(* The registry. *)

Alive == {a \in agents : a.died = 0}
Registered(key) == \E a \in Alive : a.key = key
AgentOf(key) == CHOOSE a \in Alive : a.key = key
AgentById(id) == CHOOSE a \in agents : a.id = id
IsAlive(id) == \E a \in Alive : a.id = id

Mint(key, owner, guardian, human, via) ==
  /\ height' = height + 1
  /\ agents' = agents \cup
       {[id |-> Cardinality(agents) + 1, key |-> key, owner |-> owner,
         guardian |-> guardian, human |-> human, born |-> height + 1, died |-> 0,
         card |-> FALSE, via |-> via]}
  /\ nonces' = [nonces EXCEPT ![key] = @ + 1]

Burn(id) ==
  /\ height' = height + 1
  /\ agents' = {IF a.id = id THEN [a EXCEPT !.died = height + 1] ELSE a : a \in agents}
  /\ UNCHANGED nonces

\* The key a deregistration is about: "D" takes the scanning user's own
\* address, "X" the address in the data.
Target(qr) == IF qr.action = "D" THEN qr.user ELSE qr.key

\* What the registry does with a proof made from a QR code: a registration
\* needs the agent's signature over its nonce and the user of the proof, a
\* deregistration the agent's human.
Registers(qr) ==
  /\ qr.action \in {"K", "W", "E"}
  /\ ~ Registered(qr.key)
  /\ qr.signer = qr.key /\ qr.signedFor = qr.user /\ qr.nonce = nonces[qr.key]

Deregisters(qr, human) ==
  /\ qr.action \in {"D", "X"}
  /\ \E a \in Alive : a.key = Target(qr) /\ a.human = human

\* The proof reaches the registry; "landed" tells the page that showed the
\* code, if it still shows it.
Land(s) ==
  /\ height < scene.changes
  /\ \/ /\ Registers(s.qr)
        /\ Mint(s.qr.key, s.qr.user, s.qr.guardian, s.human, s.qr.mode)
     \/ /\ Deregisters(s.qr, s.human)
        /\ Burn(AgentOf(Target(s.qr)).id)
  /\ scans' = (scans \ {s}) \cup {[s EXCEPT !.landed = TRUE]}

\* The registry refuses the proof.
Refuse(s) ==
  /\ ~ Registers(s.qr) /\ ~ Deregisters(s.qr, s.human)
  /\ scans' = scans \ {s}
  /\ UNCHANGED chainVars

ProofArrives ==
  /\ \E s \in scans : ~ s.landed /\ (Land(s) \/ Refuse(s))
  /\ UNCHANGED <<scene, vault, passkey, signedIn, job>>

\* Other people, and other tools of the same people, register and
\* deregister agents: scene.strangers are the keys they use.
OthersRegister ==
  /\ height < scene.changes
  /\ \E k \in scene.strangers, h \in Humans, g \in scene.guardians :
       /\ ~ Registered(k) /\ Cardinality(agents) < scene.tokens
       /\ \E o \in scene.owners \cup {k} : Mint(k, o, g, h, "other")
  /\ UNCHANGED <<scene, vault, passkey, signedIn, scans, job>>

OthersDeregister ==
  /\ height < scene.changes
  /\ \E a \in Alive : a.key \in scene.strangers /\ Burn(a.id)
  /\ UNCHANGED <<scene, vault, passkey, signedIn, scans, job>>

\* Someone scans the code a page shows.
Scan(page, qr) ==
  /\ \A s \in scans : s.page # page \/ s.qr # qr
  /\ Cardinality(scans) < scene.scans
  /\ \E h \in Humans :
       scans' = scans \cup {[page |-> page, qr |-> qr, human |-> h, landed |-> FALSE]}
  /\ UNCHANGED <<scene, agents, height, nonces, vault, passkey, signedIn, job>>

------------------------------------------------------------------------------
(* Local storage. *)

HasPrivateKey(key) == \E i \in DOMAIN vault : vault[i].key = key

\* An agent's key is stored under its address; storing it again replaces the
\* whole entry, its guardian included.
SaveAgentPrivateKey(key, guardian) ==
  LET old == CHOOSE i \in DOMAIN vault : vault[i].key = key
      others == IF HasPrivateKey(key)
                THEN SubSeq(vault, 1, old - 1) \o SubSeq(vault, old + 1, Len(vault))
                ELSE vault
  IN vault' = Append(others, [key |-> key, guardian |-> guardian])

\* The key stored last for a guardian.
KeyByGuardian(guardian) ==
  LET mine == SelectSeq(vault, LAMBDA e : e.guardian = guardian)
  IN IF mine = <<>> THEN None ELSE Last(mine).key
===============================================================================
