--------------------------- MODULE WebFrontEndProofs ---------------------------
(***************************************************************************)
(* What the pages of the web front end show and keep, for every number of  *)
(* handlers under way, keys, wallets, people and changes of the registry,  *)
(* and every scene.                                                        *)
(***************************************************************************)
EXTENDS WebFrontEnd, FiniteSetTheorems, SequenceTheorems, TLAPS

-----------------------------------------------------------------------------
(* The registry and local storage.                                         *)

\* How an agent was registered: in a mode of the page, or elsewhere.
Ways == {"linked", "walletfree", "smartwallet", "privy", "ed25519", "ed25519-linked", "other"}

AgentSet ==
  [id : Nat, key : AgentKeys, owner : Addresses, guardian : SmartWallets \cup {None},
   human : Humans, born : Nat, died : Nat, card : BOOLEAN, via : Ways]

\* A number is one agent's, a key one live agent's, and nothing is of a later time.
ChainOK ==
  /\ agents \subseteq AgentSet /\ IsFiniteSet(agents)
  /\ height \in Nat
  /\ \A a \in agents :
       /\ a.id \in 1 .. Cardinality(agents)
       /\ a.born <= height /\ a.died <= height
  /\ \A a, b \in agents : a.id = b.id => a = b
  /\ \A a, b \in Alive : a.key = b.key => a = b

\* What a step leaves of an agent: everything but its card, and its life until now.
Kept(a, b) ==
  /\ b.id = a.id /\ b.key = a.key /\ b.owner = a.owner /\ b.guardian = a.guardian
  /\ b.human = a.human /\ b.born = a.born /\ b.via = a.via
  /\ b.died = a.died \/ (a.died = 0 /\ b.died > height)

\* What any step does to the registry.
Grown ==
  /\ height' >= height
  /\ \A a \in agents : \E b \in agents' : Kept(a, b)
  /\ \A b \in agents' : \/ \E a \in agents : Kept(a, b)
                        \/ b.born > height /\ b.died = 0

\* The vault is a list of whatever was stored.
VaultOK == \E entries : vault \in Seq(entries)

\* No key is lost.
KeysKept == \A k : HasPrivateKey(k) => HasPrivateKey(k)'

\* An agent that is replaced by one with its number leaves the count as it is.
LEMMA Replaced ==
  ASSUME ChainOK, NEW a \in agents, NEW b, b.id = a.id, agents' = (agents \ {a}) \cup {b}
  PROVE  IsFiniteSet(agents') /\ Cardinality(agents') = Cardinality(agents)
<1>1. /\ IsFiniteSet(agents \ {a}) /\ IsFiniteSet(agents)
      /\ Cardinality(agents \ {a}) = Cardinality(agents) - 1
      /\ Cardinality(agents) \in Nat
  BY FS_RemoveElement, FS_CardinalityType DEF ChainOK
<1>2. b \notin agents \ {a}
  BY DEF ChainOK
<1>3. /\ IsFiniteSet((agents \ {a}) \cup {b})
      /\ Cardinality((agents \ {a}) \cup {b}) = Cardinality(agents \ {a}) + 1
  BY <1>1, <1>2, FS_AddElement
<1> QED
  BY <1>1, <1>3

\* An agent is minted under a number and a key that no live agent has.
LEMMA MintStep ==
  ASSUME ChainOK, NEW key \in AgentKeys, NEW owner \in Addresses,
         NEW guardian \in SmartWallets \cup {None}, NEW human \in Humans, NEW via \in Ways,
         ~ Registered(key), Mint(key, owner, guardian, human, via)
  PROVE  /\ ChainOK' /\ Grown
         /\ \E new \in agents' : /\ agents' = agents \cup {new}
                                 /\ new.key = key /\ new.via = via
<1> DEFINE n == Cardinality(agents)
           new == [id |-> n + 1, key |-> key, owner |-> owner, guardian |-> guardian,
                   human |-> human, born |-> height + 1, died |-> 0, card |-> FALSE,
                   via |-> via]
<1>1. height' = height + 1 /\ agents' = agents \cup {new} /\ height \in Nat
  BY DEF Mint, ChainOK
<1>2. n \in Nat /\ IsFiniteSet(agents)
  BY FS_CardinalityType DEF ChainOK
<1>3. \A a \in agents : a.id <= n /\ a.id \in Nat
  BY <1>2 DEF ChainOK
<1>4. new \notin agents /\ \A a \in agents : a.id # new.id
  BY <1>2, <1>3
<1>5. IsFiniteSet(agents') /\ Cardinality(agents') = n + 1
  BY <1>1, <1>2, <1>4, FS_AddElement
<1>6. new \in AgentSet
  BY <1>1, <1>2 DEF AgentSet
<1>7. \A a \in agents : a.died = 0 => a.key # key
  BY DEF Registered, Alive
<1>11. /\ new.id = n + 1 /\ new.key = key /\ new.via = via
       /\ new.born = height + 1 /\ new.died = 0
  OBVIOUS
<1> HIDE DEF n, new
<1>8. ChainOK'
  <2>1. \A a \in agents : a \in AgentSet /\ a.born <= height /\ a.died <= height
    BY DEF ChainOK
  <2>2. \A a \in agents' : /\ a.id \in 1 .. Cardinality(agents')
                           /\ a.born <= height' /\ a.died <= height'
    <3>1. ASSUME NEW a \in agents
          PROVE  /\ a.id \in 1 .. Cardinality(agents')
                 /\ a.born <= height' /\ a.died <= height'
      <4>1. a.id \in 1 .. n
        BY DEF ChainOK, n
      <4>2. a.born \in Nat /\ a.died \in Nat /\ a.born <= height /\ a.died <= height
        BY <2>1 DEF AgentSet
      <4> QED
        BY <1>1, <1>2, <1>5, <4>1, <4>2
    <3>2. /\ new.id \in 1 .. Cardinality(agents')
          /\ new.born <= height' /\ new.died <= height'
      BY <1>1, <1>2, <1>5, <1>11
    <3> QED
      BY <1>1, <3>1, <3>2
  <2>3. \A a, b \in agents' : a.id = b.id => a = b
    <3>1. \A a, b \in agents : a.id = b.id => a = b
      BY DEF ChainOK
    <3> QED
      BY <1>1, <1>4, <3>1
  <2>4. \A a, b \in agents' : a.died = 0 /\ b.died = 0 /\ a.key = b.key => a = b
    <3>1. \A a, b \in agents : a.died = 0 /\ b.died = 0 /\ a.key = b.key => a = b
      BY DEF ChainOK, Alive
    <3> QED
      BY <1>1, <1>7, <1>11, <3>1
  <2> QED
    <3>1. agents' \subseteq AgentSet /\ height' \in Nat
      BY <1>1, <1>6, <2>1
    <3> QED
      BY <1>5, <2>2, <2>3, <2>4, <3>1 DEF ChainOK, Alive
<1>9. Grown
  BY <1>1, <1>11 DEF Grown, Kept
<1> QED
  BY <1>1, <1>8, <1>9, <1>11

\* One agent is replaced: burnt now, or with another card.
LEMMA ReplaceStep ==
  ASSUME ChainOK, NEW a \in agents, NEW b \in AgentSet, agents' = (agents \ {a}) \cup {b},
         height' \in Nat, height' >= height, Kept(a, b), b.died <= height'
  PROVE  ChainOK' /\ Grown
<1>1. IsFiniteSet(agents') /\ Cardinality(agents') = Cardinality(agents)
  BY Replaced DEF Kept
<1>2. b.id = a.id /\ b.key = a.key /\ b.born = a.born /\ (b.died = 0 => a.died = 0)
  BY DEF Kept, ChainOK, AgentSet
<1>3. \A c \in agents : c \in AgentSet /\ c.born <= height /\ c.died <= height /\ height \in Nat
  BY DEF ChainOK
<1>4. \A c \in agents' : /\ c.id \in 1 .. Cardinality(agents')
                         /\ c.born <= height' /\ c.died <= height'
  BY <1>1, <1>2, <1>3 DEF ChainOK, AgentSet
<1>5. \A c, d \in agents' : c.id = d.id => c = d
  BY <1>2 DEF ChainOK
<1>6. \A c, d \in agents' : c.died = 0 /\ d.died = 0 /\ c.key = d.key => c = d
  BY <1>2 DEF ChainOK, Alive
<1>7. ChainOK'
  BY <1>1, <1>3, <1>4, <1>5, <1>6 DEF ChainOK, Alive
<1>8. Grown
  BY DEF Grown, Kept
<1> QED
  BY <1>7, <1>8

\* A live agent is burnt.
LEMMA BurnStep ==
  ASSUME ChainOK, NEW a \in Alive, Burn(a.id)
  PROVE  ChainOK' /\ Grown
<1> DEFINE b == [a EXCEPT !.died = height + 1]
<1>1. a \in agents /\ a \in AgentSet /\ a.died = 0 /\ height \in Nat
  BY DEF ChainOK, Alive
<1>2. height' = height + 1
  BY DEF Burn
<1>3. b \in AgentSet /\ Kept(a, b) /\ b.died <= height' /\ b.died = height + 1
  BY <1>1, <1>2 DEF AgentSet, Kept
<1>4. agents' = {IF c.id = a.id THEN [c EXCEPT !.died = height + 1] ELSE c : c \in agents}
  BY DEF Burn
<1>5. \A c \in agents : c.id = a.id <=> c = a
  BY <1>1 DEF ChainOK
<1>6. agents' = (agents \ {a}) \cup {b}
  <2>1. \A x : x \in agents' <=> x \in (agents \ {a}) \cup {b}
    BY <1>1, <1>4, <1>5
  <2> QED
    BY <2>1
<1> HIDE DEF b
<1> QED
  BY <1>1, <1>2, <1>3, <1>6, ReplaceStep

\* An agent gets its card.
LEMMA CardStep ==
  ASSUME ChainOK, UNCHANGED height, NEW a \in agents,
         agents' = (agents \ {a}) \cup {[a EXCEPT !.card = TRUE]}
  PROVE  ChainOK' /\ Grown
<1> DEFINE b == [a EXCEPT !.card = TRUE]
<1>1. a \in AgentSet /\ height \in Nat /\ a.died <= height
  BY DEF ChainOK
<1>2. b \in AgentSet /\ Kept(a, b) /\ b.died <= height'
  BY <1>1 DEF AgentSet, Kept
<1>3. agents' = (agents \ {a}) \cup {b}
  OBVIOUS
<1> HIDE DEF b
<1> QED
  BY <1>1, <1>2, <1>3, ReplaceStep

\* The registry stands still.
LEMMA StillStep ==
  ASSUME ChainOK, UNCHANGED <<agents, height>>
  PROVE  ChainOK' /\ Grown
<1>1. ChainOK'
  BY DEF ChainOK, Alive
<1>2. Grown
  BY DEF Grown, Kept, ChainOK
<1> QED
  BY <1>1, <1>2

\* A key is stored, in place of what was stored for it, and no other is lost.
LEMMA SaveStep ==
  ASSUME VaultOK, NEW key, NEW guardian, SaveAgentPrivateKey(key, guardian)
  PROVE  VaultOK' /\ \A k : HasPrivateKey(k)' <=> k = key \/ HasPrivateKey(k)
<1> DEFINE i == CHOOSE i \in DOMAIN vault : vault[i].key = key
           entry == [key |-> key, guardian |-> guardian]
<1>1. PICK entries : vault \in Seq(entries)
  BY DEF VaultOK
<1>2. CASE ~ HasPrivateKey(key)
  <2>1. vault' = Append(vault, entry)
    BY <1>2 DEF SaveAgentPrivateKey
  <2> DEFINE all == entries \cup {entry}
  <2>2. /\ vault' \in Seq(all) /\ Len(vault) \in Nat /\ Len(vault') = Len(vault) + 1
        /\ vault'[Len(vault) + 1] = entry
        /\ \A j \in 1 .. Len(vault) : vault'[j] = vault[j]
        /\ DOMAIN vault = 1 .. Len(vault) /\ DOMAIN vault' = 1 .. Len(vault')
    BY <1>1, <2>1
  <2> QED
    BY <2>2 DEF VaultOK, HasPrivateKey
<1>3. CASE HasPrivateKey(key)
  <2> DEFINE rest == SubSeq(vault, 1, i - 1) \o SubSeq(vault, i + 1, Len(vault))
  <2>1. vault' = Append(rest, entry)
    BY <1>3 DEF SaveAgentPrivateKey
  <2>2. i \in DOMAIN vault /\ vault[i].key = key
    BY <1>3 DEF HasPrivateKey
  <2>3. DOMAIN vault = 1 .. Len(vault) /\ Len(vault) \in Nat
    BY <1>1
  <2>4. i \in 1 .. Len(vault)
    BY <2>2, <2>3
  <2> HIDE DEF i
  <2> DEFINE n == Len(vault)
             low == SubSeq(vault, 1, i - 1)
             high == SubSeq(vault, i + 1, n)
  <2>5. /\ low \in Seq(entries) /\ Len(low) = i - 1
        /\ \A j \in 1 .. i - 1 : low[j] = vault[j]
    BY <1>1, <2>3, <2>4
  <2>6. /\ high \in Seq(entries) /\ Len(high) = n - i
        /\ \A j \in 1 .. n - i : high[j] = vault[i + j]
    <3>1. /\ i + 1 \in Int /\ n \in Int /\ n - (i + 1) + 1 = n - i
          /\ \A j \in i + 1 .. n : j \in 1 .. n
      BY <2>3, <2>4
    <3>2. high \in Seq(entries)
      BY <1>1, <2>3, <2>4, <3>1, SubSeqProperties
    <3>3. Len(high) = n - i
      <4>1. Len(high) = IF i + 1 <= n THEN n - (i + 1) + 1 ELSE 0
        BY <1>1, <3>1, SubSeqProperties
      <4>2. i \in 1 .. n /\ n \in Nat
        BY <2>3, <2>4
      <4> HIDE DEF n, high
      <4> QED
        BY <4>1, <4>2
    <3>4. \A j \in 1 .. n - i : high[j] = vault[i + j]
      BY <1>1, <2>3, <2>4, <3>1, SubSeqProperties
    <3> QED
      BY <3>2, <3>3, <3>4
  <2>7. rest = low \o high
    OBVIOUS
  <2> HIDE DEF low, high, n, rest
  <2>8. /\ rest \in Seq(entries) /\ Len(rest) = n - 1
        /\ \A j \in 1 .. i - 1 : rest[j] = vault[j]
        /\ \A j \in i .. n - 1 : rest[j] = vault[j + 1]
    <3>1. rest \in Seq(entries) /\ Len(rest) = n - 1
      <4>1. rest \in Seq(entries) /\ Len(rest) = Len(low) + Len(high)
        BY <2>5, <2>6, <2>7, ConcatProperties
      <4> QED
        BY <2>3, <2>4, <2>5, <2>6, <4>1 DEF n
    <3>2. \A j \in 1 .. i - 1 : rest[j] = vault[j]
      BY <2>3, <2>4, <2>5, <2>6, <2>7 DEF n
    <3>3. ASSUME NEW j \in i .. n - 1
          PROVE  rest[j] = vault[j + 1]
      <4>1. rest[j] = high[j - (i - 1)]
        BY <2>3, <2>4, <2>5, <2>6, <2>7 DEF n
      <4>2. j - (i - 1) \in 1 .. n - i /\ i + (j - (i - 1)) = j + 1
        BY <2>3, <2>4 DEF n
      <4> QED
        BY <2>6, <4>1, <4>2
    <3> QED
      BY <3>1, <3>2, <3>3
  <2> DEFINE all == entries \cup {entry}
  <2>9. /\ vault' \in Seq(all) /\ Len(vault') = n
        /\ vault'[n] = entry
        /\ \A j \in 1 .. n - 1 : vault'[j] = rest[j]
        /\ DOMAIN vault' = 1 .. n
    <3>1. rest \in Seq(all) /\ entry \in all
      BY <2>8
    <3>2. n \in Nat /\ n - 1 \in Nat /\ n - 1 + 1 = n
      BY <2>3, <2>4 DEF n
    <3> HIDE DEF all
    <3> QED
      BY <2>1, <2>8, <3>1, <3>2
  <2>10. \A k : HasPrivateKey(k)' => k = key \/ HasPrivateKey(k)
    <3>1. n \in Nat /\ n >= 1 /\ i \in Nat /\ DOMAIN vault = 1 .. n
      BY <2>3, <2>4 DEF n
    <3>2. ASSUME NEW j \in 1 .. n, j # n
          PROVE  HasPrivateKey(vault'[j].key)
      <4>1. j \in 1 .. n - 1 /\ j \in Nat /\ vault'[j] = rest[j]
        BY <2>9, <3>1, <3>2
      <4>2. CASE j < i
        <5>1. j \in 1 .. i - 1
          BY <3>1, <4>2
        <5>2. vault'[j] = vault[j]
          BY <2>8, <4>1, <5>1
        <5> QED
          BY <3>1, <5>2 DEF HasPrivateKey
      <4>3. CASE j >= i
        <5>1. j \in i .. n - 1 /\ j + 1 \in 1 .. n
          BY <3>1, <4>1, <4>3
        <5>2. vault'[j] = vault[j + 1]
          BY <2>8, <4>1, <5>1
        <5> QED
          BY <3>1, <5>1, <5>2 DEF HasPrivateKey
      <4> QED
        BY <3>1, <4>1, <4>2, <4>3
    <3>3. SUFFICES ASSUME NEW k, NEW j \in DOMAIN vault', vault'[j].key = k
                   PROVE  k = key \/ HasPrivateKey(k)
      BY DEF HasPrivateKey
    <3>4. CASE j = n
      BY <2>9, <3>3, <3>4
    <3>5. CASE j # n
      BY <2>9, <3>2, <3>3, <3>5
    <3> QED
      BY <3>4, <3>5
  <2>11. ASSUME NEW k, k = key \/ HasPrivateKey(k)
         PROVE  HasPrivateKey(k)'
    <3>1. CASE k = key
      BY <2>3, <2>4, <2>9, <3>1 DEF HasPrivateKey, n
    <3>2. CASE k # key
      <4>1. PICK j \in 1 .. n : vault[j].key = k
        BY <2>3, <2>11, <3>2 DEF HasPrivateKey, n
      <4>2. CASE j < i
        BY <2>3, <2>4, <2>8, <2>9, <4>1, <4>2 DEF HasPrivateKey, n
      <4>3. CASE j > i
        <5>1. j - 1 \in i .. n - 1 /\ j - 1 \in 1 .. n - 1
          BY <2>3, <2>4, <4>1, <4>3 DEF n
        <5>2. vault'[j - 1] = vault[j - 1 + 1] /\ j - 1 + 1 = j
          BY <2>8, <2>9, <5>1, <4>1, <2>3 DEF n
        <5> QED
          BY <2>9, <4>1, <5>1, <5>2 DEF HasPrivateKey
      <4>4. j # i
        BY <2>2, <3>2, <4>1
      <4> QED
        BY <2>3, <2>4, <4>1, <4>2, <4>3, <4>4 DEF n
    <3> QED
      BY <3>1, <3>2
  <2> QED
    BY <2>9, <2>10, <2>11 DEF VaultOK
<1> QED
  BY <1>2, <1>3

-----------------------------------------------------------------------------
(* The handlers under way: which fields each kind has, and whose they are. *)

RegisterKinds == {"connect", "passkey", "sign", "edNonce", "poll", "card"}
MineKinds == {"load", "wallet", "signin", "mint", "ask", "status", "userOp"}
VerifyKinds == {"verify", "userOp"}
PageKinds == MineKinds \cup VerifyKinds
LoaderKinds == {"byKey", "byPasskey", "byWallet", "bySocial", "chat"}
DemoKinds == LoaderKinds \cup {"tests"}

Shaped(j) ==
  /\ "kind" \in DOMAIN j
  /\ j.kind = "sign" => DOMAIN j = {"kind", "mode", "key", "user", "guardian", "action"}
  /\ j.kind = "load" => DOMAIN j = {"kind", "by", "arg", "at", "since", "latest", "todo", "found",
                                    "verified", "failed", "all", "then"}
  /\ j.kind = "userOp" => {"kind", "page", "id", "sent"} \subseteq DOMAIN j
  /\ j.kind = "mint" => DOMAIN j = {"kind", "id", "owner", "written"}
  /\ j.kind = "verify" => DOMAIN j = {"kind", "at", "key", "verified", "id", "owner", "whole", "since"}
  /\ j.kind = "byKey" => DOMAIN j = {"kind", "at", "key"}
  /\ j.kind = "byPasskey" => DOMAIN j = {"kind", "smart"}
  /\ j.kind = "byWallet" => DOMAIN j = {"kind", "key"}
  /\ j.kind = "bySocial" => DOMAIN j = {"kind", "at", "key"}
  /\ j.kind = "tests" => DOMAIN j = {"kind", "signer", "key", "keyType", "inOrder", "at", "since"}

JobsShaped ==
  /\ job = [n \in Slots |-> job[n]]
  /\ \A n \in Slots : job[n] # NoJob => Shaped(job[n])

\* What a step of one page does to the handlers: it leaves, ends or starts
\* some, and starts only its own.
Moves(kinds) ==
  \A n \in Slots : job'[n] = job[n] \/ job'[n] = NoJob \/ job'[n].kind \in kinds

\* One handler goes on.
LEMMA RunStep ==
  ASSUME JobsShaped, NEW n \in Slots, NEW rest, Run(n, rest)
  PROVE  job'[n] = rest /\ \A m \in Slots : m # n => job'[m] = job[m]
BY DEF Run, JobsShaped

\* A handler that goes on has the fields of its kind.
LEMMA RunMoves ==
  ASSUME JobsShaped, NEW n \in Slots, NEW rest, Run(n, rest),
         NEW kinds, Shaped(rest), rest.kind \in kinds
  PROVE  JobsShaped' /\ Moves(kinds)
<1>1. job'[n] = rest /\ \A m \in Slots : m # n => job'[m] = job[m]
  BY RunStep
<1>2. job' = [m \in Slots |-> job'[m]]
  BY DEF Run, JobsShaped
<1> QED
  BY <1>1, <1>2 DEF JobsShaped, Moves

\* A handler that ends leaves the others alone.
LEMMA DoneMoves ==
  ASSUME JobsShaped, NEW n \in Slots, NEW kinds, Done(n)
  PROVE  JobsShaped' /\ Moves(kinds)
<1>1. job'[n] = NoJob /\ \A m \in Slots : m # n => job'[m] = job[m]
  BY DEF Done, JobsShaped
<1>2. job' = [m \in Slots |-> job'[m]]
  BY DEF Done, JobsShaped
<1> QED
  BY <1>1, <1>2 DEF JobsShaped, Moves

\* So does leaving a page.
LEMMA AbandonMoves ==
  ASSUME JobsShaped, NEW handlers, NEW kinds, Abandon(handlers)
  PROVE  JobsShaped' /\ Moves(kinds)
BY DEF Abandon, JobsShaped, Moves

\* And a step that moves no handler.
LEMMA RestMoves ==
  ASSUME JobsShaped, NEW kinds, UNCHANGED job
  PROVE  JobsShaped' /\ Moves(kinds)
BY DEF JobsShaped, Moves

\* What moves some handlers moves no more than these and others.
LEMMA MovesMore ==
  ASSUME NEW some, NEW more, Moves(some), some \subseteq more
  PROVE  Moves(more)
BY DEF Moves

-----------------------------------------------------------------------------
(* The registration page.                                                  *)

\* The pages' records keep their fields.
PagesShaped ==
  /\ DOMAIN reg = {"step", "mode", "wallet", "human", "smart", "social", "app", "loading",
                   "redirected", "done", "edKey", "edNonce", "edStep", "card"}
  /\ DOMAIN mine = {"tab", "list", "loading", "wallet", "smart", "social", "revoking", "minting",
                    "siblings", "siblingsOf", "siblingsLoading", "refreshing", "refreshPoll",
                    "identifyPoll", "sessions"}
  /\ DOMAIN ver = {"resolved", "info", "loading", "wallet", "app", "revoking"}
  /\ DOMAIN demo = {"agent", "loading", "unlocked", "chatting", "tests", "setup", "signer", "key",
                    "keyType", "viaPasskey", "smart", "ready", "passkeyLoading", "wallet",
                    "walletLoading", "socialLoading", "effect"}

\* What a code for a registration says: its key was generated here or pasted,
\* and where the page keeps the key itself, it has it already.
CodeOK(qr) ==
  /\ qr.action \in {"K", "W", "E"} /\ qr.mode \in Ways
  /\ qr.key \in made \cup EdKeys /\ qr.user \in Addresses
  /\ qr.guardian \in SmartWallets \cup {None}
  /\ qr.mode \in {"smartwallet", "privy"} => HasPrivateKey(qr.key)

\* The page asks about its own keys and shows codes for them.
RegOK ==
  /\ reg.wallet \in made \cup {None} /\ reg.edKey \in EdKeys \cup {None}
  /\ reg.edStep = "challenge" => reg.edKey \in EdKeys
  /\ reg.app # None => CodeOK(reg.app)

\* So do its handlers.
RegisterJobOK(j) ==
  /\ j.kind = "sign" => /\ j.key \in made /\ j.user \in Addresses
                        /\ j.guardian \in SmartWallets \cup {None}
                        /\ j.action \in {"K", "W"} /\ j.mode \in Ways
                        /\ j.mode \in {"smartwallet", "privy"} => HasPrivateKey(j.key)
  /\ j.kind = "edNonce" => reg.edKey \in EdKeys
  /\ j.kind = "poll" => j.key \in made \cup EdKeys

JobsOK == \A n \in Slots : job[n] # NoJob => RegisterJobOK(job[n])

\* A proof from a code of this page has landed only with its agent on the chain.
ScanOK(s) ==
  /\ DOMAIN s = {"page", "qr", "human", "landed"} /\ s.human \in Humans
  /\ s.page = "register" => /\ CodeOK(s.qr)
                            /\ s.landed => \E a \in agents : a.key = s.qr.key
  /\ s.page # "register" => s.qr.action \in {"D", "X"}

\* A generated key is nobody's until this browser has generated it.
KeysOK ==
  /\ made \subseteq scene.fresh
  /\ \A a \in agents : a.key \notin scene.fresh \ made

\* A code for a deregistration is no code for a registration.
VerOK == ver.app # None => ver.app.action \in {"D", "X"}

BaseInv ==
  /\ SceneOK(scene) /\ ChainOK /\ VaultOK /\ JobsShaped /\ PagesShaped
  /\ KeysOK /\ RegOK /\ VerOK /\ JobsOK
  /\ \A s \in scans : ScanOK(s)
  /\ RegisteredKeyKept /\ SuccessWasReal

\* An agent is what one was before, or a new one whose key is no key that this
\* browser has yet to generate, and is in the vault where the page keeps it.
NewAgentsOK ==
  \A b \in agents' :
    \/ \E a \in agents : Kept(a, b)
    \/ /\ b.key \notin scene.fresh \ made
       /\ b.via \in {"smartwallet", "privy"} => HasPrivateKey(b.key)

\* More keys, generated and stored, leave a code as good as it was.
LEMMA CodesStay ==
  ASSUME made \subseteq made', KeysKept
  PROVE  \A qr : CodeOK(qr) => CodeOK(qr)'
BY DEF CodeOK, KeysKept

\* The same of the handlers.
LEMMA JobsStay ==
  ASSUME made \subseteq made', KeysKept, reg.edKey \in EdKeys => reg'.edKey \in EdKeys
  PROVE  \A j : RegisterJobOK(j) => RegisterJobOK(j)'
BY DEF RegisterJobOK, KeysKept

\* One handler goes on, to something that is in order.
LEMMA JobsStep ==
  ASSUME JobsOK, made \subseteq made', KeysKept,
         reg.edKey \in EdKeys => reg'.edKey \in EdKeys,
         \A n \in Slots : job'[n] = job[n] \/ job'[n] = NoJob \/ RegisterJobOK(job[n])'
  PROVE  JobsOK'
BY JobsStay DEF JobsOK

\* Agents that were there still are, under the same keys.
LEMMA AgentsStay ==
  ASSUME Grown
  PROVE  \A k : (\E a \in agents : a.key = k) => (\E a \in agents' : a.key = k)
BY DEF Grown, Kept

\* What a step must show for the invariant to hold after it.
LEMMA BaseStep ==
  ASSUME BaseInv, UNCHANGED scene, ChainOK', Grown, NewAgentsOK, VaultOK', KeysKept,
         JobsShaped', PagesShaped', RegOK', VerOK', JobsOK', SuccessWasReal',
         made \subseteq made', made' \subseteq scene.fresh,
         \A s \in scans' : s \in scans \/ ScanOK(s)'
  PROVE  BaseInv'
<1>1. \A s \in scans' : ScanOK(s)'
  <2>1. \A qr : CodeOK(qr) => CodeOK(qr)'
    BY CodesStay
  <2>2. \A k : (\E a \in agents : a.key = k) => (\E a \in agents' : a.key = k)
    BY AgentsStay
  <2>3. \A s : ScanOK(s) => ScanOK(s)'
    BY <2>1, <2>2 DEF ScanOK
  <2> QED
    BY <2>3 DEF BaseInv
<1>2. KeysOK'
  <2>1. \A b \in agents' : b.key \notin scene.fresh \ made
    BY DEF BaseInv, KeysOK, NewAgentsOK, Kept
  <2> QED
    BY <2>1 DEF KeysOK
<1>3. RegisteredKeyKept'
  <2>1. \A b \in agents' : b.via \in {"smartwallet", "privy"} => HasPrivateKey(b.key)
    BY DEF BaseInv, RegisteredKeyKept, NewAgentsOK, Kept
  <2> QED
    BY <2>1 DEF RegisteredKeyKept, KeysKept
<1> QED
  BY <1>1, <1>2, <1>3 DEF BaseInv

\* What a handler of the registration page leaves in order.
RegisterOK ==
  /\ JobsShaped' /\ DOMAIN reg' = DOMAIN reg /\ RegOK' /\ JobsOK' /\ SuccessWasReal'
  /\ VaultOK' /\ KeysKept /\ made \subseteq made' /\ made' \subseteq scene.fresh
  /\ Moves(RegisterKinds)

\* The vault stands still.
LEMMA VaultStill ==
  ASSUME VaultOK, UNCHANGED vault
  PROVE  VaultOK' /\ KeysKept
BY DEF VaultOK, KeysKept, HasPrivateKey

\* Or takes a key.
LEMMA VaultTakes ==
  ASSUME VaultOK, NEW key, NEW guardian, SaveAgentPrivateKey(key, guardian)
  PROVE  VaultOK' /\ KeysKept /\ HasPrivateKey(key)'
BY SaveStep DEF KeysKept

\* Steps of the wizard that move no handler and generate no key.
LEMMA WizardStep ==
  ASSUME BaseInv, UNCHANGED <<scene, chainVars, scans>>,
         \/ WizardComplete \/ BackToWizard \/ BackToConnect \/ PrivyStart
         \/ Ed25519SubmitSignature \/ SocketSuccess
  PROVE  RegisterOK
<1>1. UNCHANGED <<made, vault, job, agents>>
  BY DEF WizardComplete, BackToWizard, BackToConnect, PrivyStart, Ed25519SubmitSignature,
         SocketSuccess, storeVars, chainVars
<1>2. /\ VaultOK' /\ KeysKept /\ JobsShaped' /\ Moves(RegisterKinds)
      /\ made \subseteq made' /\ made' \subseteq scene.fresh
  BY <1>1, VaultStill, RestMoves DEF BaseInv, KeysOK
<1>3. \A qr : CodeOK(qr) => CodeOK(qr)'
  BY <1>2, CodesStay
<1>4. reg.edKey \in EdKeys => reg'.edKey \in EdKeys
  <2>1. CASE WizardComplete \/ BackToWizard \/ BackToConnect \/ PrivyStart
    BY <2>1 DEF WizardComplete, BackToWizard, BackToConnect, PrivyStart, BaseInv, PagesShaped
  <2>2. CASE Ed25519SubmitSignature
    BY <2>2 DEF Ed25519SubmitSignature, BaseInv, PagesShaped
  <2>3. CASE SocketSuccess
    BY <2>3 DEF SocketSuccess, HandleSuccess, BaseInv, PagesShaped
  <2> QED
    BY <2>1, <2>2, <2>3
<1>5. JobsOK'
  BY <1>1, <1>2, <1>4, JobsStep DEF BaseInv
<1>6. DOMAIN reg' = DOMAIN reg /\ RegOK' /\ SuccessWasReal'
  <2>1. CASE WizardComplete
    <3>1. /\ DOMAIN reg' = DOMAIN reg /\ reg'.wallet = reg.wallet /\ reg'.edKey = reg.edKey
          /\ reg'.edStep = reg.edStep /\ reg'.app = reg.app /\ reg'.step # "success"
      BY <2>1 DEF WizardComplete, BaseInv, PagesShaped
    <3> QED
      BY <1>1, <1>3, <3>1 DEF BaseInv, RegOK, SuccessWasReal
  <2>2. CASE BackToWizard
    BY <1>1, <1>3, <2>2 DEF BackToWizard, BaseInv, PagesShaped, RegOK, SuccessWasReal
  <2>3. CASE BackToConnect
    BY <1>1, <1>3, <2>3 DEF BackToConnect, BaseInv, PagesShaped, RegOK, SuccessWasReal
  <2>4. CASE PrivyStart
    BY <1>1, <1>3, <2>4 DEF PrivyStart, BaseInv, PagesShaped, RegOK, SuccessWasReal
  <2>5. CASE Ed25519SubmitSignature
    <3>1. PICK signer \in {reg.edKey, None} :
            reg' = [reg EXCEPT !.step = "scan", !.edStep = "scan",
                 !.app = [mode |-> reg.mode, action |-> "E", key |-> reg.edKey,
                          signer |-> signer, signedFor |-> reg.edKey, nonce |-> reg.edNonce,
                          user |-> reg.edKey, guardian |-> None]]
      BY <2>5 DEF Ed25519SubmitSignature
    <3>2. reg.edKey \in EdKeys /\ reg.mode \in {"ed25519", "ed25519-linked"}
      BY <2>5 DEF Ed25519SubmitSignature, Ed25519Mode, BaseInv, RegOK
    <3>3. /\ DOMAIN reg' = DOMAIN reg /\ reg'.step = "scan" /\ reg'.edStep = "scan"
          /\ reg'.wallet = reg.wallet /\ reg'.edKey = reg.edKey
          /\ reg'.app.action = "E" /\ reg'.app.mode = reg.mode /\ reg'.app.key = reg.edKey
          /\ reg'.app.user = reg.edKey /\ reg'.app.guardian = None
      BY <3>1 DEF BaseInv, PagesShaped
    <3>4. CodeOK(reg.app)'
      <4>1. reg.edKey \in Addresses
        BY <3>2 DEF Addresses, AgentKeys
      <4>2. reg.mode \in Ways /\ reg.mode \notin {"smartwallet", "privy"}
        BY <3>2 DEF Ways
      <4>3. /\ reg'.app.action \in {"K", "W", "E"} /\ reg'.app.mode \in Ways
            /\ reg'.app.key \in made' \cup EdKeys /\ reg'.app.user \in Addresses
            /\ reg'.app.guardian \in SmartWallets \cup {None}
            /\ reg'.app.mode \notin {"smartwallet", "privy"}
        BY <3>2, <3>3, <4>1, <4>2
      <4> QED
        BY <4>3 DEF CodeOK
    <3> QED
      BY <1>1, <3>3, <3>4 DEF BaseInv, RegOK, SuccessWasReal
  <2>6. CASE SocketSuccess
    <3>1. \E a \in agents : a.key \in made \cup EdKeys
      BY <2>6 DEF SocketSuccess, BaseInv, ScanOK, CodeOK
    <3>2. /\ DOMAIN reg' = DOMAIN reg /\ reg'.wallet = reg.wallet /\ reg'.edKey = reg.edKey
          /\ reg'.edStep = reg.edStep /\ reg'.app = reg.app
      BY <2>6 DEF SocketSuccess, HandleSuccess, BaseInv, PagesShaped
    <3> QED
      BY <1>1, <1>3, <2>6, <3>1, <3>2
         DEF SocketSuccess, HandleSuccess, BaseInv, PagesShaped, RegOK, SuccessWasReal
  <2> QED
    BY <2>1, <2>2, <2>3, <2>4, <2>5, <2>6
<1> QED
  BY <1>2, <1>5, <1>6 DEF RegisterOK

\* Steps that start a handler which holds no key, or one that was asked for.
LEMMA StartStep ==
  ASSUME BaseInv, UNCHANGED <<scene, chainVars, scans>>, NEW n \in Slots,
         \/ Connect(n) \/ SmartWalletStart(n) \/ Ed25519ValidateKey(n)
         \/ PollRegistry(n) \/ SetCard(n)
  PROVE  RegisterOK
<1>1. UNCHANGED <<made, vault, agents>>
  BY DEF Connect, SmartWalletStart, Ed25519ValidateKey, PollRegistry, SetCard, storeVars, chainVars
<1>2. /\ VaultOK' /\ KeysKept /\ made \subseteq made' /\ made' \subseteq scene.fresh
  BY <1>1, VaultStill DEF BaseInv, KeysOK
<1>3. \A qr : CodeOK(qr) => CodeOK(qr)'
  BY <1>2, CodesStay
<1>4. reg.edKey \in EdKeys => reg'.edKey \in EdKeys
  BY DEF Connect, SmartWalletStart, Ed25519ValidateKey, PollRegistry, SetCard, BaseInv, PagesShaped
<1>5. DOMAIN reg' = DOMAIN reg /\ RegOK' /\ SuccessWasReal'
  <2>1. CASE Connect(n) \/ PollRegistry(n)
    BY <1>1, <1>3, <2>1 DEF Connect, PollRegistry, BaseInv, RegOK, SuccessWasReal
  <2>2. CASE SmartWalletStart(n) \/ Ed25519ValidateKey(n) \/ SetCard(n)
    <3>1. /\ DOMAIN reg' = DOMAIN reg /\ reg'.wallet = reg.wallet
          /\ reg'.edStep = reg.edStep /\ reg'.app = reg.app /\ reg'.step = reg.step
          /\ reg'.edKey = reg.edKey \/ reg'.edKey \in EdKeys
      <4>1. CASE SmartWalletStart(n)
        BY <4>1 DEF SmartWalletStart, BaseInv, PagesShaped
      <4>2. CASE Ed25519ValidateKey(n)
        BY <4>2 DEF Ed25519ValidateKey, BaseInv, PagesShaped
      <4>3. CASE SetCard(n)
        BY <4>3 DEF SetCard, BaseInv, PagesShaped
      <4> QED
        BY <2>2, <4>1, <4>2, <4>3
    <3> QED
      BY <1>1, <1>3, <3>1 DEF BaseInv, RegOK, SuccessWasReal
  <2> QED
    BY <2>1, <2>2
<1>6. /\ JobsShaped' /\ Moves(RegisterKinds)
      /\ \A m \in Slots : job'[m] = job[m] \/ RegisterJobOK(job[m])'
  <2>1. CASE UNCHANGED job
    BY <2>1, RestMoves DEF BaseInv
  <2>2. CASE \E rest : /\ Run(n, rest) /\ Shaped(rest)
                       /\ rest.kind \in {"connect", "passkey", "edNonce", "poll", "card"}
                       /\ rest.kind = "edNonce" => reg'.edKey \in EdKeys
                       /\ rest.kind = "poll" => rest.key \in made \cup EdKeys
    <3>1. PICK rest : /\ Run(n, rest) /\ Shaped(rest)
                      /\ rest.kind \in {"connect", "passkey", "edNonce", "poll", "card"}
                      /\ rest.kind = "edNonce" => reg'.edKey \in EdKeys
                      /\ rest.kind = "poll" => rest.key \in made \cup EdKeys
      BY <2>2
    <3>2. job'[n] = rest /\ \A m \in Slots : m # n => job'[m] = job[m]
      BY <3>1, RunStep DEF BaseInv
    <3>3. JobsShaped' /\ Moves(RegisterKinds)
      BY <3>1, RunMoves DEF BaseInv, RegisterKinds
    <3> QED
      BY <1>1, <3>1, <3>2, <3>3 DEF RegisterJobOK
  <2>3. CASE Connect(n)
    <3>1. Run(n, [kind |-> "connect"])
      BY <2>3 DEF Connect
    <3> QED
      BY <2>2, <3>1 DEF Shaped
  <2>4. CASE SmartWalletStart(n)
    <3>1. Run(n, [kind |-> "passkey"])
      BY <2>4 DEF SmartWalletStart
    <3> QED
      BY <2>2, <3>1 DEF Shaped
  <2>5. CASE Ed25519ValidateKey(n)
    <3>1. PICK k \in EdKeys : reg' = [reg EXCEPT !.edKey = k] /\ Run(n, [kind |-> "edNonce", key |-> k])
      BY <2>5 DEF Ed25519ValidateKey
    <3>2. reg'.edKey = k
      BY <3>1 DEF BaseInv, PagesShaped
    <3> QED
      BY <2>2, <3>1, <3>2 DEF Shaped
  <2>6. CASE PollRegistry(n)
    <3>1. Run(n, [kind |-> "poll", key |-> PolledKey]) /\ PolledKey # None
      BY <2>6 DEF PollRegistry
    <3>2. PolledKey \in made \cup EdKeys
      BY <3>1 DEF PolledKey, BaseInv, RegOK
    <3> QED
      BY <2>2, <3>1, <3>2 DEF Shaped
  <2>7. CASE SetCard(n)
    <3>1. UNCHANGED job \/ Run(n, [kind |-> "card", key |-> reg.wallet])
      BY <2>7 DEF SetCard
    <3> QED
      BY <2>1, <2>2, <3>1 DEF Shaped
  <2> QED
    BY <2>3, <2>4, <2>5, <2>6, <2>7
<1>7. JobsOK'
  BY <1>2, <1>4, <1>6, JobsStep DEF BaseInv
<1> QED
  BY <1>2, <1>5, <1>6, <1>7 DEF RegisterOK

\* A key is generated: nobody's so far, and the handler goes on with it.
LEMMA GenerateStep ==
  ASSUME BaseInv, NEW n \in Slots, NEW key, NEW mode \in Ways, NEW user \in Addresses,
         NEW guardian \in SmartWallets \cup {None}, NEW action \in {"K", "W"},
         Generate(n, key, [mode |-> mode, action |-> action, user |-> user, guardian |-> guardian]),
         KeysKept, reg'.edKey = reg.edKey,
         mode \in {"smartwallet", "privy"} => HasPrivateKey(key)'
  PROVE  /\ JobsShaped' /\ JobsOK' /\ made \subseteq made' /\ made' \subseteq scene.fresh
         /\ key \in made' /\ Moves(RegisterKinds)
<1> DEFINE rest == [kind |-> "sign", mode |-> mode, key |-> key, user |-> user,
                    guardian |-> guardian, action |-> action]
<1>1. /\ key \in scene.fresh \ made /\ made' = made \cup {key} /\ Run(n, rest)
  BY DEF Generate
<1>2. Shaped(rest)
  BY DEF Shaped
<1>3. /\ rest.kind = "sign" /\ rest.key = key /\ rest.mode = mode /\ rest.user = user
      /\ rest.guardian = guardian /\ rest.action = action
  OBVIOUS
<1> HIDE DEF rest
<1>4. /\ JobsShaped' /\ Moves(RegisterKinds)
      /\ job'[n] = rest /\ \A m \in Slots : m # n => job'[m] = job[m]
  BY <1>1, <1>2, <1>3, RunMoves, RunStep DEF BaseInv, RegisterKinds
<1>5. RegisterJobOK(job[n])'
  <2>1. /\ job'[n].kind = "sign" /\ job'[n].key \in made'
        /\ job'[n].user \in Addresses /\ job'[n].guardian \in SmartWallets \cup {None}
        /\ job'[n].action \in {"K", "W"} /\ job'[n].mode \in Ways
        /\ job'[n].key = key /\ job'[n].mode = mode
    BY <1>1, <1>3, <1>4
  <2>2. job'[n].mode \in {"smartwallet", "privy"} => HasPrivateKey(job[n].key)'
    BY <2>1 DEF HasPrivateKey
  <2> QED
    BY <2>1, <2>2 DEF RegisterJobOK
<1>6. JobsOK'
  BY <1>1, <1>4, <1>5, JobsStep DEF BaseInv
<1> QED
  BY <1>1, <1>4, <1>6 DEF BaseInv, KeysOK

\* Steps that generate a key.
LEMMA KeyStep ==
  ASSUME BaseInv, UNCHANGED <<scene, chainVars, scans>>, NEW n \in Slots,
         Connected(n) \/ WalletFreeStart(n) \/ PasskeyCreated(n) \/ CompletePrivy(n)
  PROVE  RegisterOK
<1> USE DEF Ways
<1>1. SUFFICES ASSUME NEW k \in EvmKeys, NEW mode \in Ways, NEW user \in Addresses,
                      NEW guardian \in SmartWallets \cup {None}, NEW action \in {"K", "W"},
                      Generate(n, k, [mode |-> mode, action |-> action, user |-> user,
                                      guardian |-> guardian]),
                      \/ mode \notin {"smartwallet", "privy"} /\ UNCHANGED vault
                      \/ SaveAgentPrivateKey(k, guardian),
                      DOMAIN reg' = DOMAIN reg, reg'.wallet = k, reg'.edKey = reg.edKey,
                      reg'.edStep = reg.edStep, reg'.app = reg.app, reg'.step = reg.step
               PROVE  RegisterOK
  <2> DEFINE refused == /\ UNCHANGED <<made, vault>> /\ Done(n)
                        /\ UNCHANGED reg \/ reg' = [reg EXCEPT !.loading = FALSE]
  <2>1. CASE refused
    <3>1. VaultOK' /\ KeysKept /\ JobsShaped' /\ Moves(RegisterKinds)
      BY <2>1, VaultStill, DoneMoves DEF BaseInv
    <3>2. /\ DOMAIN reg' = DOMAIN reg /\ reg'.wallet = reg.wallet /\ reg'.edKey = reg.edKey
          /\ reg'.edStep = reg.edStep /\ reg'.app = reg.app /\ reg'.step = reg.step
      BY <2>1 DEF BaseInv, PagesShaped
    <3>3. \A m \in Slots : job'[m] = job[m] \/ job'[m] = NoJob
      BY <2>1 DEF Done, BaseInv, JobsShaped
    <3>4. JobsOK'
      BY <2>1, <3>1, <3>2, <3>3, JobsStep DEF BaseInv
    <3>5. \A qr : CodeOK(qr) => CodeOK(qr)'
      BY <2>1, <3>1, CodesStay
    <3> QED
      BY <2>1, <3>1, <3>2, <3>4, <3>5 DEF RegisterOK, BaseInv, KeysOK, RegOK, SuccessWasReal, chainVars
  <2>2. CASE Connected(n)
    <3>1. CASE ~ refused
      <4>1. PICK w \in Wallets, k \in EvmKeys :
              /\ reg' = [reg EXCEPT !.human = w, !.wallet = k]
              /\ Generate(n, k, [mode |-> "linked", action |-> "K", user |-> w, guardian |-> None])
        BY <2>2, <3>1 DEF Connected, storeVars
      <4>2. /\ DOMAIN reg' = DOMAIN reg /\ reg'.wallet = k /\ reg'.edKey = reg.edKey
            /\ reg'.edStep = reg.edStep /\ reg'.app = reg.app /\ reg'.step = reg.step
        BY <4>1 DEF BaseInv, PagesShaped
      <4>3. w \in Addresses /\ UNCHANGED vault
        BY <2>2 DEF Addresses, AgentKeys, Connected, storeVars
      <4> QED
        BY <1>1, <4>1, <4>2, <4>3
    <3> QED
      BY <2>1, <3>1
  <2>3. CASE WalletFreeStart(n)
    <3>1. PICK k \in EvmKeys :
            /\ reg' = [reg EXCEPT !.wallet = k]
            /\ Generate(n, k, [mode |-> "walletfree", action |-> "W", user |-> k, guardian |-> None])
      BY <2>3 DEF WalletFreeStart
    <3>2. /\ DOMAIN reg' = DOMAIN reg /\ reg'.wallet = k /\ reg'.edKey = reg.edKey
          /\ reg'.edStep = reg.edStep /\ reg'.app = reg.app /\ reg'.step = reg.step
      BY <3>1 DEF BaseInv, PagesShaped
    <3>3. k \in Addresses /\ UNCHANGED vault
      BY <2>3 DEF Addresses, AgentKeys, WalletFreeStart, storeVars
    <3> QED
      BY <1>1, <3>1, <3>2, <3>3
  <2>4. CASE PasskeyCreated(n)
    <3>1. CASE ~ refused
      <4>1. PICK s \in SmartWallets, k \in EvmKeys :
              /\ reg' = [reg EXCEPT !.smart = s, !.wallet = k]
              /\ Generate(n, k, [mode |-> "smartwallet", action |-> "W", user |-> k, guardian |-> s])
              /\ KeepSmartKey(k, s)
        BY <2>4, <3>1 DEF PasskeyCreated
      <4>2. /\ DOMAIN reg' = DOMAIN reg /\ reg'.wallet = k /\ reg'.edKey = reg.edKey
            /\ reg'.edStep = reg.edStep /\ reg'.app = reg.app /\ reg'.step = reg.step
        BY <4>1 DEF BaseInv, PagesShaped
      <4>3. k \in Addresses /\ SaveAgentPrivateKey(k, s)
        BY <4>1 DEF Addresses, AgentKeys, KeepSmartKey
      <4> QED
        BY <1>1, <4>1, <4>2, <4>3
    <3> QED
      BY <2>1, <3>1
  <2>5. CASE CompletePrivy(n)
    <3>1. PICK v \in SocialWallets, k \in EvmKeys :
            /\ reg' = [reg EXCEPT !.redirected = FALSE, !.loading = TRUE, !.social = v, !.wallet = k]
            /\ Generate(n, k, [mode |-> "privy", action |-> "K", user |-> v, guardian |-> None])
            /\ SaveAgentPrivateKey(k, None)
      BY <2>5 DEF CompletePrivy
    <3>2. /\ DOMAIN reg' = DOMAIN reg /\ reg'.wallet = k /\ reg'.edKey = reg.edKey
          /\ reg'.edStep = reg.edStep /\ reg'.app = reg.app /\ reg'.step = reg.step
      BY <3>1 DEF BaseInv, PagesShaped
    <3>3. v \in Addresses
      BY DEF Addresses, AgentKeys
    <3> QED
      BY <1>1, <3>1, <3>2, <3>3
  <2> QED
    BY <2>2, <2>3, <2>4, <2>5
<1> HIDE DEF Ways
<1>2. /\ VaultOK' /\ KeysKept
      /\ mode \in {"smartwallet", "privy"} => HasPrivateKey(k)'
  BY <1>1, VaultStill, VaultTakes DEF BaseInv
<1>3. /\ JobsShaped' /\ JobsOK' /\ made \subseteq made' /\ made' \subseteq scene.fresh
      /\ k \in made' /\ Moves(RegisterKinds)
  <2>1. reg'.edKey = reg.edKey /\ KeysKept
    BY <1>1, <1>2
  <2> QED
    BY <1>1, <1>2, <2>1, GenerateStep
<1>4. \A qr : CodeOK(qr) => CodeOK(qr)'
  BY <1>2, <1>3, CodesStay
<1>5. RegOK' /\ SuccessWasReal'
  BY <1>1, <1>3, <1>4 DEF BaseInv, RegOK, SuccessWasReal, chainVars
<1> QED
  BY <1>1, <1>2, <1>3, <1>5 DEF RegisterOK

\* Steps that end a handler.
LEMMA EndStep ==
  ASSUME BaseInv, UNCHANGED <<scene, agents, scans>>, NEW n \in Slots,
         \/ ShowCode(n) \/ SignFails(n) \/ Ed25519Challenged(n) \/ PollAnswered(n)
         \/ CardAgentRead(n) \/ CardFails(n)
  PROVE  RegisterOK
<1>1. UNCHANGED <<made, vault>>
  BY DEF ShowCode, SignFails, Ed25519Challenged, PollAnswered, CardAgentRead, CardFails, storeVars
<1>2. /\ VaultOK' /\ KeysKept /\ made \subseteq made' /\ made' \subseteq scene.fresh
  BY <1>1, VaultStill DEF BaseInv, KeysOK
<1>3. \A qr : CodeOK(qr) => CodeOK(qr)'
  BY <1>2, CodesStay
<1>4. Done(n) \/ UNCHANGED job
  BY DEF ShowCode, SignFails, Ed25519Challenged, PollAnswered, CardAgentRead, CardFails
<1>5. /\ JobsShaped' /\ Moves(RegisterKinds)
      /\ \A m \in Slots : job'[m] = job[m] \/ job'[m] = NoJob
  BY <1>4, DoneMoves, RestMoves DEF BaseInv, Done, JobsShaped
<1>6. /\ DOMAIN reg' = DOMAIN reg /\ RegOK' /\ SuccessWasReal'
      /\ reg.edKey \in EdKeys => reg'.edKey \in EdKeys
  <2>1. CASE ShowCode(n)
    <3> DEFINE app == Challenge(job[n])
    <3>1. RegisterJobOK(job[n]) /\ job[n].kind = "sign"
      BY <2>1 DEF ShowCode, At, BaseInv, JobsOK
    <3>2. /\ app.action = job[n].action /\ app.mode = job[n].mode /\ app.key = job[n].key
          /\ app.user = job[n].user /\ app.guardian = job[n].guardian
      BY DEF Challenge
    <3>3. /\ DOMAIN reg' = DOMAIN reg /\ reg'.wallet = reg.wallet /\ reg'.edKey = reg.edKey
          /\ reg'.edStep = reg.edStep /\ reg'.app = app /\ reg'.step = "scan"
      BY <2>1 DEF ShowCode, BaseInv, PagesShaped
    <3> HIDE DEF app
    <3>4. CodeOK(app)
      <4>1. /\ job[n].key \in made \cup EdKeys /\ job[n].action \in {"K", "W", "E"}
            /\ job[n].mode \in {"smartwallet", "privy"} => HasPrivateKey(job[n].key)
            /\ job[n].mode \in Ways /\ job[n].user \in Addresses
            /\ job[n].guardian \in SmartWallets \cup {None}
        BY <3>1 DEF RegisterJobOK
      <4>2. app.mode \in {"smartwallet", "privy"} => HasPrivateKey(app.key)
        BY <3>2, <4>1 DEF HasPrivateKey
      <4> QED
        BY <3>2, <4>1, <4>2 DEF CodeOK
    <3> QED
      BY <1>1, <1>3, <3>3, <3>4 DEF BaseInv, RegOK, SuccessWasReal
  <2>2. CASE SignFails(n) \/ CardAgentRead(n) \/ CardFails(n)
    <3>1. /\ DOMAIN reg' = DOMAIN reg /\ reg'.wallet = reg.wallet /\ reg'.edKey = reg.edKey
          /\ reg'.edStep = reg.edStep /\ reg'.app = reg.app /\ reg'.step = reg.step
      <4>1. CASE SignFails(n)
        BY <4>1 DEF SignFails, BaseInv, PagesShaped
      <4>2. CASE CardAgentRead(n)
        BY <4>2 DEF CardAgentRead, BaseInv, PagesShaped
      <4>3. CASE CardFails(n)
        BY <4>3 DEF CardFails, BaseInv, PagesShaped
      <4> QED
        BY <2>2, <4>1, <4>2, <4>3
    <3> QED
      BY <1>1, <1>3, <3>1 DEF BaseInv, RegOK, SuccessWasReal
  <2>3. CASE Ed25519Challenged(n)
    <3>1. reg.edKey \in EdKeys
      BY <2>3 DEF Ed25519Challenged, At, BaseInv, JobsOK, RegisterJobOK
    <3>2. /\ DOMAIN reg' = DOMAIN reg /\ reg'.wallet = reg.wallet /\ reg'.edKey = reg.edKey
          /\ reg'.app = reg.app /\ reg'.step = reg.step
      BY <2>3 DEF Ed25519Challenged, BaseInv, PagesShaped
    <3> QED
      BY <1>1, <1>3, <3>1, <3>2 DEF BaseInv, RegOK, SuccessWasReal
  <2>4. CASE PollAnswered(n)
    <3>1. /\ DOMAIN reg' = DOMAIN reg /\ reg'.wallet = reg.wallet /\ reg'.edKey = reg.edKey
          /\ reg'.app = reg.app /\ reg'.edStep = reg.edStep
          /\ reg'.step = reg.step \/ Registered(job[n].key)
      BY <2>4 DEF PollAnswered, HandleSuccess, BaseInv, PagesShaped
    <3>2. job[n].key \in made \cup EdKeys
      BY <2>4 DEF PollAnswered, At, BaseInv, JobsOK, RegisterJobOK
    <3>3. SuccessWasReal'
      BY <1>1, <3>1, <3>2 DEF BaseInv, SuccessWasReal, Registered, Alive
    <3> QED
      BY <1>1, <1>3, <3>1, <3>3 DEF BaseInv, RegOK
  <2> QED
    BY <2>1, <2>2, <2>3, <2>4
<1>7. JobsOK'
  BY <1>2, <1>5, <1>6, JobsStep DEF BaseInv
<1> QED
  BY <1>2, <1>5, <1>6, <1>7 DEF RegisterOK

\* The page is loaded anew, which ends its handlers.
LEMMA ReloadStep ==
  ASSUME BaseInv, UNCHANGED <<scene, chainVars, scans>>, SignIn \/ Reload
  PROVE  RegisterOK
<1>1. UNCHANGED <<made, vault, agents>>
  BY DEF SignIn, Reload, storeVars, chainVars
<1>2. /\ VaultOK' /\ KeysKept /\ made \subseteq made' /\ made' \subseteq scene.fresh
  BY <1>1, VaultStill DEF BaseInv, KeysOK
<1>3. \A qr : CodeOK(qr) => CodeOK(qr)'
  BY <1>2, CodesStay
<1>4. CASE UNCHANGED <<reg, job>>
  <2>1. JobsShaped' /\ JobsOK' /\ Moves(RegisterKinds)
    BY <1>2, <1>4, JobsStep, RestMoves DEF BaseInv
  <2> QED
    BY <1>1, <1>2, <1>3, <1>4, <2>1 DEF RegisterOK, BaseInv, RegOK, SuccessWasReal
<1>5. CASE /\ Abandon(RegHandlers)
           /\ reg' = [RegBlank EXCEPT !.redirected = resume, !.mode = IF resume THEN "privy" ELSE @]
  <2>1. /\ DOMAIN reg' = DOMAIN reg /\ reg'.wallet = None /\ reg'.edKey = None
        /\ reg'.app = None /\ reg'.step = "wizard" /\ reg'.edStep = "pubkey"
    BY <1>5 DEF RegBlank, BaseInv, PagesShaped
  <2>2. JobsShaped' /\ Moves(RegisterKinds)
    BY <1>5, AbandonMoves DEF BaseInv
  <2>3. /\ \A n \in Slots : \/ job'[n] = NoJob
                            \/ job'[n] = job[n] /\ job[n].kind \notin RegisterKinds
    BY <1>5 DEF Abandon, RegHandlers, RegisterKinds, At, BaseInv, JobsShaped
  <2>4. JobsOK'
    BY <2>3 DEF JobsOK, RegisterJobOK, RegisterKinds
  <2>5. RegOK'
    <3>1. reg'.app # None => CodeOK(reg.app)'
      BY <2>1
    <3> QED
      BY <2>1, <3>1 DEF RegOK
  <2> QED
    BY <1>2, <2>1, <2>2, <2>4, <2>5 DEF RegisterOK, SuccessWasReal
<1> QED
  BY <1>4, <1>5 DEF SignIn, Reload

\* Every handler of the page leaves it in order.
LEMMA RegisterKeeps ==
  ASSUME BaseInv, UNCHANGED <<scene, chainVars, scans>>, RegisterHandler
  PROVE  RegisterOK
<1>1. CASE \/ WizardComplete \/ BackToWizard \/ BackToConnect \/ PrivyStart
           \/ Ed25519SubmitSignature \/ SocketSuccess
  BY <1>1, WizardStep
<1>2. CASE SignIn \/ Reload
  BY <1>2, ReloadStep
<1>3. ASSUME NEW n \in Slots,
             \/ Connect(n) \/ WalletFreeStart(n) \/ SmartWalletStart(n) \/ CompletePrivy(n)
             \/ Ed25519ValidateKey(n) \/ PollRegistry(n) \/ SetCard(n)
      PROVE  RegisterOK
  BY <1>3, StartStep, KeyStep
<1>4. ASSUME NEW n \in Slots,
             \/ Connected(n) \/ PasskeyCreated(n) \/ ShowCode(n) \/ SignFails(n)
             \/ Ed25519Challenged(n) \/ PollAnswered(n) \/ CardAgentRead(n) \/ CardFails(n)
      PROVE  RegisterOK
  BY <1>4, EndStep, KeyStep DEF chainVars
<1> QED
  BY <1>1, <1>2, <1>3, <1>4 DEF RegisterHandler

\* No agent is new.
LEMMA NoNewAgents ==
  ASSUME \A b \in agents' : \E a \in agents : Kept(a, b)
  PROVE  NewAgentsOK
BY DEF NewAgentsOK

\* A code is scanned.
LEMMA ScanStep ==
  ASSUME NEW page, NEW qr, Scan(page, qr)
  PROVE  /\ UNCHANGED <<scene, agents, height, vault, job>>
         /\ \A s \in scans' : \/ s \in scans
                              \/ /\ DOMAIN s = {"page", "qr", "human", "landed"}
                                 /\ s.human \in Humans /\ s.page = page /\ s.qr = qr /\ ~ s.landed
BY DEF Scan

\* A step of the registration page.
LEMMA RegisterStep ==
  ASSUME BaseInv, RegisterNext, UNCHANGED <<pagesVars, demoVars>>
  PROVE  BaseInv' /\ ChainOK' /\ Grown /\ JobsShaped' /\ Moves(RegisterKinds)
<1>1. CASE Open("register") /\ RegisterHandler /\ UNCHANGED <<scene, chainVars, scans>>
  <2>1. RegisterOK
    BY <1>1, RegisterKeeps
  <2>2. ChainOK' /\ Grown /\ \A b \in agents' : \E a \in agents : Kept(a, b)
    BY <1>1, StillStep DEF chainVars, BaseInv, Kept
  <2>3. NewAgentsOK
    BY <2>2, NoNewAgents
  <2>4. PagesShaped' /\ VerOK'
    BY <2>1 DEF RegisterOK, PagesShaped, VerOK, BaseInv, pagesVars, demoVars
  <2>5. BaseInv'
    BY <1>1, <2>1, <2>2, <2>3, <2>4, BaseStep DEF RegisterOK
  <2> QED
    BY <2>1, <2>2, <2>5 DEF RegisterOK
<1>2. CASE (\E n \in Slots : CardWritten(n)) /\ UNCHANGED <<scene, scans>>
  <2>1. PICK n \in Slots : CardWritten(n)
    BY <1>2
  <2>2. PICK a \in Alive : agents' = (agents \ {a}) \cup {[a EXCEPT !.card = TRUE]}
    BY <2>1 DEF CardWritten
  <2>3. UNCHANGED height /\ a \in agents
    BY <2>1 DEF CardWritten, Alive
  <2>4. ChainOK' /\ Grown
    BY <2>2, <2>3, CardStep DEF BaseInv
  <2>5. \A b \in agents' : \E c \in agents : Kept(c, b)
    BY <2>2, <2>3 DEF Kept, BaseInv, ChainOK, AgentSet
  <2>6. NewAgentsOK
    BY <2>5, NoNewAgents
  <2>7. UNCHANGED <<made, vault>> /\ Done(n)
    BY <2>1 DEF CardWritten, storeVars
  <2>8. VaultOK' /\ KeysKept /\ JobsShaped' /\ Moves(RegisterKinds)
    BY <2>7, VaultStill, DoneMoves DEF BaseInv
  <2>9. /\ DOMAIN reg' = DOMAIN reg /\ reg'.wallet = reg.wallet /\ reg'.edKey = reg.edKey
        /\ reg'.edStep = reg.edStep /\ reg'.app = reg.app /\ reg'.step = reg.step
    BY <2>1 DEF CardWritten, BaseInv, PagesShaped
  <2>10. \A m \in Slots : job'[m] = job[m] \/ job'[m] = NoJob
    BY <2>7 DEF Done, BaseInv, JobsShaped
  <2>11. JobsOK'
    BY <2>7, <2>8, <2>9, <2>10, JobsStep DEF BaseInv
  <2>12. \A qr : CodeOK(qr) => CodeOK(qr)'
    BY <2>7, <2>8, CodesStay
  <2>13. RegOK' /\ PagesShaped' /\ VerOK'
    BY <2>7, <2>9, <2>12 DEF BaseInv, RegOK, PagesShaped, VerOK, pagesVars, demoVars
  <2>14. SuccessWasReal'
    BY <2>4, <2>7, <2>9, AgentsStay DEF BaseInv, SuccessWasReal
  <2>15. BaseInv'
    BY <1>2, <2>4, <2>6, <2>7, <2>8, <2>11, <2>13, <2>14, BaseStep DEF BaseInv, KeysOK
  <2> QED
    BY <2>4, <2>8, <2>15
<1>3. CASE reg.step = "scan" /\ reg.app # None /\ Scan("register", reg.app) /\ UNCHANGED regVars
  <2>1. /\ UNCHANGED <<scene, agents, height, vault, job>>
        /\ \A s \in scans' : \/ s \in scans
                             \/ /\ DOMAIN s = {"page", "qr", "human", "landed"}
                                /\ s.human \in Humans /\ s.page = "register"
                                /\ s.qr = reg.app /\ ~ s.landed
    BY <1>3, ScanStep
  <2>2. ChainOK' /\ Grown /\ \A b \in agents' : \E a \in agents : Kept(a, b)
    BY <2>1, StillStep DEF BaseInv, Kept
  <2>3. NewAgentsOK
    BY <2>2, NoNewAgents
  <2>4. UNCHANGED <<reg, made>>
    BY <1>3 DEF regVars
  <2>5. VaultOK' /\ KeysKept /\ JobsShaped' /\ Moves(RegisterKinds)
    BY <2>1, VaultStill, RestMoves DEF BaseInv
  <2>6. JobsOK'
    BY <2>1, <2>4, <2>5, JobsStep DEF BaseInv
  <2>7. \A qr : CodeOK(qr) => CodeOK(qr)'
    BY <2>4, <2>5, CodesStay
  <2>8. RegOK' /\ PagesShaped' /\ VerOK'
    BY <2>4, <2>7 DEF BaseInv, RegOK, PagesShaped, VerOK, pagesVars, demoVars
  <2>9. SuccessWasReal'
    BY <2>1, <2>4 DEF BaseInv, SuccessWasReal
  <2>10. \A s \in scans' : s \in scans \/ ScanOK(s)'
    BY <1>3, <2>1, <2>7 DEF ScanOK, BaseInv, RegOK
  <2>11. BaseInv'
    BY <2>1, <2>2, <2>3, <2>4, <2>5, <2>6, <2>8, <2>9, <2>10, BaseStep DEF BaseInv, KeysOK
  <2> QED
    BY <2>2, <2>5, <2>11
<1> QED
  BY <1>1, <1>2, <1>3 DEF RegisterNext

\* A step of the registry or of other people that mints or burns in order.
LEMMA ChainKeeps ==
  ASSUME BaseInv, UNCHANGED <<scene, vault, job, regVars, pagesVars, demo>>,
         ChainOK', Grown, NewAgentsOK, \A s \in scans' : s \in scans \/ ScanOK(s)'
  PROVE  BaseInv'
<1>1. UNCHANGED <<reg, made, ver, mine>>
  BY DEF regVars, pagesVars
<1>2. VaultOK' /\ KeysKept /\ JobsShaped'
  BY VaultStill, RestMoves DEF BaseInv
<1>3. JobsOK'
  BY <1>1, <1>2, JobsStep DEF BaseInv
<1>4. \A qr : CodeOK(qr) => CodeOK(qr)'
  BY <1>1, <1>2, CodesStay
<1>5. RegOK' /\ PagesShaped' /\ VerOK'
  BY <1>1, <1>4 DEF BaseInv, RegOK, PagesShaped, VerOK
<1>6. SuccessWasReal'
  BY <1>1, AgentsStay DEF BaseInv, SuccessWasReal
<1> QED
  BY <1>1, <1>2, <1>3, <1>5, <1>6, BaseStep DEF BaseInv, KeysOK

\* Burning brings no new agent.
LEMMA BurnOld ==
  ASSUME ChainOK, NEW id, Burn(id)
  PROVE  \A b \in agents' : \E a \in agents : a.key = b.key /\ a.via = b.via
BY DEF Burn, ChainOK, AgentSet

\* Nor does it change a key or a way of registration.
LEMMA BurnAgents ==
  ASSUME BaseInv, NEW a \in Alive, Burn(a.id), UNCHANGED <<scene, made>>
  PROVE  ChainOK' /\ Grown /\ NewAgentsOK
<1>1. ChainOK' /\ Grown
  BY BurnStep DEF BaseInv
<1>2. NewAgentsOK
  BY BurnOld DEF NewAgentsOK, BaseInv, KeysOK, RegisteredKeyKept
<1> QED
  BY <1>1, <1>2

\* A proof reaches the registry.
LEMMA LandStep ==
  ASSUME BaseInv, UNCHANGED <<scene, vault, made>>, NEW s \in scans, ~ s.landed, Land(s)
  PROVE  ChainOK' /\ Grown /\ NewAgentsOK /\ \A t \in scans' : t \in scans \/ ScanOK(t)'
<1> DEFINE t == [s EXCEPT !.landed = TRUE]
<1>1. /\ ScanOK(s) /\ t.page = s.page /\ t.qr = s.qr /\ t.human = s.human
      /\ DOMAIN t = {"page", "qr", "human", "landed"}
  BY DEF BaseInv, ScanOK
<1>2. scans' = (scans \ {s}) \cup {t}
  BY DEF Land
<1> HIDE DEF t
<1>3. KeysKept /\ made \subseteq made'
  BY VaultStill DEF BaseInv
<1>4. \A qr : CodeOK(qr) => CodeOK(qr)'
  BY <1>3, CodesStay
<1>5. CASE /\ Registers(s.qr)
           /\ Mint(s.qr.key, s.qr.user, s.qr.guardian, s.human, s.qr.mode)
  <2>1. s.page = "register"
    BY <1>1, <1>5 DEF ScanOK, Registers
  <2>2. CodeOK(s.qr) /\ s.human \in Humans
    BY <1>1, <2>1 DEF ScanOK
  <2>3. /\ s.qr.key \in AgentKeys /\ s.qr.key \notin scene.fresh \ made
    BY <2>2, BrowserAssumption DEF CodeOK, BaseInv, KeysOK, SceneOK, AgentKeys
  <2>4. /\ ~ Registered(s.qr.key) /\ s.qr.user \in Addresses
        /\ s.qr.guardian \in SmartWallets \cup {None} /\ s.qr.mode \in Ways
        /\ s.qr.mode \in {"smartwallet", "privy"} => HasPrivateKey(s.qr.key)
    BY <1>5, <2>2 DEF Registers, CodeOK
  <2>5. /\ ChainOK' /\ Grown
        /\ \E new \in agents' : /\ agents' = agents \cup {new}
                                /\ new.key = s.qr.key /\ new.via = s.qr.mode
    BY <1>5, <2>2, <2>3, <2>4, MintStep DEF BaseInv
  <2>6. PICK new \in agents' : /\ agents' = agents \cup {new}
                               /\ new.key = s.qr.key /\ new.via = s.qr.mode
    BY <2>5
  <2>7. NewAgentsOK
    <3>1. \A a \in agents : Kept(a, a)
      BY DEF Kept
    <3>2. /\ new.key \notin scene.fresh \ made
          /\ new.via \in {"smartwallet", "privy"} => HasPrivateKey(new.key)
      BY <2>3, <2>4, <2>6 DEF HasPrivateKey
    <3> QED
      BY <2>6, <3>1, <3>2 DEF NewAgentsOK
  <2>8. ScanOK(t)'
    BY <1>1, <1>4, <2>1, <2>2, <2>6 DEF ScanOK
  <2> QED
    BY <1>2, <2>5, <2>7, <2>8
<1>6. CASE Deregisters(s.qr, s.human) /\ Burn(AgentOf(Target(s.qr)).id)
  <2>1. \E a \in Alive : a.key = Target(s.qr)
    BY <1>6 DEF Deregisters
  <2>2. AgentOf(Target(s.qr)) \in Alive
    BY <2>1 DEF AgentOf
  <2>3. PICK a \in Alive : a = AgentOf(Target(s.qr))
    BY <2>2
  <2>4. Burn(a.id)
    BY <1>6, <2>3
  <2>5. ChainOK' /\ Grown /\ NewAgentsOK
    BY <2>4, BurnAgents
  <2>6. s.page # "register" /\ s.qr.action \in {"D", "X"}
    BY <1>1, <1>6 DEF ScanOK, CodeOK, Deregisters
  <2>7. ScanOK(t)'
    BY <1>1, <2>6 DEF ScanOK
  <2> QED
    BY <1>2, <2>5, <2>7
<1> QED
  BY <1>5, <1>6 DEF Land

\* A proof arrives, or other people register and deregister.
LEMMA WorldStep ==
  ASSUME BaseInv, ProofArrives \/ OthersRegister \/ OthersDeregister,
         UNCHANGED <<regVars, pagesVars, demoVars>>
  PROVE  BaseInv' /\ ChainOK' /\ Grown /\ UNCHANGED <<scene, vault, job, passkey>>
<1>1. UNCHANGED <<scene, vault, job, passkey>> /\ UNCHANGED made
  BY DEF ProofArrives, OthersRegister, OthersDeregister, regVars
<1>2. SUFFICES /\ ChainOK' /\ Grown /\ NewAgentsOK
               /\ \A s \in scans' : s \in scans \/ ScanOK(s)'
  BY <1>1, ChainKeeps DEF demoVars
<1>3. CASE ProofArrives
  <2>1. PICK s \in scans : ~ s.landed /\ (Land(s) \/ Refuse(s))
    BY <1>3 DEF ProofArrives
  <2>2. CASE Land(s)
    BY <1>1, <2>1, <2>2, LandStep
  <2>3. CASE Refuse(s)
    <3>1. UNCHANGED <<agents, height>> /\ scans' \subseteq scans
      BY <2>3 DEF Refuse, chainVars
    <3>2. ChainOK' /\ Grown /\ \A b \in agents' : \E a \in agents : Kept(a, b)
      BY <3>1, StillStep DEF BaseInv, Kept
    <3> QED
      BY <3>1, <3>2, NoNewAgents
  <2> QED
    BY <2>1, <2>2, <2>3
<1>4. CASE OthersRegister
  <2>0. PICK k \in scene.strangers, h \in Humans, g \in scene.guardians :
          /\ ~ Registered(k)
          /\ \E o \in scene.owners \cup {k} : Mint(k, o, g, h, "other")
    BY <1>4 DEF OthersRegister
  <2>1. PICK o \in scene.owners \cup {k} : Mint(k, o, g, h, "other")
    BY <2>0
  <2>2. /\ k \in AgentKeys /\ o \in Addresses /\ g \in SmartWallets \cup {None} /\ "other" \in Ways
        /\ k \notin scene.fresh
    BY DEF BaseInv, SceneOK, Addresses, Ways
  <2>3. /\ ChainOK' /\ Grown
        /\ \E new \in agents' : agents' = agents \cup {new} /\ new.key = k /\ new.via = "other"
    BY <2>0, <2>1, <2>2, MintStep DEF BaseInv
  <2>4. NewAgentsOK
    BY <2>2, <2>3 DEF NewAgentsOK, Kept
  <2> QED
    BY <1>4, <2>3, <2>4 DEF OthersRegister
<1>5. CASE OthersDeregister
  <2>1. PICK a \in Alive : Burn(a.id)
    BY <1>5 DEF OthersDeregister
  <2> QED
    BY <1>1, <1>5, <2>1, BurnAgents DEF OthersDeregister
<1> QED
  BY <1>3, <1>4, <1>5

-----------------------------------------------------------------------------
(* "My Agents" and "Verify": whose handlers they are, and what they leave.  *)

LoadFields == {"kind", "by", "arg", "at", "since", "latest", "todo", "found", "verified", "failed",
               "all", "then"}

\* What a handler of "My Agents" leaves in order.
MineOK == JobsShaped' /\ Moves(MineKinds) /\ DOMAIN mine' = DOMAIN mine

\* The lists of the page are as they were, or empty.
Empties(page) ==
  /\ DOMAIN page = DOMAIN mine
  /\ page.list \in {mine.list, NoList} /\ page.siblings \in {mine.siblings, NoList}

\* A lookup that the page starts: what it asks for, and its first read.
Begins(by, arg, first) ==
  \/ by = "owner" /\ first = "simple"
  \/ by = "guardian" /\ first = "latest"
  \/ by = "human" /\ first = "ids"
  \/ by = "key" /\ first = "id"
  \/ by = "siblings" /\ first = "nullifier" /\ \E e \in mine.list.shown : e.id = arg

\* What a handler does that is no lookup under way: it may empty the lists
\* and start a lookup.
MineQuiet ==
  /\ MineOK /\ Empties(mine')
  /\ \A n \in Slots : \/ job'[n] = job[n] \/ job'[n] = NoJob \/ job'[n].kind # "load"
                      \/ \E by, arg, first, then : /\ Begins(by, arg, first)
                                                  /\ job'[n] = Lookup(by, arg, first, then)

\* A lookup at its first read.
LEMMA LookupFields ==
  ASSUME NEW by, NEW arg, NEW first, NEW then
  PROVE  /\ Shaped(Lookup(by, arg, first, then))
         /\ Lookup(by, arg, first, then).kind = "load"
BY DEF Lookup, Shaped

\* A lookup is started.
LEMMA LookupStarts ==
  ASSUME JobsShaped, NEW n \in Slots, NEW by, NEW arg, NEW first, NEW then,
         Begins(by, arg, first), Run(n, Lookup(by, arg, first, then)), Empties(mine')
  PROVE  MineQuiet
<1> DEFINE rest == Lookup(by, arg, first, then)
<1>1. Shaped(rest) /\ rest.kind \in MineKinds /\ Run(n, rest)
  BY LookupFields DEF MineKinds
<1>2. job'[n] = rest /\ \A m \in Slots : m # n => job'[m] = job[m]
  BY <1>1, RunStep
<1>3. \E by1, arg1, first1, then1 : Begins(by1, arg1, first1) /\ rest = Lookup(by1, arg1, first1, then1)
  OBVIOUS
<1> HIDE DEF rest
<1>4. MineOK
  BY <1>1, RunMoves DEF MineOK, Empties
<1> QED
  BY <1>2, <1>3, <1>4 DEF MineQuiet

\* In one of the three ways of the page.
LEMMA OwnerStarts ==
  ASSUME JobsShaped, NEW n \in Slots, NEW page, NEW owner, NEW then,
         LoadAgentsByOwner(n, page, owner, then), Empties(page)
  PROVE  MineQuiet
<1>1. Begins("owner", owner, "simple")
  BY DEF Begins
<1> QED
  BY <1>1, LookupStarts DEF LoadAgentsByOwner

\* The same of a guardian.
LEMMA GuardianStarts ==
  ASSUME JobsShaped, NEW n \in Slots, NEW page, NEW guardian, NEW then,
         LoadAgentsByGuardian(n, page, guardian, then), Empties(page)
  PROVE  MineQuiet
<1>1. Begins("guardian", guardian, "latest")
  BY DEF Begins
<1> QED
  BY <1>1, LookupStarts DEF LoadAgentsByGuardian

\* The same of a human.
LEMMA HumanStarts ==
  ASSUME JobsShaped, NEW n \in Slots, NEW page, NEW human,
         LoadAgentsByNullifier(n, page, human), Empties(page)
  PROVE  MineQuiet
<1>1. Begins("human", human, "ids")
  BY DEF Begins
<1> QED
  BY <1>1, LookupStarts DEF LoadAgentsByNullifier

\* A handler of the page goes on.
LEMMA MineRuns ==
  ASSUME JobsShaped, NEW n \in Slots, NEW rest, Run(n, rest), Shaped(rest), rest.kind \in MineKinds,
         rest.kind # "load", Empties(mine')
  PROVE  MineQuiet
<1>1. job'[n] = rest /\ \A m \in Slots : m # n => job'[m] = job[m]
  BY RunStep
<1>2. MineOK
  BY RunMoves DEF MineOK, Empties
<1> QED
  BY <1>1, <1>2 DEF MineQuiet

\* A handler of the page ends.
LEMMA MineEnds ==
  ASSUME JobsShaped, NEW n \in Slots, Done(n), Empties(mine')
  PROVE  MineQuiet
<1>1. \A m \in Slots : job'[m] = job[m] \/ job'[m] = NoJob
  BY DEF Done, JobsShaped
<1>2. MineOK
  BY DoneMoves DEF MineOK, Empties
<1> QED
  BY <1>1, <1>2 DEF MineQuiet

\* No handler moves, or the page is left.
LEMMA MineRests ==
  ASSUME JobsShaped, UNCHANGED job \/ (\E handlers : Abandon(handlers)), Empties(mine')
  PROVE  MineQuiet
<1>1. \A n \in Slots : job'[n] = job[n] \/ job'[n] = NoJob
  BY DEF Abandon
<1>2. MineOK
  BY RestMoves, AbandonMoves DEF MineOK, Empties
<1> QED
  BY <1>1, <1>2 DEF MineQuiet

\* A lookup gives up.
LEMMA GiveUpEnds ==
  ASSUME JobsShaped, PagesShaped, NEW n \in Slots, NEW j, GiveUp(n, j)
  PROVE  MineOK
<1>1. DOMAIN mine' = DOMAIN mine
  BY DEF GiveUp, Cleared, PagesShaped
<1> QED
  BY <1>1, DoneMoves DEF GiveUp, MineOK

\* A lookup shows its result.
LEMMA ShowResultEnds ==
  ASSUME JobsShaped, PagesShaped, NEW n \in Slots, NEW j, ShowResult(n, j)
  PROVE  MineOK
<1>1. DOMAIN mine' = DOMAIN mine
  BY DEF ShowResult, Cleared, PagesShaped
<1> QED
  BY <1>1, DoneMoves DEF ShowResult, MineOK

\* A lookup goes on, to another read.
LEMMA LookupRuns ==
  ASSUME JobsShaped, NEW n \in Slots, NEW j, DOMAIN j = LoadFields, j.kind = "load",
         Run(n, j), UNCHANGED mine
  PROVE  MineOK
<1>1. Shaped(j) /\ j.kind \in MineKinds
  BY DEF Shaped, LoadFields, MineKinds
<1> QED
  BY <1>1, RunMoves DEF MineOK

\* To the next agent, the next stage, or the end.
LEMMA ProceedGoes ==
  ASSUME JobsShaped, PagesShaped, NEW n \in Slots, NEW j, DOMAIN j = LoadFields, j.kind = "load",
         Proceed(n, j)
  PROVE  MineOK
<1>1. CASE Run(n, [j EXCEPT !.at = "check"]) /\ UNCHANGED mine
  <2>1. /\ DOMAIN [j EXCEPT !.at = "check"] = LoadFields
        /\ [j EXCEPT !.at = "check"].kind = "load"
    BY DEF LoadFields
  <2> QED
    BY <1>1, <2>1, LookupRuns
<1>2. CASE Run(n, [j EXCEPT !.at = "balance"]) /\ UNCHANGED mine
  <2>1. /\ DOMAIN [j EXCEPT !.at = "balance"] = LoadFields
        /\ [j EXCEPT !.at = "balance"].kind = "load"
    BY DEF LoadFields
  <2> QED
    BY <1>2, <2>1, LookupRuns
<1>3. CASE ShowResult(n, j)
  BY <1>3, ShowResultEnds
<1> QED
  BY <1>1, <1>2, <1>3 DEF Proceed

\* Every read of a lookup.
LEMMA LookupMoves ==
  ASSUME JobsShaped, PagesShaped, NEW n \in Slots, LookupGoesOn(n) \/ ReadKeysAgent(n)
  PROVE  MineOK
<1> DEFINE j == job[n]
<1>1. /\ DOMAIN j = LoadFields /\ j.kind = "load"
  BY DEF LookupGoesOn, ReadKeysAgent, ReadSimple, ReadBalance, ReadLatestBlock, ReadEvents,
         ReadNullifier, ReadIds, Check, BuildVerified, BuildRest, BuildFails, At,
         JobsShaped, Shaped, LoadFields
<1> HIDE DEF j
<1>2. ASSUME NEW k, DOMAIN k = LoadFields, k.kind = "load",
             (Run(n, k) /\ UNCHANGED mine) \/ Proceed(n, k)
      PROVE  MineOK
  BY <1>2, LookupRuns, ProceedGoes
<1>3. ASSUME GiveUp(n, j) \/ ShowResult(n, j)
      PROVE  MineOK
  BY <1>3, GiveUpEnds, ShowResultEnds
<1>4. CASE ReadSimple(n)
  <2> DEFINE k == [j EXCEPT !.todo = {a.id : a \in {b \in Alive : b.key = j.arg}}]
  <2>1. Proceed(n, k) \/ GiveUp(n, j)
    BY <1>4 DEF ReadSimple, j
  <2>2. DOMAIN k = LoadFields /\ k.kind = "load"
    BY <1>1 DEF LoadFields
  <2> HIDE DEF k
  <2> QED
    BY <1>2, <1>3, <2>1, <2>2
<1>5. CASE ReadBalance(n)
  <2> DEFINE k == [j EXCEPT !.at = "latest"]
  <2>1. (Run(n, k) /\ UNCHANGED mine) \/ GiveUp(n, j) \/ ShowResult(n, j)
    BY <1>5 DEF ReadBalance, j
  <2>2. DOMAIN k = LoadFields /\ k.kind = "load"
    BY <1>1 DEF LoadFields
  <2> HIDE DEF k
  <2> QED
    BY <1>2, <1>3, <2>1, <2>2
<1>6. CASE ReadLatestBlock(n)
  <2> DEFINE k == [j EXCEPT !.at = "events", !.latest = height]
  <2>1. (Run(n, k) /\ UNCHANGED mine) \/ GiveUp(n, j)
    BY <1>6 DEF ReadLatestBlock, j
  <2>2. DOMAIN k = LoadFields /\ k.kind = "load"
    BY <1>1 DEF LoadFields
  <2> HIDE DEF k
  <2> QED
    BY <1>2, <1>3, <2>1, <2>2
<1>7. CASE ReadEvents(n)
  <2> DEFINE k == [j EXCEPT !.all = TRUE,
                            !.todo = {a.id : a \in MintEvents(j)} \ {e.id : e \in j.found}]
  <2>1. Proceed(n, k) \/ GiveUp(n, j)
    BY <1>7 DEF ReadEvents, j
  <2>2. DOMAIN k = LoadFields /\ k.kind = "load"
    BY <1>1 DEF LoadFields
  <2> HIDE DEF k
  <2> QED
    BY <1>2, <1>3, <2>1, <2>2
<1>8. CASE ReadNullifier(n)
  <2> DEFINE k == [j EXCEPT !.at = "ids"]
  <2>1. (Run(n, k) /\ UNCHANGED mine) \/ GiveUp(n, j)
    BY <1>8 DEF ReadNullifier, j
  <2>2. DOMAIN k = LoadFields /\ k.kind = "load"
    BY <1>1 DEF LoadFields
  <2> HIDE DEF k
  <2> QED
    BY <1>2, <1>3, <2>1, <2>2
<1>9. CASE ReadIds(n)
  <2>1. (\E others : Proceed(n, [j EXCEPT !.todo = others])) \/ GiveUp(n, j)
    BY <1>9 DEF ReadIds, j
  <2>2. ASSUME NEW others, Proceed(n, [j EXCEPT !.todo = others])
        PROVE  MineOK
    <3> DEFINE k == [j EXCEPT !.todo = others]
    <3>1. Proceed(n, k) /\ DOMAIN k = LoadFields /\ k.kind = "load"
      BY <1>1, <2>2 DEF LoadFields
    <3> HIDE DEF k
    <3> QED
      BY <1>2, <3>1
  <2> QED
    BY <1>3, <2>1, <2>2
<1>10. CASE Check(n)
  <2> DEFINE k == [j EXCEPT !.at = "build"]
             l == [j EXCEPT !.todo = @ \ {NextId(j)}]
             m == [j EXCEPT !.todo = @ \ {NextId(j)}, !.failed = TRUE]
  <2>1. (Run(n, k) /\ UNCHANGED mine) \/ Proceed(n, l) \/ Proceed(n, m) \/ GiveUp(n, j)
    BY <1>10 DEF Check, j
  <2>2. /\ DOMAIN k = LoadFields /\ k.kind = "load"
        /\ DOMAIN l = LoadFields /\ l.kind = "load"
        /\ DOMAIN m = LoadFields /\ m.kind = "load"
    BY <1>1 DEF LoadFields
  <2> HIDE DEF k, l, m
  <2> QED
    BY <1>2, <1>3, <2>1, <2>2
<1>11. CASE BuildVerified(n)
  <2> DEFINE k == [j EXCEPT !.at = "rest", !.verified = IsAlive(NextId(j))]
  <2>1. Run(n, k) /\ UNCHANGED mine
    BY <1>11 DEF BuildVerified, j
  <2>2. DOMAIN k = LoadFields /\ k.kind = "load"
    BY <1>1 DEF LoadFields
  <2> HIDE DEF k
  <2> QED
    BY <1>2, <2>1, <2>2
<1>12. CASE BuildRest(n)
  <2> DEFINE rest == [j EXCEPT !.todo = @ \ {NextId(j)}, !.verified = FALSE]
             with(readable) == j.found \cup {Entry(j, AgentById(NextId(j)), readable)}
             k == [rest EXCEPT !.found = with(TRUE)]
             l == [rest EXCEPT !.found = with(FALSE), !.failed = TRUE]
  <2>1. Proceed(n, k) \/ Proceed(n, l)
    BY <1>12 DEF BuildRest, j
  <2>2. DOMAIN rest = LoadFields /\ rest.kind = "load"
    BY <1>1 DEF LoadFields
  <2> HIDE DEF rest
  <2>3. /\ DOMAIN k = LoadFields /\ k.kind = "load"
        /\ DOMAIN l = LoadFields /\ l.kind = "load"
    BY <2>2 DEF LoadFields
  <2> HIDE DEF k, l
  <2> QED
    BY <1>2, <2>1, <2>3
<1>13. CASE BuildFails(n)
  <2> DEFINE k == [j EXCEPT !.todo = @ \ {NextId(j)}, !.failed = TRUE]
  <2>1. Proceed(n, k) \/ GiveUp(n, j)
    BY <1>13 DEF BuildFails, j
  <2>2. DOMAIN k = LoadFields /\ k.kind = "load"
    BY <1>1 DEF LoadFields
  <2> HIDE DEF k
  <2> QED
    BY <1>2, <1>3, <2>1, <2>2
<1>14. CASE ReadKeysAgent(n)
  <2> DEFINE k == [j EXCEPT !.at = "check", !.todo = {AgentOf(j.arg).id}]
  <2>1. (Run(n, k) /\ UNCHANGED mine) \/ GiveUp(n, j)
    BY <1>14 DEF ReadKeysAgent, j
  <2>2. DOMAIN k = LoadFields /\ k.kind = "load"
    BY <1>1 DEF LoadFields
  <2> HIDE DEF k
  <2> QED
    BY <1>2, <1>3, <2>1, <2>2
<1> QED
  BY <1>4, <1>5, <1>6, <1>7, <1>8, <1>9, <1>10, <1>11, <1>12, <1>13, <1>14 DEF LookupGoesOn

\* A read of a lookup.
LookupStep(n) == ReadKeysAgent(n) \/ LookupGoesOn(n)

\* The other handlers of "My Agents" that look something up.
LEMMA MineLookupMoves ==
  ASSUME JobsShaped, PagesShaped, MineLookup
  PROVE  MineQuiet \/ \E n \in Slots : LookupStep(n)
<1> USE DEF MineKinds
<1>1. ASSUME NEW n \in Slots, HandleConnect(n)
      PROVE  MineQuiet
  <2> DEFINE k == [kind |-> "wallet"]
  <2>1. Run(n, k) /\ Empties(mine') /\ Shaped(k) /\ k.kind \in MineKinds /\ k.kind # "load"
    BY <1>1 DEF HandleConnect, Empties, Shaped
  <2> QED
    BY <2>1, MineRuns
<1>2. ASSUME NEW n \in Slots, LoadAgain(n)
      PROVE  MineQuiet
  <2>1. Empties(Emptied)
    BY DEF Emptied, Empties, PagesShaped
  <2> QED
    BY <1>2, <2>1, OwnerStarts, GuardianStarts DEF LoadAgain
<1>3. ASSUME NEW n \in Slots, HandleKeyLookup(n)
      PROVE  MineQuiet
  <2>1. Empties(mine') /\ \E k : Run(n, Lookup("key", k, "id", "nothing"))
    BY <1>3 DEF HandleKeyLookup, Emptied, Empties, PagesShaped
  <2>2. \A k : Begins("key", k, "id")
    BY DEF Begins
  <2> QED
    BY <2>1, <2>2, LookupStarts
<1>4. ASSUME NEW n \in Slots, HandlePasskeySignIn(n)
      PROVE  MineQuiet
  <2> DEFINE k == [kind |-> "signin"]
  <2>1. Run(n, k) /\ Empties(mine') /\ Shaped(k) /\ k.kind \in MineKinds /\ k.kind # "load"
    BY <1>4 DEF HandlePasskeySignIn, Emptied, Empties, PagesShaped, Shaped
  <2> QED
    BY <2>1, MineRuns
<1>5. ASSUME NEW n \in Slots, HandlePasskeyRevoke(n)
      PROVE  MineQuiet
  <2>1. PICK e \in mine.list.shown :
          /\ mine' = [mine EXCEPT !.revoking = e.id]
          /\ Run(n, [kind |-> "userOp", page |-> "mine", id |-> e.id, reload |-> mine.smart,
                     sent |-> FALSE])
    BY <1>5 DEF HandlePasskeyRevoke
  <2> DEFINE k == [kind |-> "userOp", page |-> "mine", id |-> e.id, reload |-> mine.smart,
                   sent |-> FALSE]
  <2>2. Run(n, k) /\ Empties(mine') /\ Shaped(k) /\ k.kind \in MineKinds /\ k.kind # "load"
    BY <2>1 DEF Empties, PagesShaped, Shaped
  <2> QED
    BY <2>2, MineRuns
<1>6. ASSUME NEW n \in Slots, HandleMintCard(n)
      PROVE  MineQuiet
  <2>1. PICK e \in mine.list.shown :
          /\ mine' = [mine EXCEPT !.minting = e.id]
          /\ Run(n, [kind |-> "mint", id |-> e.id, owner |-> OwnerToReload, written |-> FALSE])
    BY <1>6 DEF HandleMintCard
  <2> DEFINE k == [kind |-> "mint", id |-> e.id, owner |-> OwnerToReload, written |-> FALSE]
  <2>2. Run(n, k) /\ Empties(mine') /\ Shaped(k) /\ k.kind \in MineKinds /\ k.kind # "load"
    BY <2>1 DEF Empties, PagesShaped, Shaped
  <2> QED
    BY <2>2, MineRuns
<1>7. ASSUME NEW n \in Slots, HandleShowSiblings(n)
      PROVE  MineQuiet
  <2>1. PICK e \in mine.list.shown :
          /\ mine' = [mine EXCEPT !.siblingsLoading = TRUE, !.siblings = NoList,
                                  !.siblingsOf = e.id]
          /\ Run(n, Lookup("siblings", e.id, "nullifier", "nothing"))
    BY <1>7 DEF HandleShowSiblings
  <2>2. Empties(mine') /\ Begins("siblings", e.id, "nullifier")
    BY <2>1 DEF Empties, Begins, PagesShaped
  <2> QED
    BY <2>1, <2>2, LookupStarts
<1>8. ASSUME NEW n \in Slots, WalletAnswers(n)
      PROVE  MineQuiet
  <2>1. \A w : Empties([Emptied EXCEPT !.wallet = w])
    BY DEF Emptied, Empties, PagesShaped
  <2>2. ASSUME UNCHANGED mine
        PROVE  Empties(mine')
    BY <2>2 DEF Empties
  <2> QED
    BY <1>8, <2>1, <2>2, OwnerStarts, MineEnds DEF WalletAnswers
<1>9. ASSUME NEW n \in Slots, PasskeyAnswers(n)
      PROVE  MineQuiet
  <2>1. \A s : Empties([Emptied EXCEPT !.smart = s])
    BY DEF Emptied, Empties, PagesShaped
  <2>2. Empties([mine EXCEPT !.loading = FALSE])
    BY DEF Empties, PagesShaped
  <2> QED
    BY <1>9, <2>1, <2>2, GuardianStarts, MineEnds DEF PasskeyAnswers
<1>10. ASSUME NEW n \in Slots, RevocationFails(n) \/ RevocationDone(n) \/ MintEnds(n)
      PROVE  MineQuiet
  <2>1. /\ Empties(Emptied)
        /\ Empties([mine EXCEPT !.revoking = 0])
        /\ Empties([mine EXCEPT !.minting = 0])
    BY DEF Emptied, Empties, PagesShaped
  <2> QED
    BY <1>10, <2>1, OwnerStarts, GuardianStarts, MineEnds DEF RevocationFails, RevocationDone, MintEnds
<1> QED
  BY <1>1, <1>2, <1>3, <1>4, <1>5, <1>6, <1>7, <1>8, <1>9, <1>10 DEF MineLookup, LookupStep

\* Its pollers and tabs.
LEMMA MineHandlerMoves ==
  ASSUME JobsShaped, PagesShaped, MineHandler
  PROVE  MineQuiet
<1> USE DEF MineKinds
<1>1. ASSUME NEW n \in Slots, HandleStartIdentify(n) \/ HandleRefreshProof(n)
      PROVE  MineQuiet
  <2>1. PICK what, owner, guardian :
          Run(n, [kind |-> "ask", what |-> what, owner |-> owner, guardian |-> guardian])
    BY <1>1 DEF HandleStartIdentify, HandleRefreshProof
  <2> DEFINE k == [kind |-> "ask", what |-> what, owner |-> owner, guardian |-> guardian]
  <2>2. Run(n, k) /\ Empties(mine') /\ Shaped(k) /\ k.kind \in MineKinds /\ k.kind # "load"
    BY <1>1, <2>1 DEF HandleStartIdentify, HandleRefreshProof, Emptied, Empties, PagesShaped, Shaped
  <2> QED
    BY <2>2, MineRuns
<1>2. ASSUME NEW n \in Slots, Poll(n)
      PROVE  MineQuiet
  <2>1. PICK p \in polls : Run(n, [kind |-> "status", poll |-> p])
    BY <1>2 DEF Poll
  <2> DEFINE k == [kind |-> "status", poll |-> p]
  <2>2. Run(n, k) /\ Empties(mine') /\ Shaped(k) /\ k.kind \in MineKinds /\ k.kind # "load"
    BY <1>2, <2>1 DEF Poll, Empties, Shaped
  <2> QED
    BY <2>2, MineRuns
<1>3. ASSUME NEW n \in Slots, ChooseTab(n)
      PROVE  MineQuiet
  <2>1. PICK t \in Tabs \cap scene.tabs :
          LET page == [mine EXCEPT !.tab = t, !.list = NoList,
                             !.smart = IF t = "passkey" THEN None ELSE @,
                             !.identifyPoll = IF t = "passport" THEN 0 ELSE @]
          IN \/ \E v : LoadAgentsByOwner(n, [page EXCEPT !.social = v, !.loading = TRUE], v, "nothing")
             \/ mine' = page /\ UNCHANGED job
    BY <1>3 DEF ChooseTab
  <2> DEFINE page == [mine EXCEPT !.tab = t, !.list = NoList,
                             !.smart = IF t = "passkey" THEN None ELSE @,
                             !.identifyPoll = IF t = "passport" THEN 0 ELSE @]
  <2>2. Empties(page)
    BY DEF Empties, PagesShaped
  <2>3. \/ \E v : LoadAgentsByOwner(n, [page EXCEPT !.social = v, !.loading = TRUE], v, "nothing")
        \/ mine' = page /\ UNCHANGED job
    BY <2>1
  <2> HIDE DEF page
  <2>4. \A v : Empties([page EXCEPT !.social = v, !.loading = TRUE])
    BY <2>2 DEF Empties, PagesShaped
  <2> QED
    BY <2>2, <2>3, <2>4, OwnerStarts, MineRests
<1>4. ASSUME NEW n \in Slots, PollStarts(n)
      PROVE  MineQuiet
  <2>1. Empties(mine') /\ Done(n)
    BY <1>4 DEF PollStarts, Empties, PagesShaped
  <2> QED
    BY <2>1, MineEnds
<1>5. ASSUME NEW n \in Slots, SessionRefused(n) \/ StatusPending(n) \/ RefreshFailed(n)
      PROVE  MineQuiet
  <2>1. Empties(mine') /\ Done(n)
    BY <1>5 DEF SessionRefused, StatusPending, RefreshFailed, Empties, PagesShaped
  <2> QED
    BY <2>1, MineEnds
<1>6. ASSUME NEW n \in Slots, RefreshCompleted(n)
      PROVE  MineQuiet
  <2> DEFINE page == [mine EXCEPT !.refreshPoll = 0, !.refreshing = 0]
  <2>1. \/ \E o : LoadAgentsByOwner(n, [page EXCEPT !.loading = TRUE, !.list = NoList], o, "nothing")
        \/ \E g : LoadAgentsByGuardian(n, [page EXCEPT !.loading = TRUE, !.list = NoList], g, "nothing")
        \/ mine' = page /\ Done(n)
    BY <1>6 DEF RefreshCompleted
  <2>2. Empties(page)
    BY DEF Empties, PagesShaped
  <2> HIDE DEF page
  <2>3. Empties([page EXCEPT !.loading = TRUE, !.list = NoList])
    BY <2>2 DEF Empties, PagesShaped
  <2> QED
    BY <2>1, <2>2, <2>3, OwnerStarts, GuardianStarts, MineEnds
<1>7. ASSUME NEW n \in Slots, IdentifyCompleted(n)
      PROVE  MineQuiet
  <2>1. Empties([Emptied EXCEPT !.identifyPoll = 0])
    BY DEF Emptied, Empties, PagesShaped
  <2> QED
    BY <1>7, <2>1, HumanStarts DEF IdentifyCompleted
<1>8. CASE (HandleCloseRefresh \/ HandleCloseIdentify) /\ UNCHANGED job
  <2>1. Empties(mine')
    BY <1>8 DEF HandleCloseRefresh, HandleCloseIdentify, Empties, PagesShaped
  <2> QED
    BY <1>8, <2>1, MineRests
<1>9. CASE LeaveMyAgents
  <2>1. Empties(mine')
    BY <1>9 DEF LeaveMyAgents, Empties, PagesShaped
  <2> QED
    BY <1>9, <2>1, MineRests DEF LeaveMyAgents
<1> QED
  BY <1>1, <1>2, <1>3, <1>4, <1>5, <1>6, <1>7, <1>8, <1>9 DEF MineHandler

\* A step of "My Agents".
MineStep == MineHandler \/ MineLookup \/ \E n \in Slots : PrivySignsIn(n)

\* It goes on with a lookup, or may start one; it starts the handlers of this
\* page only.
LEMMA MineMoves ==
  ASSUME JobsShaped, PagesShaped, MineStep
  PROVE  MineOK /\ (MineQuiet \/ \E n \in Slots : LookupStep(n))
<1>1. ASSUME NEW n \in Slots, PrivySignsIn(n)
      PROVE  MineQuiet
  <2>1. \A v : Empties([Emptied EXCEPT !.social = v])
    BY DEF Emptied, Empties, PagesShaped
  <2> QED
    BY <1>1, <2>1, OwnerStarts DEF PrivySignsIn
<1>2. MineQuiet \/ \E n \in Slots : LookupStep(n)
  BY <1>1, MineHandlerMoves, MineLookupMoves DEF MineStep
<1>3. ASSUME NEW n \in Slots, LookupStep(n)
      PROVE  MineOK
  BY <1>3, LookupMoves DEF LookupStep
<1> QED
  BY <1>2, <1>3 DEF MineQuiet

\* What a handler of "Verify" leaves in order.
VerifyOK == JobsShaped' /\ Moves(VerifyKinds) /\ DOMAIN ver' = DOMAIN ver /\ VerOK'

\* A verification is started.
LEMMA VerifyStarts ==
  ASSUME JobsShaped, PagesShaped, NEW n \in Slots, NEW page, NEW key, StartVerify(n, page, key),
         DOMAIN page = DOMAIN ver, page.app # None => page.app.action \in {"D", "X"}
  PROVE  VerifyOK
<1> DEFINE k == [kind |-> "verify", at |-> "verified", key |-> key, verified |-> FALSE, id |-> 0,
                 owner |-> None, whole |-> TRUE, since |-> height]
<1>1. Run(n, k) /\ Shaped(k) /\ k.kind \in VerifyKinds
  BY DEF StartVerify, Shaped, VerifyKinds
<1> HIDE DEF k
<1>2. DOMAIN ver' = DOMAIN ver /\ ver'.app = page.app
  BY DEF StartVerify, PagesShaped
<1> QED
  BY <1>1, <1>2, RunMoves DEF VerifyOK, VerOK

\* A handler of the page goes on.
LEMMA VerifyRuns ==
  ASSUME JobsShaped, VerOK, NEW n \in Slots, NEW k, Run(n, k), Shaped(k), k.kind \in VerifyKinds,
         DOMAIN ver' = DOMAIN ver, ver'.app = ver.app
  PROVE  VerifyOK
BY RunMoves DEF VerifyOK, VerOK

\* A handler of the page ends.
LEMMA VerifyEnds ==
  ASSUME JobsShaped, VerOK, NEW n \in Slots, Done(n), DOMAIN ver' = DOMAIN ver, ver'.app = ver.app
  PROVE  VerifyOK
BY DoneMoves DEF VerifyOK, VerOK

\* The handlers of "Verify".
LEMMA VerifyMoves ==
  ASSUME JobsShaped, PagesShaped, VerOK, VerifyHandler
  PROVE  VerifyOK
<1> DEFINE VerifyFields == {"kind", "at", "key", "verified", "id", "owner", "whole", "since"}
<1> USE DEF VerifyKinds
<1>1. ASSUME NEW n \in Slots, At(n, "verify")
      PROVE  DOMAIN job[n] = VerifyFields /\ job[n].kind = "verify"
  BY <1>1 DEF At, JobsShaped, Shaped
<1>2. ASSUME NEW n \in Slots, NEW k, Run(n, k), DOMAIN k = VerifyFields, k.kind = "verify",
             UNCHANGED ver
      PROVE  VerifyOK
  <2>1. Shaped(k)
    BY <1>2 DEF Shaped
  <2> QED
    BY <1>2, <2>1, VerifyRuns
<1>3. ASSUME NEW n \in Slots, LookupAgent(n)
      PROVE  VerifyOK
  BY <1>3, VerifyStarts DEF LookupAgent, VerOK
<1>4. ASSUME NEW n \in Slots, HandleDeregisterSuccess(n)
      PROVE  VerifyOK
  <2> DEFINE page == [ver EXCEPT !.app = None]
  <2>1. DOMAIN page = DOMAIN ver /\ page.app = None
    BY DEF PagesShaped
  <2>2. \E k : StartVerify(n, page, k)
    BY <1>4 DEF HandleDeregisterSuccess
  <2> HIDE DEF page
  <2> QED
    BY <2>1, <2>2, VerifyStarts
<1>5. ASSUME NEW n \in Slots, PasskeyRevoke(n)
      PROVE  VerifyOK
  <2> DEFINE k == [kind |-> "userOp", page |-> "verify", id |-> ver.info.id, sent |-> FALSE]
  <2>1. /\ Run(n, k) /\ Shaped(k) /\ k.kind \in VerifyKinds
        /\ DOMAIN ver' = DOMAIN ver /\ ver'.app = ver.app
    BY <1>5 DEF PasskeyRevoke, PagesShaped, Shaped
  <2> HIDE DEF k
  <2> QED
    BY <2>1, VerifyRuns
<1>6. ASSUME NEW n \in Slots, VerifyFails(n) \/ ShowInfo(n)
      PROVE  VerifyOK
  <2>1. DOMAIN ver' = DOMAIN ver /\ ver'.app = ver.app /\ Done(n)
    BY <1>6 DEF VerifyFails, ShowInfo, PagesShaped
  <2> QED
    BY <2>1, VerifyEnds
<1>7. ASSUME NEW n \in Slots, ReadVerified(n)
      PROVE  VerifyOK
  <2> DEFINE k == [job[n] EXCEPT !.at = "id", !.verified = Registered(job[n].key)]
  <2>1. Run(n, k) /\ UNCHANGED ver /\ DOMAIN k = VerifyFields /\ k.kind = "verify"
    BY <1>1, <1>7 DEF ReadVerified
  <2> HIDE DEF k
  <2> QED
    BY <1>2, <2>1
<1>8. ASSUME NEW n \in Slots, ReadAgentId(n)
      PROVE  VerifyOK
  <2> DEFINE k == [job[n] EXCEPT !.at = "owner", !.id = AgentOf(job[n].key).id]
  <2>1. DOMAIN k = VerifyFields /\ k.kind = "verify"
    BY <1>1, <1>8 DEF ReadAgentId
  <2>2. \/ Run(n, k) /\ UNCHANGED ver
        \/ Done(n) /\ DOMAIN ver' = DOMAIN ver /\ ver'.app = ver.app
    BY <1>8 DEF ReadAgentId, PagesShaped
  <2> HIDE DEF k
  <2> QED
    BY <1>2, <2>1, <2>2, VerifyEnds
<1>9. ASSUME NEW n \in Slots, ReadOwner(n)
      PROVE  VerifyOK
  <2> DEFINE k == [job[n] EXCEPT !.at = "guardian", !.owner = AgentById(job[n].id).owner]
             l == [job[n] EXCEPT !.at = "nothing", !.whole = ~ IsAlive(job[n].id)]
  <2>1. /\ DOMAIN k = VerifyFields /\ k.kind = "verify"
        /\ DOMAIN l = VerifyFields /\ l.kind = "verify"
    BY <1>1, <1>9 DEF ReadOwner
  <2>2. UNCHANGED ver /\ (Run(n, k) \/ Run(n, l))
    BY <1>9 DEF ReadOwner
  <2> HIDE DEF k, l
  <2> QED
    BY <1>2, <2>1, <2>2
<1>10. ASSUME NEW n \in Slots, PasskeyRevokeEnds(n)
      PROVE  VerifyOK
  <2> DEFINE page == [ver EXCEPT !.revoking = FALSE]
  <2>1. DOMAIN page = DOMAIN ver /\ page.app = ver.app
    BY DEF PagesShaped
  <2>2. (\E k : StartVerify(n, page, k)) \/ (ver' = page /\ Done(n))
    BY <1>10 DEF PasskeyRevokeEnds
  <2> HIDE DEF page
  <2> QED
    BY <2>1, <2>2, VerifyStarts, VerifyEnds DEF VerOK
<1>11. CASE ConnectForDeregister \/ HandleDeregister \/ CancelDeregister
  <2>1. CASE ConnectForDeregister \/ CancelDeregister
    <3>1. UNCHANGED job /\ DOMAIN ver' = DOMAIN ver /\ ver'.app \in {ver.app, None}
      BY <2>1 DEF ConnectForDeregister, CancelDeregister, PagesShaped
    <3> QED
      BY <3>1, RestMoves DEF VerifyOK, VerOK
  <2>2. CASE HandleDeregister
    <3>1. /\ UNCHANGED job /\ DOMAIN ver' = DOMAIN ver
          /\ \E who, key : \/ ver'.app = [action |-> "D", user |-> who, key |-> key]
                           \/ ver'.app = [action |-> "X", user |-> who, key |-> key]
      BY <2>2 DEF HandleDeregister, PagesShaped
    <3>2. ver'.app.action \in {"D", "X"}
      BY <3>1
    <3> QED
      BY <3>1, <3>2, RestMoves DEF VerifyOK, VerOK
  <2> QED
    BY <1>11, <2>1, <2>2
<1> QED
  BY <1>3, <1>4, <1>5, <1>6, <1>7, <1>8, <1>9, <1>10, <1>11 DEF VerifyHandler

\* A user operation or a card's transaction is mined.
LEMMA TransactionMoves ==
  ASSUME ChainOK, JobsShaped, Transaction
  PROVE  /\ JobsShaped' /\ Moves({"userOp", "mint"}) /\ ChainOK' /\ Grown
         /\ \A b \in agents' : \E a \in agents : a.key = b.key /\ a.via = b.via
<1>1. PICK n \in Slots : UserOperationMined(n) \/ AgentCardWritten(n)
  BY DEF Transaction
<1>2. CASE UserOperationMined(n)
  <2> DEFINE k == [job[n] EXCEPT !.sent = TRUE]
  <2>1. Run(n, k) /\ At(n, "userOp") /\ IsAlive(job[n].id) /\ Burn(job[n].id)
    BY <1>2 DEF UserOperationMined
  <2>2. Shaped(job[n]) /\ job[n].kind = "userOp"
    BY <2>1 DEF At, JobsShaped
  <2>3. DOMAIN k = DOMAIN job[n] /\ k.kind = "userOp"
    BY <2>2 DEF Shaped
  <2> HIDE DEF k
  <2>4. Shaped(k) /\ k.kind \in {"userOp", "mint"}
    BY <2>2, <2>3 DEF Shaped
  <2>5. JobsShaped' /\ Moves({"userOp", "mint"})
    BY <2>1, <2>4, RunMoves
  <2>6. PICK a \in Alive : a.id = job[n].id
    BY <2>1 DEF IsAlive
  <2>7. ChainOK' /\ Grown
    BY <2>1, <2>6, BurnStep
  <2> QED
    BY <2>1, <2>5, <2>7, BurnOld
<1>3. CASE AgentCardWritten(n)
  <2> DEFINE k == [job[n] EXCEPT !.written = TRUE]
  <2>1. /\ Run(n, k) /\ At(n, "mint") /\ IsAlive(job[n].id) /\ UNCHANGED height
        /\ agents' = {IF a.id = job[n].id THEN [a EXCEPT !.card = TRUE] ELSE a : a \in agents}
    BY <1>3 DEF AgentCardWritten
  <2>2. Shaped(job[n]) /\ job[n].kind = "mint"
    BY <2>1 DEF At, JobsShaped
  <2>3. DOMAIN k = DOMAIN job[n] /\ k.kind = "mint"
    BY <2>2 DEF Shaped
  <2> HIDE DEF k
  <2>4. Shaped(k) /\ k.kind \in {"userOp", "mint"}
    BY <2>2, <2>3 DEF Shaped
  <2>5. JobsShaped' /\ Moves({"userOp", "mint"})
    BY <2>1, <2>4, RunMoves
  <2>6. PICK a \in agents : a.id = job[n].id
    BY <2>1 DEF IsAlive, Alive
  <2>7. \A c \in agents : c.id = a.id <=> c = a
    BY DEF ChainOK
  <2> DEFINE b == [a EXCEPT !.card = TRUE]
  <2>8. agents' = (agents \ {a}) \cup {b}
    <3>1. \A x : x \in agents' <=> x \in (agents \ {a}) \cup {b}
      BY <2>1, <2>6, <2>7
    <3> QED
      BY <3>1
  <2>9. ChainOK' /\ Grown
    BY <2>1, <2>8, CardStep
  <2>10. b.key = a.key /\ b.via = a.via
    BY DEF ChainOK, AgentSet
  <2> HIDE DEF b
  <2> QED
    BY <2>5, <2>8, <2>9, <2>10
<1> QED
  BY <1>1, <1>2, <1>3

\* A step of "My Agents" or of "Verify".
LEMMA PagesStep ==
  ASSUME BaseInv, PagesNext, UNCHANGED <<regVars, demoVars>>
  PROVE  BaseInv' /\ ChainOK' /\ Grown /\ Moves(PageKinds) /\ UNCHANGED <<scene, vault, passkey>>
<1>1. UNCHANGED <<scene, vault, reg, made>> /\ UNCHANGED passkey
  BY DEF PagesNext, Scan, storeVars, regVars
<1>2. SUFFICES /\ ChainOK' /\ Grown /\ NewAgentsOK
               /\ JobsShaped' /\ Moves(PageKinds) /\ VerOK'
               /\ DOMAIN mine' = DOMAIN mine /\ DOMAIN ver' = DOMAIN ver
               /\ \A s \in scans' : s \in scans \/ ScanOK(s)'
  <2>1. VaultOK' /\ KeysKept
    BY <1>1, VaultStill DEF BaseInv
  <2>2. JobsOK'
    <3>1. \A n \in Slots : job'[n] = job[n] \/ job'[n] = NoJob \/ RegisterJobOK(job[n])'
      BY <1>2 DEF Moves, PageKinds, MineKinds, VerifyKinds, RegisterJobOK
    <3> QED
      BY <1>1, <2>1, <3>1, JobsStep DEF BaseInv
  <2>3. \A qr : CodeOK(qr) => CodeOK(qr)'
    BY <1>1, <2>1, CodesStay
  <2>4. RegOK' /\ PagesShaped'
    BY <1>1, <1>2, <2>3 DEF BaseInv, RegOK, PagesShaped, demoVars
  <2>5. SuccessWasReal'
    BY <1>1, <1>2, AgentsStay DEF BaseInv, SuccessWasReal
  <2>6. BaseInv'
    BY <1>1, <1>2, <2>1, <2>2, <2>4, <2>5, BaseStep DEF BaseInv, KeysOK
  <2> QED
    BY <1>1, <1>2, <2>6
<1>3. ASSUME UNCHANGED <<agents, height>>
      PROVE  ChainOK' /\ Grown /\ NewAgentsOK
  <2>1. ChainOK' /\ Grown /\ \A b \in agents' : \E a \in agents : Kept(a, b)
    BY <1>3, StillStep DEF BaseInv, Kept
  <2> QED
    BY <2>1, NoNewAgents
<1>4. JobsShaped /\ PagesShaped /\ VerOK
  BY DEF BaseInv
<1>5. CASE /\ Open("mine")
           /\ \/ MineHandler /\ UNCHANGED signedIn
              \/ MineLookup /\ UNCHANGED <<signedIn, polls>>
              \/ \E n \in Slots : Free(n) /\ PrivySignsIn(n) /\ UNCHANGED polls
           /\ UNCHANGED <<scene, chainVars, storeVars, scans, ver>>
  <2>1. MineOK
    BY <1>4, <1>5, MineMoves DEF MineStep
  <2>2. UNCHANGED <<agents, height, scans, ver>>
    BY <1>5 DEF chainVars
  <2> QED
    BY <1>3, <1>4, <2>1, <2>2, MovesMore DEF MineOK, VerOK, PageKinds
<1>6. CASE /\ Open("verify") /\ VerifyHandler
           /\ UNCHANGED <<scene, chainVars, storeVars, signedIn, scans, mine, polls>>
  <2>1. VerifyOK
    BY <1>4, <1>6, VerifyMoves
  <2> QED
    BY <1>3, <1>4, <1>6, <2>1, MovesMore DEF VerifyOK, PageKinds, chainVars
<1>7. CASE Transaction /\ UNCHANGED <<scene, storeVars, signedIn, scans, pagesVars>>
  <2>1. /\ JobsShaped' /\ Moves({"userOp", "mint"}) /\ ChainOK' /\ Grown
        /\ \A b \in agents' : \E a \in agents : a.key = b.key /\ a.via = b.via
    BY <1>7, TransactionMoves DEF BaseInv
  <2>2. Moves(PageKinds)
    BY <2>1 DEF Moves, PageKinds, MineKinds
  <2>3. NewAgentsOK
    BY <2>1 DEF NewAgentsOK, BaseInv, KeysOK, RegisteredKeyKept
  <2> QED
    BY <1>4, <1>7, <2>1, <2>2, <2>3 DEF pagesVars, VerOK
<1>8. CASE ver.app # None /\ Scan("verify", ver.app) /\ UNCHANGED pagesVars
  <2>1. /\ UNCHANGED <<scene, agents, height, vault, job>>
        /\ \A s \in scans' : \/ s \in scans
                             \/ /\ DOMAIN s = {"page", "qr", "human", "landed"}
                                /\ s.human \in Humans /\ s.page = "verify"
                                /\ s.qr = ver.app /\ ~ s.landed
    BY <1>8, ScanStep
  <2>2. \A s \in scans' : s \in scans \/ ScanOK(s)'
    BY <1>8, <2>1 DEF ScanOK, BaseInv, VerOK
  <2> QED
    BY <1>3, <1>4, <1>8, <2>1, <2>2, RestMoves DEF pagesVars, VerOK
<1> QED
  BY <1>5, <1>6, <1>7, <1>8 DEF PagesNext

-----------------------------------------------------------------------------
(* The demo: whose handlers they are, and what they leave.                  *)

\* What a handler of the demo leaves in order.
DemoOK(kinds) == JobsShaped' /\ Moves(kinds) /\ DOMAIN demo' = DOMAIN demo

\* A handler of the demo starts or goes on.
LEMMA DemoRuns ==
  ASSUME JobsShaped, NEW n \in Slots, NEW k, Run(n, k), Shaped(k), NEW kinds,
         k.kind \in kinds, DOMAIN demo' = DOMAIN demo
  PROVE  DemoOK(kinds)
BY RunMoves DEF DemoOK

\* A handler of the demo ends.
LEMMA DemoEnds ==
  ASSUME JobsShaped, NEW n \in Slots, Done(n), DOMAIN demo' = DOMAIN demo, NEW kinds
  PROVE  DemoOK(kinds)
BY DoneMoves DEF DemoOK

\* A step of a run is one of its tests'.
LEMMA TestParts ==
  ASSUME NEW n \in Slots, TestStep(n)
  PROVE  At(n, "tests") /\ ((\E t : Advance(n, t)) \/ (\E t, status : Result(n, t, status)))
<1>1. CASE RunServiceTest(n)
  BY <1>1 DEF RunServiceTest, Lane
<1>2. CASE RunPeerTest(n)
  BY <1>2 DEF RunPeerTest, Lane
<1>3. CASE RunGateTest(n)
  BY <1>3 DEF RunGateTest, Lane
<1> QED
  BY <1>1, <1>2, <1>3 DEF TestStep

\* A run of the tests, and how it goes on.
LEMMA TestMoves ==
  ASSUME JobsShaped, PagesShaped, NEW n \in Slots,
         TestStep(n) \/ RunAllTests(n) \/ RunFakeAgent(n)
  PROVE  DemoOK({"tests"})
<1>1. CASE TestStep(n)
  <2>1. At(n, "tests") /\ ((\E t : Advance(n, t)) \/ (\E t, status : Result(n, t, status)))
    BY <1>1, TestParts
  <2>2. /\ DOMAIN job[n] = {"kind", "signer", "key", "keyType", "inOrder", "at", "since"}
        /\ job[n].kind = "tests"
    BY <2>1 DEF At, JobsShaped, Shaped
  <2>3. ASSUME NEW at, Run(n, [job[n] EXCEPT !.at = at]), DOMAIN demo' = DOMAIN demo
        PROVE  DemoOK({"tests"})
    <3> DEFINE k == [job[n] EXCEPT !.at = at]
    <3>1. DOMAIN k = DOMAIN job[n] /\ k.kind = "tests" /\ Run(n, k)
      BY <2>2, <2>3
    <3> HIDE DEF k
    <3>2. Shaped(k) /\ k.kind \in {"tests"}
      BY <2>2, <3>1 DEF Shaped
    <3> QED
      BY <2>3, <3>1, <3>2, DemoRuns
  <2>4. ASSUME NEW t, Advance(n, t)
        PROVE  DemoOK({"tests"})
    <3>1. Run(n, [job[n] EXCEPT !.at = [job[n].at EXCEPT ![t] = @ + 1]]) /\ UNCHANGED demo
      BY <2>2, <2>4 DEF Advance
    <3> QED
      BY <2>3, <3>1
  <2>5. ASSUME NEW t, NEW status, Result(n, t, status)
        PROVE  DemoOK({"tests"})
    <3>1. DOMAIN demo' = DOMAIN demo
      BY <2>5 DEF Result, PagesShaped
    <3>2. Done(n) \/ Run(n, [job[n] EXCEPT !.at = [job[n].at EXCEPT ![t] = Over]])
      BY <2>2, <2>5 DEF Result
    <3> QED
      BY <2>3, <3>1, <3>2, DemoEnds
  <2> QED
    BY <2>1, <2>4, <2>5
<1>2. CASE RunAllTests(n) \/ RunFakeAgent(n)
  <2>1. PICK signer, key, inOrder : StartTests(n, signer, key, inOrder)
    BY <1>2 DEF RunAllTests, RunFakeAgent
  <2> DEFINE k == [kind |-> "tests", signer |-> signer, key |-> key, keyType |-> demo.keyType,
                   inOrder |-> inOrder, at |-> [t \in Tests |-> 0],
                   since |-> [t \in Tests |-> MayRestOn(t, signer)]]
  <2>2. Run(n, k) /\ Shaped(k) /\ k.kind \in {"tests"} /\ DOMAIN demo' = DOMAIN demo
    BY <2>1 DEF StartTests, Shaped, PagesShaped
  <2> QED
    BY <2>2, DemoRuns
<1> QED
  BY <1>1, <1>2

\* The handlers that load an agent, and the chat's.
LoaderHandler ==
  \/ ChooseSetup \/ HandleAttachPasskeyAgentKey \/ SocialLogin \/ SocialSignedIn \/ Change
  \/ \E n \in Slots :
       \/ HandleLoadAgent(n) \/ HandleLoadAgentWithPasskey(n) \/ HandleConnectWallet(n)
       \/ LoadPrivyAgent(n) \/ SendChatMessage(n) \/ ChatAnswered(n)
       \/ KeyBoots(n) \/ KeyRefused(n) \/ KeyRegistered(n) \/ KeyLoaded(n)
       \/ PasskeySignedIn(n) \/ PasskeyRefused(n) \/ PasskeyLoaded(n)
       \/ WalletRefused(n) \/ WalletVerified(n) \/ WalletLoaded(n)
       \/ SocialRefused(n) \/ SocialVerified(n) \/ SocialLoaded(n)

\* Every handler but the tests'.
LEMMA LoaderMoves ==
  ASSUME JobsShaped, PagesShaped, LoaderHandler
  PROVE  DemoOK(LoaderKinds)
<1> USE DEF LoaderKinds
<1>1. CASE ChooseSetup \/ HandleAttachPasskeyAgentKey \/ SocialLogin \/ SocialSignedIn \/ Change
  <2>1. UNCHANGED job
    BY <1>1 DEF ChooseSetup, HandleAttachPasskeyAgentKey, SocialLogin, SocialSignedIn, Change
  <2>2. DOMAIN demo' = DOMAIN demo
    BY <1>1 DEF ChooseSetup, HandleAttachPasskeyAgentKey, SocialLogin, SocialSignedIn, Change,
                InitialState, PagesShaped
  <2> QED
    BY <2>1, <2>2, RestMoves DEF DemoOK
<1>2. ASSUME NEW n \in Slots, HandleLoadAgent(n)
      PROVE  DemoOK(LoaderKinds)
  <2>1. PICK key : Run(n, [kind |-> "byKey", at |-> "boot", key |-> key])
    BY <1>2 DEF HandleLoadAgent
  <2> DEFINE k == [kind |-> "byKey", at |-> "boot", key |-> key]
  <2>2. Run(n, k) /\ Shaped(k) /\ k.kind \in LoaderKinds /\ DOMAIN demo' = DOMAIN demo
    BY <1>2, <2>1 DEF HandleLoadAgent, Loading, Shaped, PagesShaped
  <2> QED
    BY <2>2, DemoRuns
<1>3. ASSUME NEW n \in Slots, HandleLoadAgentWithPasskey(n)
      PROVE  DemoOK(LoaderKinds)
  <2> DEFINE k == [kind |-> "byPasskey", smart |-> None]
  <2>1. Run(n, k) /\ Shaped(k) /\ k.kind \in LoaderKinds /\ DOMAIN demo' = DOMAIN demo
    BY <1>3 DEF HandleLoadAgentWithPasskey, Loading, Shaped, PagesShaped
  <2> QED
    BY <2>1, DemoRuns
<1>4. ASSUME NEW n \in Slots, HandleConnectWallet(n)
      PROVE  DemoOK(LoaderKinds)
  <2> DEFINE k == [kind |-> "byWallet", key |-> None]
  <2>1. Run(n, k) /\ Shaped(k) /\ k.kind \in LoaderKinds /\ DOMAIN demo' = DOMAIN demo
    BY <1>4 DEF HandleConnectWallet, Shaped, PagesShaped
  <2> QED
    BY <2>1, DemoRuns
<1>5. ASSUME NEW n \in Slots, LoadPrivyAgent(n)
      PROVE  DemoOK(LoaderKinds)
  <2>1. PICK v : Run(n, [kind |-> "bySocial", key |-> v, at |-> "verified"])
    BY <1>5 DEF LoadPrivyAgent
  <2> DEFINE k == [kind |-> "bySocial", key |-> v, at |-> "verified"]
  <2>2. Run(n, k) /\ Shaped(k) /\ k.kind \in LoaderKinds /\ DOMAIN demo' = DOMAIN demo
    BY <1>5, <2>1 DEF LoadPrivyAgent, Shaped, PagesShaped
  <2> QED
    BY <2>2, DemoRuns
<1>6. ASSUME NEW n \in Slots, SendChatMessage(n)
      PROVE  DemoOK(LoaderKinds)
  <2> DEFINE k == [kind |-> "chat", signer |-> IF demo.unlocked THEN demo.signer ELSE None]
  <2>1. Run(n, k) /\ Shaped(k) /\ k.kind \in LoaderKinds /\ DOMAIN demo' = DOMAIN demo
    BY <1>6 DEF SendChatMessage, Shaped, PagesShaped
  <2> QED
    BY <2>1, DemoRuns
<1>7. ASSUME NEW n \in Slots,
             \/ KeyRefused(n) \/ KeyLoaded(n) \/ PasskeyRefused(n) \/ PasskeyLoaded(n)
             \/ WalletRefused(n) \/ WalletLoaded(n) \/ SocialRefused(n) \/ SocialLoaded(n)
             \/ ChatAnswered(n)
      PROVE  DemoOK(LoaderKinds)
  <2>1. Done(n) /\ DOMAIN demo' = DOMAIN demo
    BY <1>7 DEF KeyRefused, KeyLoaded, PasskeyRefused, PasskeyLoaded, WalletRefused, WalletLoaded,
                SocialRefused, SocialLoaded, ChatAnswered, SetupError, SetupDone, PagesShaped
  <2> QED
    BY <2>1, DemoEnds
<1>8. ASSUME NEW n \in Slots, KeyBoots(n) \/ KeyRegistered(n)
      PROVE  DemoOK(LoaderKinds)
  <2>1. DOMAIN job[n] = {"kind", "at", "key"} /\ job[n].kind = "byKey"
    BY <1>8 DEF KeyBoots, KeyRegistered, At, JobsShaped, Shaped
  <2>2. PICK at : Run(n, [job[n] EXCEPT !.at = at])
    BY <1>8 DEF KeyBoots, KeyRegistered
  <2> DEFINE k == [job[n] EXCEPT !.at = at]
  <2>3. Run(n, k) /\ DOMAIN k = DOMAIN job[n] /\ k.kind = "byKey" /\ DOMAIN demo' = DOMAIN demo
    BY <1>8, <2>1, <2>2 DEF KeyBoots, KeyRegistered, PagesShaped
  <2> HIDE DEF k
  <2>4. Shaped(k) /\ k.kind \in LoaderKinds
    BY <2>1, <2>3 DEF Shaped
  <2> QED
    BY <2>3, <2>4, DemoRuns
<1>9. ASSUME NEW n \in Slots, PasskeySignedIn(n)
       PROVE  DemoOK(LoaderKinds)
  <2>1. DOMAIN job[n] = {"kind", "smart"} /\ job[n].kind = "byPasskey"
    BY <1>9 DEF PasskeySignedIn, At, JobsShaped, Shaped
  <2>2. PICK s : Run(n, [job[n] EXCEPT !.smart = s])
    BY <1>9 DEF PasskeySignedIn
  <2> DEFINE k == [job[n] EXCEPT !.smart = s]
  <2>3. Run(n, k) /\ DOMAIN k = DOMAIN job[n] /\ k.kind = "byPasskey" /\ DOMAIN demo' = DOMAIN demo
    BY <1>9, <2>1, <2>2 DEF PasskeySignedIn, PagesShaped
  <2> HIDE DEF k
  <2>4. Shaped(k) /\ k.kind \in LoaderKinds
    BY <2>1, <2>3 DEF Shaped
  <2> QED
    BY <2>3, <2>4, DemoRuns
<1>10. ASSUME NEW n \in Slots, WalletVerified(n)
       PROVE  DemoOK(LoaderKinds)
  <2>1. DOMAIN job[n] = {"kind", "key"} /\ job[n].kind = "byWallet"
    BY <1>10 DEF WalletVerified, At, JobsShaped, Shaped
  <2>2. PICK w : Run(n, [job[n] EXCEPT !.key = w])
    BY <1>10 DEF WalletVerified
  <2> DEFINE k == [job[n] EXCEPT !.key = w]
  <2>3. Run(n, k) /\ DOMAIN k = DOMAIN job[n] /\ k.kind = "byWallet" /\ DOMAIN demo' = DOMAIN demo
    BY <1>10, <2>1, <2>2 DEF WalletVerified, PagesShaped
  <2> HIDE DEF k
  <2>4. Shaped(k) /\ k.kind \in LoaderKinds
    BY <2>1, <2>3 DEF Shaped
  <2> QED
    BY <2>3, <2>4, DemoRuns
<1>11. ASSUME NEW n \in Slots, SocialVerified(n)
       PROVE  DemoOK(LoaderKinds)
  <2>1. DOMAIN job[n] = {"kind", "at", "key"} /\ job[n].kind = "bySocial"
    BY <1>11 DEF SocialVerified, At, JobsShaped, Shaped
  <2> DEFINE k == [job[n] EXCEPT !.at = "id"]
  <2>2. Run(n, k) /\ DOMAIN k = DOMAIN job[n] /\ k.kind = "bySocial" /\ DOMAIN demo' = DOMAIN demo
    BY <1>11, <2>1 DEF SocialVerified, PagesShaped
  <2> HIDE DEF k
  <2>3. Shaped(k) /\ k.kind \in LoaderKinds
    BY <2>1, <2>2 DEF Shaped
  <2> QED
    BY <2>2, <2>3, DemoRuns
<1> QED
  BY <1>1, <1>2, <1>3, <1>4, <1>5, <1>6, <1>7, <1>8, <1>9, <1>10, <1>11 DEF LoaderHandler

\* Every step of the demo is one or the other.
DemoTurn == DemoHandler \/ \E n \in Slots : TestStep(n)

LEMMA DemoParts ==
  ASSUME DemoNext
  PROVE  \/ LoaderHandler /\ UNCHANGED services
         \/ \E n \in Slots : (RunAllTests(n) \/ RunFakeAgent(n)) /\ UNCHANGED services
         \/ \E n \in Slots : TestStep(n)
BY DEF DemoNext, DemoHandler, LoaderHandler

\* Every handler of the demo.
LEMMA DemoMoves ==
  ASSUME JobsShaped, PagesShaped, DemoNext
  PROVE  DemoOK(DemoKinds)
BY DemoParts, LoaderMoves, TestMoves DEF DemoOK, Moves, DemoKinds

\* The demo stores keys and takes none away.
LEMMA DemoVault ==
  ASSUME VaultOK, DemoTurn
  PROVE  VaultOK' /\ KeysKept
<1>1. UNCHANGED vault \/ \E key, guardian : SaveAgentPrivateKey(key, guardian)
  BY DEF DemoTurn, DemoHandler, ChooseSetup, HandleAttachPasskeyAgentKey, SocialLogin, SocialSignedIn, Change,
         HandleLoadAgent, HandleLoadAgentWithPasskey, HandleConnectWallet, LoadPrivyAgent,
         RunAllTests, RunFakeAgent, SendChatMessage, KeyBoots, KeyRefused, KeyRegistered, KeyLoaded,
         PasskeySignedIn, PasskeyRefused, PasskeyLoaded, WalletRefused, WalletVerified, WalletLoaded,
         SocialRefused, SocialVerified, SocialLoaded, TestStep, ChatAnswered
<1> QED
  BY <1>1, VaultStill, VaultTakes

\* A step of the demo.
LEMMA DemoStep ==
  ASSUME BaseInv, DemoNext, UNCHANGED <<regVars, pagesVars>>
  PROVE  BaseInv' /\ ChainOK' /\ Grown /\ Moves(DemoKinds)
<1>1. /\ UNCHANGED <<scene, agents, height, scans, reg, made, mine, ver>>
      /\ DemoTurn
  BY DEF DemoNext, DemoTurn, chainVars, regVars, pagesVars
<1>2. DemoOK(DemoKinds)
  BY DemoMoves DEF BaseInv
<1>3. VaultOK' /\ KeysKept
  BY <1>1, DemoVault DEF BaseInv
<1>4. ChainOK' /\ Grown /\ \A b \in agents' : \E a \in agents : Kept(a, b)
  BY <1>1, StillStep DEF BaseInv, Kept
<1>5. NewAgentsOK
  BY <1>4, NoNewAgents
<1>6. JobsOK'
  <2>1. \A n \in Slots : job'[n] = job[n] \/ job'[n] = NoJob \/ RegisterJobOK(job[n])'
    BY <1>2 DEF DemoOK, Moves, DemoKinds, LoaderKinds, RegisterJobOK
  <2> QED
    BY <1>1, <1>3, <2>1, JobsStep DEF BaseInv
<1>7. \A qr : CodeOK(qr) => CodeOK(qr)'
  BY <1>1, <1>3, CodesStay
<1>8. RegOK' /\ PagesShaped' /\ VerOK' /\ SuccessWasReal'
  BY <1>1, <1>2, <1>7 DEF BaseInv, RegOK, PagesShaped, VerOK, SuccessWasReal, DemoOK
<1>9. BaseInv'
  BY <1>1, <1>2, <1>3, <1>4, <1>5, <1>6, <1>8, BaseStep DEF BaseInv, KeysOK, DemoOK
<1> QED
  BY <1>2, <1>4, <1>9 DEF DemoOK

\* The invariant at the start.
LEMMA BaseInit ==
  ASSUME Init
  PROVE  BaseInv
<1>1. /\ SceneOK(scene) /\ agents = scene.agents /\ height = 0 /\ vault = scene.vault /\ scans = {}
      /\ job = [n \in Slots |-> NoJob] /\ made = {} /\ reg = RegBlank /\ demo = DemoBlank
  BY BrowserAssumption DEF Init, BrowserInit, RegInit, PagesInit, DemoInit
<1>2. ChainOK
  <2>1. \A a \in agents : a \in AgentSet
    BY <1>1 DEF SceneOK, EarlierAgents, AgentSet, Ways
  <2>2. \A a \in agents : a.born = 0 /\ a.died = 0
    BY <1>1 DEF SceneOK, EarlierAgents
  <2> QED
    BY <1>1, <2>1, <2>2 DEF ChainOK, SceneOK, Alive
<1>3. VaultOK
  BY <1>1 DEF VaultOK, SceneOK
<1>4. JobsShaped /\ JobsOK
  BY <1>1 DEF JobsShaped, JobsOK
<1>5. PagesShaped
  BY <1>1 DEF PagesShaped, Init, PagesInit, RegBlank, DemoBlank
<1>6. KeysOK
  BY <1>1 DEF KeysOK, SceneOK
<1>7. RegOK /\ SuccessWasReal
  BY <1>1 DEF RegOK, SuccessWasReal, RegBlank
<1>8. VerOK
  BY DEF VerOK, Init, PagesInit
<1>9. RegisteredKeyKept
  <2>1. \A a \in agents : a.via = "other"
    BY <1>1 DEF SceneOK, EarlierAgents
  <2> QED
    BY <2>1 DEF RegisteredKeyKept
<1> QED
  BY <1>1, <1>2, <1>3, <1>4, <1>5, <1>6, <1>7, <1>8, <1>9 DEF BaseInv

\* What changes when neither the pages nor the registry do.
Quiet == UNCHANGED <<browserVars, regVars, pagesVars, demo>>

\* A step that changes nothing, or only what the demo services remember.
LEMMA BaseStutter ==
  ASSUME BaseInv, Quiet
  PROVE  BaseInv' /\ ChainOK' /\ Grown /\ Moves({})
<1>1. /\ UNCHANGED <<scene, agents, height, vault, job, scans>>
      /\ UNCHANGED <<reg, made, mine, ver, demo>>
  BY DEF Quiet, browserVars, regVars, pagesVars
<1>2. /\ ChainOK' /\ Grown /\ \A b \in agents' : \E a \in agents : Kept(a, b)
      /\ VaultOK' /\ KeysKept /\ JobsShaped' /\ Moves({})
  BY <1>1, StillStep, VaultStill, RestMoves DEF BaseInv, Kept
<1>3. NewAgentsOK
  BY <1>2, NoNewAgents
<1>4. JobsOK'
  BY <1>1, <1>2, JobsStep DEF BaseInv
<1>5. \A qr : CodeOK(qr) => CodeOK(qr)'
  BY <1>1, <1>2, CodesStay
<1>6. RegOK' /\ PagesShaped' /\ VerOK' /\ SuccessWasReal'
  BY <1>1, <1>5 DEF BaseInv, RegOK, PagesShaped, VerOK, SuccessWasReal
<1> QED
  BY <1>1, <1>2, <1>3, <1>4, <1>6, BaseStep DEF BaseInv, KeysOK

\* What is so of every step: the invariant goes on, and the registry only grows.
LEMMA BaseNext ==
  ASSUME BaseInv, [Next]_vars
  PROVE  BaseInv' /\ ChainOK' /\ Grown
<1>1. UNCHANGED vars => Quiet
  BY DEF vars, Quiet, demoVars
<1> QED
  BY <1>1, RegisterStep, PagesStep, DemoStep, WorldStep, BaseStutter DEF Next, Quiet

\* The registration page and its registry are in order at every moment.
THEOREM BaseAlways == Spec => []BaseInv
<1>1. Init => BaseInv
  BY BaseInit
<1>2. BaseInv /\ [Next]_vars => BaseInv'
  BY BaseNext
<1> QED
  BY <1>1, <1>2, PTL DEF Spec

\* The keys the page keeps stay kept.
THEOREM RegisteredKeyAlwaysKept == Spec => []RegisteredKeyKept
<1>1. BaseInv => RegisteredKeyKept
  BY DEF BaseInv
<1> QED
  BY <1>1, BaseAlways, PTL

\* "Registered" is said only when an agent was.
THEOREM SuccessAlwaysReal == Spec => []SuccessWasReal
<1>1. BaseInv => SuccessWasReal
  BY DEF BaseInv
<1> QED
  BY <1>1, BaseAlways, PTL

-----------------------------------------------------------------------------
(* The tests of the demo.                                                  *)

\* The passes after a step were there before it or were read by it.
ServicesMove ==
  \A p \in services' : p \in services \/ (p.at = height /\ Registered(p.key))

\* Any step, as the demo sees it.
LEMMA DemoSees ==
  ASSUME BaseInv, [Next]_vars
  PROVE  \/ DemoNext /\ UNCHANGED <<regVars, pagesVars>>
         \/ UNCHANGED <<demo, services>> /\ Moves(RegisterKinds \cup PageKinds)
         \/ Quiet /\ ServicesMove
<1>1. CASE RegisterNext /\ UNCHANGED <<pagesVars, demoVars>>
  BY <1>1, RegisterStep DEF Moves, demoVars
<1>2. CASE PagesNext /\ UNCHANGED <<regVars, demoVars>>
  BY <1>2, PagesStep DEF Moves, demoVars
<1>3. CASE /\ ProofArrives \/ OthersRegister \/ OthersDeregister
           /\ UNCHANGED <<regVars, pagesVars, demoVars>>
  BY <1>3, WorldStep DEF Moves, demoVars
<1>4. CASE (OthersAsk \/ Forget) /\ UNCHANGED <<browserVars, regVars, pagesVars, demo>>
  BY <1>4 DEF OthersAsk, Forget, Reads, Quiet, ServicesMove
<1>5. CASE UNCHANGED vars
  BY <1>5 DEF vars, demoVars, Quiet, ServicesMove
<1> QED
  BY <1>1, <1>2, <1>3, <1>4, <1>5 DEF Next

\* An agent had the key and lived at some moment after s, or after one of some
\* moments.
WasAgent(k, s) == \E a \in agents : a.key = k /\ LivedSince(a, s)
WasSince(k, moments) == \E m \in moments : WasAgent(k, m)

Past(moments) == \A m \in moments : m \in Nat /\ m <= height

\* What was so once stays so.
LEMMA PastStays ==
  ASSUME ChainOK, ChainOK', Grown
  PROVE  /\ \A k, s : s \in Nat /\ s <= height /\ WasAgent(k, s) => WasAgent(k, s)'
         /\ \A k, moments : Past(moments) /\ WasSince(k, moments) =>
              Past(moments)' /\ WasSince(k, moments)'
         /\ \A moments : Past(moments) => Past(moments)'
<1>1. ASSUME NEW a \in agents, NEW b \in agents', Kept(a, b), NEW s \in Nat, s <= height,
             LivedSince(a, s)
      PROVE  LivedSince(b, s)
  <2>1. a.died \in Nat /\ b.died \in Nat /\ height \in Nat
    BY DEF ChainOK, AgentSet
  <2> QED
    BY <1>1, <2>1 DEF Kept, LivedSince
<1>2. \A k, s : s \in Nat /\ s <= height /\ WasAgent(k, s) => WasAgent(k, s)'
  BY <1>1 DEF WasAgent, Grown, Kept
<1>3. \A moments : Past(moments) => Past(moments)'
  BY DEF ChainOK, Grown, Past
<1> QED
  BY <1>2, <1>3 DEF Past, WasSince

\* A pass that is remembered was read of a registered agent.
PassOK(p) == p.at \in Nat /\ p.at <= height /\ WasAgent(p.key, p.at)

\* A pass that a service remembers was read after a moment that the run's
\* result may rest on.
Covers(moments, t, key) == \A p \in Remembered(t, key) : \E m \in moments : m <= p.at

\* What a run of the tests knows: the moments its results may rest on, and once
\* the peer has accepted the request, the signer was an agent since one.
RunOK(j) ==
  /\ j.since = [t \in Tests |-> j.since[t]]
  /\ \A t \in Tests : /\ Past(j.since[t]) /\ j.since[t] # {}
                      /\ Covers(j.since[t], t, j.signer)
  /\ j.at = [t \in Tests |-> j.at[t]]
  /\ j.at["peer"] \in 0 .. 3
  /\ j.at["peer"] \in {1, 2} => WasSince(j.signer, j.since["peer"])

\* What a result says.
ResultOK(r) ==
  r.status = "success" => Past(r.since) /\ WasSince(r.of, r.since)

TestsInv ==
  /\ demo.tests = [t \in Tests |-> demo.tests[t]]
  /\ \A t \in Tests : ResultOK(demo.tests[t])
  /\ \A n \in Slots : At(n, "tests") => RunOK(job[n])
  /\ \A p \in services : PassOK(p)

\* Time leaves a run and a result as they are.
LEMMA ResultsStay ==
  ASSUME ChainOK, ChainOK', Grown, UNCHANGED services
  PROVE  /\ \A j : RunOK(j) => RunOK(j)'
         /\ \A r : ResultOK(r) => ResultOK(r)'
         /\ \A p : PassOK(p) => PassOK(p)'
<1>1. height \in Nat /\ height' \in Nat /\ height' >= height
  BY DEF ChainOK, Grown
<1>2. \A moments, t, key : Covers(moments, t, key) => Covers(moments, t, key)'
  BY DEF Covers, Remembered
<1>3. \A p : PassOK(p) => PassOK(p)'
  BY <1>1, PastStays DEF PassOK
<1>4. \A r : ResultOK(r) => ResultOK(r)'
  BY PastStays DEF ResultOK
<1>5. \A j : RunOK(j) => RunOK(j)'
  <2> SUFFICES ASSUME NEW j, RunOK(j)
               PROVE  RunOK(j)'
    OBVIOUS
  <2>1. \A t \in Tests : /\ Past(j.since[t])' /\ j.since[t] # {}
                        /\ Covers(j.since[t], t, j.signer)'
    BY <1>2, PastStays DEF RunOK
  <2>2. j.at["peer"] \in {1, 2} => WasSince(j.signer, j.since["peer"])'
    BY PastStays DEF RunOK, Tests
  <2> QED
    BY <2>1, <2>2 DEF RunOK
<1> QED
  BY <1>3, <1>4, <1>5

\* A step that starts and moves no run leaves the results in order.
LEMMA NoTestStep ==
  ASSUME TestsInv, ChainOK, ChainOK', Grown, NEW kinds, "tests" \notin kinds, Moves(kinds),
         UNCHANGED services,
         \/ demo'.tests = demo.tests
         \/ demo'.tests = [t \in Tests |-> Idle]
  PROVE  TestsInv'
<1>1. \A n \in Slots : At(n, "tests")' => RunOK(job[n])'
  BY ResultsStay DEF TestsInv, Moves, At
<1>2. \A p \in services' : PassOK(p)'
  BY ResultsStay DEF TestsInv
<1>3. CASE demo'.tests = demo.tests
  BY <1>1, <1>2, <1>3, ResultsStay DEF TestsInv
<1>4. CASE demo'.tests = [t \in Tests |-> Idle]
  BY <1>1, <1>2, <1>4 DEF TestsInv, ResultOK, Idle
<1> QED
  BY <1>3, <1>4

\* An agent that is registered was one at every moment since.
LEMMA AcceptedWasAgent ==
  ASSUME NEW k, Registered(k), NEW s
  PROVE  WasAgent(k, s)
BY DEF Registered, Alive, WasAgent, LivedSince

\* Runs, results and passes are as good as the registry, when it stands still.
LEMMA ResultsStill ==
  ASSUME BaseInv, UNCHANGED <<agents, height>>, ServicesMove
  PROVE  /\ \A j : RunOK(j) => RunOK(j)'
         /\ \A r : ResultOK(r) => ResultOK(r)'
         /\ (\A p \in services : PassOK(p)) => \A p \in services' : PassOK(p)'
<1>1. height \in Nat
  BY DEF BaseInv, ChainOK
<1>2. \A k, s : WasAgent(k, s) <=> WasAgent(k, s)'
  BY DEF WasAgent
<1>3. \A k, moments : WasSince(k, moments) <=> WasSince(k, moments)'
  BY <1>2 DEF WasSince
<1>4. \A moments : Past(moments) <=> Past(moments)'
  BY DEF Past
<1>5. \A p : PassOK(p) => PassOK(p)'
  BY <1>2 DEF PassOK
<1>6. \A p : p.at = height /\ Registered(p.key) => PassOK(p)
  BY <1>1, AcceptedWasAgent DEF PassOK
<1>7. (\A p \in services : PassOK(p)) => \A p \in services' : PassOK(p)'
  BY <1>5, <1>6 DEF ServicesMove
<1>8. \A moments, t, key :
         Past(moments) /\ moments # {} /\ Covers(moments, t, key) => Covers(moments, t, key)'
  <2> SUFFICES ASSUME NEW moments, NEW t, NEW key, Past(moments), moments # {},
                      Covers(moments, t, key), NEW p \in Remembered(t, key)'
               PROVE  \E m \in moments : m <= p.at
    BY DEF Covers
  <2>1. CASE p \in services
    BY <2>1 DEF Covers, Remembered
  <2>2. CASE p.at = height
    BY <2>2 DEF Past
  <2> QED
    BY <2>1, <2>2 DEF ServicesMove, Remembered
<1>9. ASSUME NEW j, RunOK(j)
      PROVE  RunOK(j)'
  <2>1. \A t \in Tests : /\ Past(j.since[t])' /\ j.since[t] # {}
                        /\ Covers(j.since[t], t, j.signer)'
    BY <1>4, <1>8, <1>9 DEF RunOK
  <2>2. j.at["peer"] \in {1, 2} => WasSince(j.signer, j.since["peer"])'
    BY <1>3, <1>9 DEF RunOK
  <2> QED
    BY <1>9, <2>1, <2>2 DEF RunOK
<1>10. \A r : ResultOK(r) => ResultOK(r)'
  BY <1>3, <1>4 DEF ResultOK
<1> QED
  BY <1>7, <1>9, <1>10

\* A request that passes is an agent's, now or at the reading that is
\* remembered.
LEMMA PassesWasAgent ==
  ASSUME BaseInv, TestsInv, NEW j, RunOK(j), NEW t \in Tests, Passes(t, j.signer)
  PROVE  WasSince(j.signer, j.since[t]) /\ ServicesMove
<1>1. /\ Past(j.since[t]) /\ j.since[t] # {} /\ Covers(j.since[t], t, j.signer)
  BY DEF RunOK
<1>2. CASE Remembered(t, j.signer) # {} /\ UNCHANGED services
  <2>1. PICK p \in Remembered(t, j.signer) : TRUE
    BY <1>2
  <2>2. PassOK(p) /\ p.key = j.signer
    BY <2>1 DEF Remembered, TestsInv
  <2>3. PICK m \in j.since[t] : m <= p.at
    BY <1>1, <2>1 DEF Covers
  <2>4. PICK a \in agents : a.key = j.signer /\ LivedSince(a, p.at)
    BY <2>2 DEF PassOK, WasAgent
  <2>5. a.died \in Nat /\ m \in Nat /\ p.at \in Nat
    BY <1>1, <2>2, <2>3 DEF Past, PassOK, BaseInv, ChainOK, AgentSet
  <2>6. LivedSince(a, m)
    BY <2>3, <2>4, <2>5 DEF LivedSince
  <2> QED
    BY <1>2, <2>3, <2>4, <2>6 DEF WasSince, WasAgent, ServicesMove
<1>3. CASE Reads(t, j.signer)
  <2>1. Registered(j.signer) /\ ServicesMove
    BY <1>3 DEF Reads, ServicesMove
  <2> QED
    BY <1>1, <2>1, AcceptedWasAgent DEF WasSince
<1> QED
  BY <1>2, <1>3 DEF Passes

\* A result, for a run that has met a registered agent or failed.
LEMMA ResultStep ==
  ASSUME BaseInv, TestsInv, NEW n \in Slots, NEW t \in Tests, NEW status, At(n, "tests"),
         Result(n, t, status), UNCHANGED <<agents, height>>, ServicesMove,
         status = "success" => WasSince(job[n].signer, job[n].since[t])
  PROVE  TestsInv'
<1>1. RunOK(job[n]) /\ DOMAIN job[n] = {"kind", "signer", "key", "keyType", "inOrder", "at", "since"}
  BY DEF TestsInv, BaseInv, JobsShaped, Shaped, At
<1>2. demo'.tests = [demo.tests EXCEPT ![t] = [status |-> status, of |-> job[n].signer,
                                               since |-> job[n].since[t]]]
  BY DEF Result, BaseInv, PagesShaped
<1> DEFINE r == [status |-> status, of |-> job[n].signer, since |-> job[n].since[t]]
<1>3. ResultOK(r)
  BY <1>1 DEF ResultOK, RunOK
<1>4. \A u \in Tests : demo'.tests[u] = IF u = t THEN r ELSE demo.tests[u]
  BY <1>2 DEF TestsInv
<1>5. demo'.tests = [u \in Tests |-> demo'.tests[u]]
  BY <1>2 DEF TestsInv
<1> HIDE DEF r
<1>6. \A u \in Tests : ResultOK(demo.tests[u])'
  BY <1>3, <1>4, ResultsStill DEF TestsInv
<1>7. \A m \in Slots : m # n => job'[m] = job[m]
  BY RunStep DEF Result, Done, Run, BaseInv, JobsShaped
<1>8. At(n, "tests")' => RunOK(job[n])'
  <2>1. CASE Done(n)
    BY <2>1 DEF Done, At, BaseInv, JobsShaped
  <2>2. CASE Run(n, [job[n] EXCEPT !.at[t] = Over])
    <3> DEFINE k == [job[n] EXCEPT !.at[t] = Over]
    <3>1. /\ k.since = job[n].since /\ k.signer = job[n].signer
          /\ k.at = [job[n].at EXCEPT ![t] = Over]
      BY <1>1
    <3>2. job'[n] = k
      BY <2>2, RunStep DEF BaseInv
    <3> HIDE DEF k
    <3>3. /\ k.at = [u \in Tests |-> k.at[u]]
          /\ k.at["peer"] = job[n].at["peer"] \/ k.at["peer"] = Over
      BY <1>1, <3>1 DEF RunOK, Tests
    <3>4. RunOK(k)
      BY <1>1, <3>1, <3>3 DEF RunOK, Over
    <3> QED
      BY <3>2, <3>4, ResultsStill
  <2> QED
    BY <2>1, <2>2 DEF Result
<1> QED
  BY <1>5, <1>6, <1>7, <1>8, ResultsStill DEF TestsInv, At

\* A test goes on to its next request.
LEMMA AdvanceStep ==
  ASSUME BaseInv, TestsInv, NEW n \in Slots, NEW t \in Tests, At(n, "tests"),
         Advance(n, t), UNCHANGED <<agents, height>>, ServicesMove,
         t = "peer" => job[n].at[t] \in {0, 1} /\ WasSince(job[n].signer, job[n].since[t])
  PROVE  TestsInv'
<1>1. RunOK(job[n]) /\ DOMAIN job[n] = {"kind", "signer", "key", "keyType", "inOrder", "at", "since"}
  BY DEF TestsInv, BaseInv, JobsShaped, Shaped, At
<1> DEFINE k == [job[n] EXCEPT !.at[t] = @ + 1]
<1>2. Run(n, k) /\ UNCHANGED demo
  BY DEF Advance
<1>3. /\ k.since = job[n].since /\ k.signer = job[n].signer
      /\ k.at = [job[n].at EXCEPT ![t] = @ + 1]
  BY <1>1
<1> HIDE DEF k
<1>4. job'[n] = k /\ \A m \in Slots : m # n => job'[m] = job[m]
  BY <1>2, RunStep DEF BaseInv
<1>5. /\ k.at = [u \in Tests |-> k.at[u]]
      /\ k.at["peer"] = IF t = "peer" THEN job[n].at["peer"] + 1 ELSE job[n].at["peer"]
  BY <1>1, <1>3 DEF RunOK, Tests
<1>6. RunOK(k)
  BY <1>1, <1>3, <1>5 DEF RunOK
<1> QED
  BY <1>2, <1>4, <1>6, ResultsStill DEF TestsInv, At

\* A run is started, for whatever key.
LEMMA TestsStart ==
  ASSUME BaseInv, TestsInv, NEW n \in Slots, NEW signer, NEW key, NEW inOrder,
         StartTests(n, signer, key, inOrder), UNCHANGED <<agents, height, services>>
  PROVE  TestsInv'
<1> DEFINE k == [kind |-> "tests", signer |-> signer, key |-> key, keyType |-> demo.keyType,
                 inOrder |-> inOrder, at |-> [t \in Tests |-> 0],
                 since |-> [t \in Tests |-> MayRestOn(t, signer)]]
<1>1. /\ Run(n, k) /\ k.since = [t \in Tests |-> MayRestOn(t, signer)] /\ k.signer = signer
      /\ k.at = [t \in Tests |-> 0]
  BY DEF StartTests
<1> HIDE DEF k
<1>2. job'[n] = k /\ \A m \in Slots : m # n => job'[m] = job[m]
  BY <1>1, RunStep DEF BaseInv
<1>3. RunOK(k)
  <2>1. \A t \in Tests : k.since[t] = MayRestOn(t, signer)
    BY <1>1
  <2>2. height \in Nat
    BY DEF BaseInv, ChainOK
  <2>3. \A t \in Tests : Past(MayRestOn(t, signer)) /\ MayRestOn(t, signer) # {}
    BY <2>2 DEF MayRestOn, Remembered, Past, TestsInv, PassOK
  <2>4. \A t \in Tests : Covers(MayRestOn(t, signer), t, signer)
    BY DEF MayRestOn, Covers, Remembered, TestsInv, PassOK
  <2>5. k.at["peer"] = 0 /\ k.at = [t \in Tests |-> k.at[t]]
    BY <1>1 DEF Tests
  <2> QED
    BY <1>1, <2>1, <2>3, <2>4, <2>5 DEF RunOK
<1>4. demo'.tests = [t \in Tests |->
        [status |-> "running", of |-> signer, since |-> MayRestOn(t, signer)]]
  BY DEF StartTests, BaseInv, PagesShaped
<1>5. \A t \in Tests : ResultOK(demo.tests[t])'
  BY <1>4 DEF ResultOK
<1>6. ServicesMove
  BY DEF ServicesMove
<1> QED
  BY <1>2, <1>3, <1>4, <1>5, <1>6, ResultsStill DEF TestsInv, At

\* A step of the tests.
LEMMA TestsStep ==
  ASSUME BaseInv, TestsInv, NEW n \in Slots, UNCHANGED <<agents, height>>, TestStep(n)
  PROVE  TestsInv'
<1>1. Tests = {"service", "peer", "gate"}
  BY DEF Tests
<1>2. At(n, "tests") => RunOK(job[n])
  BY DEF TestsInv
<1>3. UNCHANGED services => ServicesMove
  BY DEF ServicesMove
<1>4. ASSUME At(n, "tests"), NEW t \in Tests, Passes(t, job[n].signer)
      PROVE  WasSince(job[n].signer, job[n].since[t]) /\ ServicesMove
  BY <1>2, <1>4, PassesWasAgent
<1>5. CASE RunServiceTest(n)
  <2>1. PICK step \in 0 .. 2 :
          /\ Lane(n, "service", step)
          /\ \/ step < 2 /\ Passes("service", job[n].signer) /\ Advance(n, "service")
             \/ step = 2 /\ Passes("service", job[n].signer) /\ Result(n, "service", "success")
             \/ Result(n, "service", "error") /\ UNCHANGED services
    BY <1>5 DEF RunServiceTest
  <2>2. At(n, "tests")
    BY <2>1 DEF Lane
  <2>3. CASE Passes("service", job[n].signer) /\ Advance(n, "service")
    BY <1>1, <1>4, <2>2, <2>3, AdvanceStep
  <2>4. CASE Passes("service", job[n].signer) /\ Result(n, "service", "success")
    BY <1>1, <1>4, <2>2, <2>4, ResultStep
  <2>5. CASE Result(n, "service", "error") /\ UNCHANGED services
    BY <1>1, <1>3, <2>2, <2>5, ResultStep
  <2> QED
    BY <2>1, <2>3, <2>4, <2>5
<1>6. CASE RunPeerTest(n)
  <2>1. PICK step \in 0 .. 2 :
          /\ Lane(n, "peer", step)
          /\ \/ step = 0 /\ Passes("peer", job[n].signer) /\ Advance(n, "peer")
             \/ step = 1 /\ Advance(n, "peer") /\ UNCHANGED services
             \/ step = 2 /\ Result(n, "peer", "success") /\ UNCHANGED services
             \/ Result(n, "peer", "error") /\ UNCHANGED services
    BY <1>6 DEF RunPeerTest
  <2>2. At(n, "tests") /\ job[n].at["peer"] = step
    BY <2>1 DEF Lane
  <2>3. step \in {1, 2} => WasSince(job[n].signer, job[n].since["peer"])
    BY <1>2, <2>2 DEF RunOK
  <2>4. CASE step = 0 /\ Passes("peer", job[n].signer) /\ Advance(n, "peer")
    BY <1>1, <1>4, <2>2, <2>4, AdvanceStep
  <2>5. CASE step = 1 /\ Advance(n, "peer") /\ UNCHANGED services
    BY <1>1, <1>3, <2>2, <2>3, <2>5, AdvanceStep
  <2>6. CASE step = 2 /\ Result(n, "peer", "success") /\ UNCHANGED services
    BY <1>1, <1>3, <2>2, <2>3, <2>6, ResultStep
  <2>7. CASE Result(n, "peer", "error") /\ UNCHANGED services
    BY <1>1, <1>3, <2>2, <2>7, ResultStep
  <2> QED
    BY <2>1, <2>4, <2>5, <2>6, <2>7
<1>7. CASE RunGateTest(n) /\ UNCHANGED services
  <2>1. At(n, "tests")
    BY <1>7 DEF RunGateTest, Lane
  <2>2. Registered(job[n].signer) => WasSince(job[n].signer, job[n].since["gate"])
    BY <1>1, <1>2, <2>1, AcceptedWasAgent DEF WasSince, RunOK
  <2>3. \/ Advance(n, "gate")
        \/ Registered(job[n].signer) /\ Result(n, "gate", "success")
        \/ Result(n, "gate", "error")
    BY <1>7 DEF RunGateTest
  <2>4. CASE Advance(n, "gate")
    BY <1>1, <1>3, <1>7, <2>1, <2>4, AdvanceStep
  <2>5. CASE Registered(job[n].signer) /\ Result(n, "gate", "success")
    BY <1>1, <1>3, <1>7, <2>1, <2>2, <2>5, ResultStep
  <2>6. CASE Result(n, "gate", "error")
    BY <1>1, <1>3, <1>7, <2>1, <2>6, ResultStep
  <2> QED
    BY <2>3, <2>4, <2>5, <2>6
<1> QED
  BY <1>5, <1>6, <1>7 DEF TestStep

\* Only "Change" touches the results otherwise, and it forgets them.
LEMMA LoadersLeaveTests ==
  ASSUME PagesShaped, LoaderHandler
  PROVE  \/ demo'.tests = demo.tests
         \/ demo'.tests = [t \in Tests |-> Idle]
<1>1. CASE ChooseSetup \/ HandleAttachPasskeyAgentKey \/ SocialLogin \/ SocialSignedIn
  BY <1>1 DEF ChooseSetup, HandleAttachPasskeyAgentKey, SocialLogin, SocialSignedIn, PagesShaped
<1>2. CASE Change
  BY <1>2 DEF Change, InitialState, PagesShaped
<1>3. ASSUME NEW n \in Slots,
             \/ HandleLoadAgent(n) \/ HandleLoadAgentWithPasskey(n) \/ HandleConnectWallet(n)
             \/ LoadPrivyAgent(n) \/ SendChatMessage(n) \/ ChatAnswered(n)
      PROVE  demo'.tests = demo.tests
  BY <1>3 DEF HandleLoadAgent, HandleLoadAgentWithPasskey, HandleConnectWallet, LoadPrivyAgent,
              SendChatMessage, ChatAnswered, Loading, PagesShaped
<1>4. ASSUME NEW n \in Slots,
             \/ KeyBoots(n) \/ KeyRefused(n) \/ KeyRegistered(n) \/ KeyLoaded(n)
             \/ PasskeySignedIn(n) \/ PasskeyRefused(n) \/ PasskeyLoaded(n)
      PROVE  demo'.tests = demo.tests
  BY <1>4 DEF KeyBoots, KeyRefused, KeyRegistered, KeyLoaded, PasskeySignedIn, PasskeyRefused,
              PasskeyLoaded, SetupError, SetupDone, PagesShaped
<1>5. ASSUME NEW n \in Slots,
             \/ WalletRefused(n) \/ WalletVerified(n) \/ WalletLoaded(n)
             \/ SocialRefused(n) \/ SocialVerified(n) \/ SocialLoaded(n)
      PROVE  demo'.tests = demo.tests
  BY <1>5 DEF WalletRefused, WalletVerified, WalletLoaded, SocialRefused, SocialVerified,
              SocialLoaded, SetupDone, PagesShaped
<1> QED
  BY <1>1, <1>2, <1>3, <1>4, <1>5 DEF LoaderHandler

\* Any step keeps the results in order.
LEMMA TestsNext ==
  ASSUME BaseInv, TestsInv, [Next]_vars
  PROVE  TestsInv'
<1>1. ChainOK /\ ChainOK' /\ Grown
  BY BaseNext DEF BaseInv
<1>2. CASE UNCHANGED <<demo, services>> /\ Moves(RegisterKinds \cup PageKinds)
  <2>1. "tests" \notin RegisterKinds \cup PageKinds
    BY DEF RegisterKinds, PageKinds, MineKinds, VerifyKinds
  <2> QED
    BY <1>1, <1>2, <2>1, NoTestStep
<1>3. CASE DemoNext /\ UNCHANGED <<regVars, pagesVars>>
  <2>1. UNCHANGED <<agents, height>>
    BY <1>3 DEF DemoNext, chainVars
  <2>2. CASE LoaderHandler /\ UNCHANGED services
    <3>1. Moves(LoaderKinds) /\ "tests" \notin LoaderKinds
      BY <2>2, LoaderMoves DEF BaseInv, DemoOK, LoaderKinds
    <3>2. demo'.tests = demo.tests \/ demo'.tests = [t \in Tests |-> Idle]
      BY <2>2, LoadersLeaveTests DEF BaseInv
    <3> QED
      BY <1>1, <2>2, <3>1, <3>2, NoTestStep
  <2>3. CASE \E n \in Slots : (RunAllTests(n) \/ RunFakeAgent(n)) /\ UNCHANGED services
    BY <2>1, <2>3, TestsStart DEF RunAllTests, RunFakeAgent
  <2>4. CASE \E n \in Slots : TestStep(n)
    BY <2>1, <2>4, TestsStep
  <2> QED
    BY <1>3, <2>2, <2>3, <2>4, DemoParts
<1>4. CASE Quiet /\ ServicesMove
  <2>1. UNCHANGED <<demo, job, agents, height>>
    BY <1>4 DEF Quiet, browserVars
  <2> QED
    BY <1>4, <2>1, ResultsStill DEF TestsInv, At
<1> QED
  BY <1>2, <1>3, <1>4, DemoSees

\* A test that passed met a registered agent, or a service that remembers one.
THEOREM PassAlwaysVerified == Spec => []PassWasVerified
<1>1. Init => TestsInv
  BY DEF Init, DemoInit, DemoBlank, BrowserInit, TestsInv, ResultOK, Idle, At
<1>2. BaseInv /\ TestsInv /\ [Next]_vars => TestsInv'
  BY TestsNext
<1>3. TestsInv => PassWasVerified
  BY DEF TestsInv, ResultOK, WasSince, WasAgent, LivedSince, PassWasVerified
<1> QED
  BY <1>1, <1>2, <1>3, BaseAlways, PTL DEF Spec

-----------------------------------------------------------------------------
(* Who signs in the demo.                                                  *)

\* A browser that loads agents by key and by passkey only.
KeysOnly == scene.setups \subseteq {"private-key", "passkey"}

Loads(n) == At(n, "byKey") \/ At(n, "byPasskey")

\* What a load by key has done when it waits for the registry.
KeyLoadOK(j) ==
  /\ j.at \in {"registered", "info"} => demo.signer = j.key /\ ~ demo.viaPasskey
  /\ j.at = "info" => \E a \in agents : a.key = j.key

\* The agent that is shown, and who signs for it.
ShownOK ==
  demo.agent # None =>
    /\ \E a \in agents : a.key = demo.agent
    /\ demo.signer \in {demo.agent, None}
    /\ demo.viaPasskey /\ HasPrivateKey(demo.agent) => demo.signer = demo.agent

\* One load at a time, and nothing is shown until it has ended.
SignerInv ==
  /\ demo.setup \in {"private-key", "passkey"}
  /\ \A n \in Slots : ~ At(n, "byWallet") /\ ~ At(n, "bySocial")
  /\ \A m, n \in Slots : Loads(m) /\ Loads(n) => m = n
  /\ \A n \in Slots : Loads(n) => demo.loading = TRUE /\ demo.agent = None
  /\ \A n \in Slots : At(n, "byKey") => KeyLoadOK(job[n])
  /\ ShownOK

LoadKinds == {"byKey", "byPasskey", "byWallet", "bySocial"}

\* A step that starts no load and leaves the signer alone.
LEMMA SignerFrame ==
  ASSUME SignerInv, Grown, demo'.setup \in {"private-key", "passkey"},
         demo'.agent = demo.agent, demo'.loading = demo.loading,
         demo'.signer = demo.signer, demo'.viaPasskey = demo.viaPasskey,
         NEW kinds, Moves(kinds), kinds \cap LoadKinds = {},
         \A a \in agents : HasPrivateKey(a.key)' => HasPrivateKey(a.key)
  PROVE  SignerInv'
<1>1. \A n \in Slots : \A kind \in LoadKinds :
        At(n, kind)' => At(n, kind) /\ job'[n] = job[n]
  BY DEF Moves, At
<1>2. \A n \in Slots : Loads(n)' => Loads(n) /\ job'[n] = job[n]
  BY <1>1 DEF Loads, LoadKinds
<1>3. \A k : (\E a \in agents : a.key = k) => (\E a \in agents' : a.key = k)
  BY AgentsStay
<1>4. \A n \in Slots : At(n, "byKey")' => KeyLoadOK(job[n])'
  BY <1>1, <1>3 DEF LoadKinds, SignerInv, KeyLoadOK
<1>5. ShownOK'
  <2>1. \A k : (\E a \in agents : a.key = k) /\ HasPrivateKey(k)' => HasPrivateKey(k)
    OBVIOUS
  <2>2. demo.agent # None => (HasPrivateKey(demo.agent)' => HasPrivateKey(demo.agent))
    <3> SUFFICES ASSUME demo.agent # None, NEW k, k = demo.agent, HasPrivateKey(k)'
                 PROVE  HasPrivateKey(k)
      BY DEF HasPrivateKey
    <3> QED
      BY <2>1 DEF SignerInv, ShownOK
  <2> QED
    BY <1>3, <2>2 DEF SignerInv, ShownOK
<1>6. \A n \in Slots : ~ At(n, "byWallet")' /\ ~ At(n, "bySocial")'
  BY <1>1 DEF LoadKinds, SignerInv
<1>7. \A m, n \in Slots : Loads(m)' /\ Loads(n)' => m = n
  BY <1>2 DEF SignerInv
<1>8. \A n \in Slots : Loads(n)' => demo'.loading = TRUE /\ demo'.agent = None
  BY <1>2 DEF SignerInv
<1> QED
  BY <1>4, <1>5, <1>6, <1>7, <1>8 DEF SignerInv

\* A load that starts, when none is under way.
LEMMA LoadStarts ==
  ASSUME BaseInv, SignerInv, NEW n \in Slots, NEW k, Run(n, k), demo.loading # TRUE,
         demo'.agent = None, demo'.loading = TRUE, demo'.setup = demo.setup,
         \/ k.kind = "byKey" /\ k.at = "boot"
         \/ k.kind = "byPasskey"
  PROVE  SignerInv'
<1>1. job'[n] = k /\ \A m \in Slots : m # n => job'[m] = job[m]
  BY RunStep DEF BaseInv
<1>2. \A m \in Slots : ~ Loads(m)
  BY DEF SignerInv
<1>3. \A m \in Slots : m # n => ~ Loads(m)' /\ ~ At(m, "byWallet")' /\ ~ At(m, "bySocial")'
  BY <1>1, <1>2 DEF Loads, At, SignerInv
<1>4. ~ At(n, "byWallet")' /\ ~ At(n, "bySocial")' /\ (At(n, "byKey")' => job'[n].at = "boot")
  BY <1>1 DEF At
<1>5. \A m \in Slots : At(m, "byKey")' => KeyLoadOK(job[m])'
  BY <1>3, <1>4 DEF Loads, KeyLoadOK
<1>6. ShownOK'
  BY DEF ShownOK
<1>7. demo'.setup \in {"private-key", "passkey"}
  BY DEF SignerInv
<1> QED
  BY <1>3, <1>4, <1>5, <1>6, <1>7 DEF SignerInv

\* The load goes on.
LEMMA LoadGoesOn ==
  ASSUME BaseInv, SignerInv, NEW n \in Slots, Loads(n), NEW k, Run(n, k),
         demo'.agent = demo.agent, demo'.loading = demo.loading, demo'.setup = demo.setup,
         \/ k.kind = "byKey" /\ demo'.signer = k.key /\ demo'.viaPasskey # TRUE
              /\ (k.at = "info" => \E a \in agents' : a.key = k.key)
         \/ k.kind = "byPasskey"
  PROVE  SignerInv'
<1>1. job'[n] = k /\ \A m \in Slots : m # n => job'[m] = job[m]
  BY RunStep DEF BaseInv
<1>2. \A m \in Slots : m # n => ~ Loads(m)
  BY DEF SignerInv
<1>3. \A m \in Slots : m # n => ~ Loads(m)' /\ ~ At(m, "byWallet")' /\ ~ At(m, "bySocial")'
  BY <1>1, <1>2 DEF Loads, At, SignerInv
<1>4. ~ At(n, "byWallet")' /\ ~ At(n, "bySocial")'
  BY <1>1 DEF At
<1>5. At(n, "byKey")' => KeyLoadOK(job[n])'
  BY <1>1 DEF At, KeyLoadOK
<1>6. demo'.agent = None /\ demo'.loading = TRUE /\ demo'.setup \in {"private-key", "passkey"}
  BY DEF SignerInv
<1>7. ShownOK'
  BY <1>6 DEF ShownOK
<1> QED
  BY <1>3, <1>4, <1>5, <1>6, <1>7 DEF SignerInv, Loads

\* The load ends.
LEMMA LoadEnds ==
  ASSUME BaseInv, SignerInv, NEW n \in Slots, Loads(n), Done(n),
         demo'.setup = demo.setup, ShownOK'
  PROVE  SignerInv'
<1>1. job'[n] = NoJob /\ \A m \in Slots : m # n => job'[m] = job[m]
  BY DEF Done, BaseInv, JobsShaped
<1>2. \A m \in Slots : m # n => ~ Loads(m)
  BY DEF SignerInv
<1>3. \A m \in Slots : ~ Loads(m)' /\ ~ At(m, "byWallet")' /\ ~ At(m, "bySocial")'
  BY <1>1, <1>2 DEF Loads, At, SignerInv
<1>4. demo'.setup \in {"private-key", "passkey"}
  BY DEF SignerInv
<1> QED
  BY <1>3, <1>4 DEF SignerInv, Loads

\* The load by private key.
LEMMA KeySteps ==
  ASSUME BaseInv, SignerInv, UNCHANGED agents, NEW n \in Slots,
         \/ HandleLoadAgent(n) \/ KeyBoots(n) \/ KeyRefused(n) \/ KeyRegistered(n) \/ KeyLoaded(n)
  PROVE  SignerInv'
<1>1. CASE HandleLoadAgent(n)
  <2>1. PICK key : Run(n, [kind |-> "byKey", at |-> "boot", key |-> key])
    BY <1>1 DEF HandleLoadAgent
  <2> DEFINE k == [kind |-> "byKey", at |-> "boot", key |-> key]
  <2>2. k.kind = "byKey" /\ k.at = "boot" /\ Run(n, k)
    BY <2>1
  <2> HIDE DEF k
  <2>3. /\ demo'.agent = None /\ demo'.loading = TRUE /\ demo'.setup = demo.setup
        /\ demo.loading # TRUE
    BY <1>1 DEF HandleLoadAgent, Loading, BaseInv, PagesShaped
  <2> QED
    BY <2>2, <2>3, LoadStarts
<1>2. ASSUME At(n, "byKey")
      PROVE  DOMAIN job[n] = {"kind", "at", "key"} /\ job[n].kind = "byKey" /\ Loads(n)
  BY <1>2 DEF At, Loads, BaseInv, JobsShaped, Shaped
<1>3. CASE KeyBoots(n)
  <2> DEFINE k == [job[n] EXCEPT !.at = "registered"]
  <2>1. Run(n, k) /\ At(n, "byKey")
    BY <1>3 DEF KeyBoots
  <2>2. k.kind = "byKey" /\ k.at = "registered" /\ k.key = job[n].key
    BY <1>2, <2>1
  <2> HIDE DEF k
  <2>3. /\ demo'.agent = demo.agent /\ demo'.loading = demo.loading /\ demo'.setup = demo.setup
        /\ demo'.signer = job[n].key /\ demo'.viaPasskey = FALSE
    BY <1>3 DEF KeyBoots, BaseInv, PagesShaped
  <2> QED
    BY <1>2, <2>1, <2>2, <2>3, LoadGoesOn
<1>4. CASE KeyRegistered(n)
  <2> DEFINE k == [job[n] EXCEPT !.at = "info"]
  <2>1. Run(n, k) /\ At(n, "byKey") /\ UNCHANGED demo
    BY <1>4 DEF KeyRegistered
  <2>2. k.kind = "byKey" /\ k.at = "info" /\ k.key = job[n].key
    BY <1>2, <2>1
  <2> HIDE DEF k
  <2>3. \E a \in agents' : a.key = k.key
    BY <1>4, <2>2 DEF KeyRegistered, Registered, Alive
  <2>4. demo.signer = job[n].key /\ demo.viaPasskey # TRUE
    BY <1>4, <2>1 DEF KeyRegistered, SignerInv, KeyLoadOK
  <2> QED
    BY <1>2, <2>1, <2>2, <2>3, <2>4, LoadGoesOn
<1>5. CASE KeyRefused(n)
  <2>1. Loads(n) /\ Done(n) /\ demo.agent = None
    BY <1>2, <1>5 DEF KeyRefused, SignerInv
  <2>2. demo'.setup = demo.setup /\ demo'.agent = demo.agent
    BY <1>5 DEF KeyRefused, SetupError, BaseInv, PagesShaped
  <2> QED
    BY <2>1, <2>2, LoadEnds DEF ShownOK
<1>6. CASE KeyLoaded(n)
  <2>1. Loads(n) /\ Done(n) /\ KeyLoadOK(job[n]) /\ job[n].at = "info"
    BY <1>2, <1>6 DEF KeyLoaded, SignerInv
  <2>2. /\ demo'.setup = demo.setup /\ demo'.agent = job[n].key
        /\ demo'.signer = demo.signer /\ demo'.viaPasskey = demo.viaPasskey
    BY <1>6 DEF KeyLoaded, SetupDone, BaseInv, PagesShaped
  <2>3. ShownOK'
    BY <2>1, <2>2 DEF ShownOK, KeyLoadOK
  <2> QED
    BY <2>1, <2>2, <2>3, LoadEnds
<1> QED
  BY <1>1, <1>3, <1>4, <1>5, <1>6

\* The load by passkey, and the key that is typed in after it.
LEMMA PasskeySteps ==
  ASSUME BaseInv, SignerInv, UNCHANGED agents, NEW n \in Slots,
         \/ HandleLoadAgentWithPasskey(n) \/ PasskeySignedIn(n) \/ PasskeyRefused(n)
         \/ PasskeyLoaded(n)
  PROVE  SignerInv'
<1>1. CASE HandleLoadAgentWithPasskey(n)
  <2> DEFINE k == [kind |-> "byPasskey", smart |-> None]
  <2>1. k.kind = "byPasskey" /\ Run(n, k)
    BY <1>1 DEF HandleLoadAgentWithPasskey
  <2> HIDE DEF k
  <2>2. /\ demo'.agent = None /\ demo'.loading = TRUE /\ demo'.setup = demo.setup
        /\ demo.loading # TRUE
    BY <1>1 DEF HandleLoadAgentWithPasskey, Loading, BaseInv, PagesShaped
  <2> QED
    BY <2>1, <2>2, LoadStarts
<1>2. ASSUME At(n, "byPasskey")
      PROVE  DOMAIN job[n] = {"kind", "smart"} /\ job[n].kind = "byPasskey" /\ Loads(n)
  BY <1>2 DEF At, Loads, BaseInv, JobsShaped, Shaped
<1>3. CASE PasskeySignedIn(n)
  <2>1. PICK s : demo' = [demo EXCEPT !.smart = s] /\ Run(n, [job[n] EXCEPT !.smart = s])
    BY <1>3 DEF PasskeySignedIn
  <2> DEFINE k == [job[n] EXCEPT !.smart = s]
  <2>2. Run(n, k) /\ k.kind = "byPasskey" /\ Loads(n)
    BY <1>2, <1>3, <2>1 DEF PasskeySignedIn
  <2> HIDE DEF k
  <2>3. demo'.agent = demo.agent /\ demo'.loading = demo.loading /\ demo'.setup = demo.setup
    BY <2>1 DEF BaseInv, PagesShaped
  <2> QED
    BY <2>2, <2>3, LoadGoesOn
<1>4. CASE PasskeyRefused(n)
  <2>1. Loads(n) /\ Done(n) /\ demo.agent = None
    BY <1>2, <1>4 DEF PasskeyRefused, SignerInv
  <2>2. demo'.setup = demo.setup /\ demo'.agent = demo.agent
    BY <1>4 DEF PasskeyRefused, BaseInv, PagesShaped
  <2> QED
    BY <2>1, <2>2, LoadEnds DEF ShownOK
<1>5. CASE PasskeyLoaded(n)
  <2>1. PICK a \in Guarded(job[n].smart) :
          LET signs == CachedKey(a.key, job[n].smart) = a.key
              signer == IF signs THEN a.key ELSE None
              page == [demo EXCEPT !.viaPasskey = TRUE, !.ready = signs, !.signer = signer,
                                   !.key = signer, !.passkeyLoading = FALSE]
          IN /\ IF signs THEN SaveAgentPrivateKey(a.key, job[n].smart) ELSE UNCHANGED vault
             /\ SetupDone(page, a.key)
    BY <1>5 DEF PasskeyLoaded
  <2> DEFINE signs == CachedKey(a.key, job[n].smart) = a.key
             signer == IF signs THEN a.key ELSE None
             page == [demo EXCEPT !.viaPasskey = TRUE, !.ready = signs, !.signer = signer,
                                  !.key = signer, !.passkeyLoading = FALSE]
  <2>2. SetupDone(page, a.key) /\ (~ signs => UNCHANGED vault)
    BY <2>1
  <2>3. /\ DOMAIN page = DOMAIN demo /\ page.signer = signer /\ page.setup = demo.setup
    BY DEF BaseInv, PagesShaped
  <2> HIDE DEF page
  <2>4. demo'.agent = a.key /\ demo'.signer = signer /\ demo'.setup = demo.setup
    BY <2>2, <2>3 DEF SetupDone, BaseInv, PagesShaped
  <2>5. signs \/ ~ HasPrivateKey(a.key)
    BY DEF CachedKey
  <2>6. HasPrivateKey(a.key)' => signer = a.key
    BY <2>2, <2>5 DEF HasPrivateKey
  <2>7. a \in agents' /\ signer \in {a.key, None}
    BY DEF Guarded, Alive
  <2> HIDE DEF signer, signs
  <2>8. ShownOK'
    BY <2>4, <2>6, <2>7 DEF ShownOK, HasPrivateKey
  <2> QED
    BY <1>2, <1>5, <2>4, <2>8, LoadEnds DEF PasskeyLoaded
<1> QED
  BY <1>1, <1>3, <1>4, <1>5

\* The other handlers of the page.
LEMMA OtherSteps ==
  ASSUME BaseInv, BaseInv', SignerInv, KeysOnly, Grown, UNCHANGED agents,
         \/ ChooseSetup \/ HandleAttachPasskeyAgentKey \/ SocialLogin \/ SocialSignedIn \/ Change
         \/ \E n \in Slots :
              \/ SendChatMessage(n) \/ ChatAnswered(n)
              \/ HandleConnectWallet(n) \/ LoadPrivyAgent(n)
              \/ WalletRefused(n) \/ WalletVerified(n) \/ WalletLoaded(n)
              \/ SocialRefused(n) \/ SocialVerified(n) \/ SocialLoaded(n)
  PROVE  SignerInv'
<1> DEFINE same == /\ demo'.agent = demo.agent /\ demo'.loading = demo.loading
                   /\ demo'.signer = demo.signer /\ demo'.viaPasskey = demo.viaPasskey
                   /\ demo'.setup \in {"private-key", "passkey"}
                   /\ UNCHANGED vault
<1>1. ASSUME same, NEW kinds, Moves(kinds), kinds \cap LoadKinds = {}
      PROVE  SignerInv'
  BY <1>1, SignerFrame DEF HasPrivateKey
<1>2. CASE ChooseSetup \/ SocialSignedIn
  <2>1. same
    <3>1. CASE ChooseSetup
      <4>1. PICK m \in scene.setups \ {demo.setup} :
               demo' = [demo EXCEPT !.setup = m, !.effect = (m = "social")]
        BY <3>1 DEF ChooseSetup
      <4>2. m \in {"private-key", "passkey"}
        BY DEF KeysOnly
      <4> QED
        BY <3>1, <4>1, <4>2 DEF ChooseSetup, storeVars, BaseInv, PagesShaped
    <3>2. CASE SocialSignedIn
      BY <3>2 DEF SocialSignedIn, SignerInv, storeVars, BaseInv, PagesShaped
    <3> QED
      BY <1>2, <3>1, <3>2
  <2>2. Moves({})
    BY <1>2 DEF ChooseSetup, SocialSignedIn, Moves
  <2> QED
    BY <1>1, <2>1, <2>2
<1>3. ASSUME NEW n \in Slots, SendChatMessage(n) \/ ChatAnswered(n)
      PROVE  SignerInv'
  <2>1. same
    BY <1>3 DEF SendChatMessage, ChatAnswered, SignerInv, BaseInv, PagesShaped
  <2>2. Moves({"chat"})
    <3>1. CASE SendChatMessage(n)
      <4> DEFINE k == [kind |-> "chat", signer |-> IF demo.unlocked THEN demo.signer ELSE None]
      <4>1. Run(n, k) /\ Shaped(k) /\ k.kind \in {"chat"}
        BY <3>1 DEF SendChatMessage, Shaped
      <4> HIDE DEF k
      <4> QED
        BY <4>1, RunMoves DEF BaseInv
    <3>2. CASE ChatAnswered(n)
      BY <3>2, DoneMoves DEF ChatAnswered, BaseInv
    <3> QED
      BY <1>3, <3>1, <3>2
  <2> QED
    BY <1>1, <2>1, <2>2 DEF LoadKinds
<1>4. CASE SocialLogin \/ \E n \in Slots :
              \/ HandleConnectWallet(n) \/ LoadPrivyAgent(n)
              \/ WalletRefused(n) \/ WalletVerified(n) \/ WalletLoaded(n)
              \/ SocialRefused(n) \/ SocialVerified(n) \/ SocialLoaded(n)
  BY <1>4 DEF SocialLogin, HandleConnectWallet, LoadPrivyAgent, WalletRefused, WalletVerified,
              WalletLoaded, SocialRefused, SocialVerified, SocialLoaded, SignerInv
<1>5. CASE HandleAttachPasskeyAgentKey \/ Change
  <2>1. demo.agent # None /\ UNCHANGED job
    BY <1>5 DEF HandleAttachPasskeyAgentKey, Change
  <2>2. \A n \in Slots : ~ Loads(n)
    BY <2>1 DEF SignerInv
  <2>3. \A n \in Slots : ~ Loads(n)' /\ ~ At(n, "byWallet")' /\ ~ At(n, "bySocial")'
    BY <2>1, <2>2 DEF SignerInv, Loads, At
  <2>4. demo'.setup \in {"private-key", "passkey"} /\ ShownOK'
    <3>1. CASE HandleAttachPasskeyAgentKey
      <4>1. /\ demo'.setup = demo.setup /\ demo'.agent = demo.agent /\ demo'.signer = demo.agent
        BY <3>1 DEF HandleAttachPasskeyAgentKey, BaseInv, PagesShaped
      <4> QED
        BY <4>1 DEF SignerInv, ShownOK
    <3>2. CASE Change
      <4>1. demo'.setup = "private-key" /\ demo'.agent = None
        BY <3>2 DEF Change, InitialState, BaseInv, PagesShaped
      <4> QED
        BY <4>1 DEF ShownOK
    <3> QED
      BY <1>5, <3>1, <3>2
  <2> QED
    BY <2>3, <2>4 DEF SignerInv, Loads
<1> QED
  BY <1>2, <1>3, <1>4, <1>5

\* A step of the tests has nothing to do with the signer.
LEMMA TestsLeaveSigner ==
  ASSUME BaseInv, SignerInv, Grown, NEW n \in Slots,
         TestStep(n) \/ RunAllTests(n) \/ RunFakeAgent(n)
  PROVE  SignerInv'
<1>1. Moves({"tests"})
  BY TestMoves DEF BaseInv, DemoOK
<1>2. /\ demo'.agent = demo.agent /\ demo'.loading = demo.loading
      /\ demo'.signer = demo.signer /\ demo'.viaPasskey = demo.viaPasskey
      /\ demo'.setup = demo.setup /\ UNCHANGED vault
  <2>1. CASE TestStep(n)
    <3>1. (\E t : Advance(n, t)) \/ (\E t, status : Result(n, t, status))
      BY <2>1, TestParts
    <3>2. UNCHANGED vault
      BY <2>1 DEF TestStep
    <3>3. ASSUME NEW t, NEW status, Result(n, t, status)
          PROVE  /\ demo'.agent = demo.agent /\ demo'.loading = demo.loading
                 /\ demo'.signer = demo.signer /\ demo'.viaPasskey = demo.viaPasskey
                 /\ demo'.setup = demo.setup
      BY <3>3 DEF Result, BaseInv, PagesShaped
    <3> QED
      BY <3>1, <3>2, <3>3 DEF Advance
  <2>2. CASE RunAllTests(n) \/ RunFakeAgent(n)
    BY <2>2 DEF RunAllTests, RunFakeAgent, StartTests, BaseInv, PagesShaped
  <2> QED
    BY <2>1, <2>2
<1> QED
  BY <1>1, <1>2, SignerFrame DEF LoadKinds, SignerInv, HasPrivateKey

\* The registration page stores new keys only.
LEMMA RegisterVault ==
  ASSUME BaseInv, RegisterNext
  PROVE  \A k : HasPrivateKey(k)' => HasPrivateKey(k) \/ k \in scene.fresh \ made
<1>1. CASE UNCHANGED vault
  BY <1>1 DEF HasPrivateKey
<1>2. CASE \E k \in scene.fresh \ made : \E guardian : SaveAgentPrivateKey(k, guardian)
  BY <1>2, SaveStep DEF BaseInv
<1>3. ASSUME NEW n \in Slots, PasskeyCreated(n) \/ CompletePrivy(n)
      PROVE  \/ UNCHANGED vault
             \/ \E k \in scene.fresh \ made : \E guardian : SaveAgentPrivateKey(k, guardian)
  BY <1>3 DEF PasskeyCreated, CompletePrivy, Generate, KeepSmartKey
<1>4. CASE RegisterHandler
  BY <1>1, <1>2, <1>3, <1>4
     DEF RegisterHandler, WizardComplete, BackToWizard, BackToConnect, Connect, WalletFreeStart,
         SmartWalletStart, Ed25519ValidateKey, PollRegistry, SetCard, Connected, ShowCode,
         SignFails, Ed25519Challenged, PollAnswered, CardAgentRead, CardFails, PrivyStart, SignIn,
         Ed25519SubmitSignature, SocketSuccess, Reload, storeVars
<1>5. CASE \E n \in Slots : CardWritten(n)
  BY <1>1, <1>5 DEF CardWritten, storeVars
<1>6. CASE Scan("register", reg.app)
  BY <1>1, <1>6 DEF Scan
<1> QED
  BY <1>4, <1>5, <1>6 DEF RegisterNext

\* No step elsewhere stores the key of an agent.
LEMMA KeysElsewhere ==
  ASSUME BaseInv, [Next]_vars
  PROVE  \/ \A a \in agents : HasPrivateKey(a.key)' => HasPrivateKey(a.key)
         \/ DemoNext /\ UNCHANGED <<regVars, pagesVars>>
<1>1. CASE RegisterNext
  BY <1>1, RegisterVault DEF BaseInv, KeysOK
<1>2. CASE UNCHANGED vault
  BY <1>2 DEF HasPrivateKey
<1>3. CASE PagesNext /\ UNCHANGED <<regVars, demoVars>>
  BY <1>2, <1>3, PagesStep
<1>4. CASE /\ ProofArrives \/ OthersRegister \/ OthersDeregister
           /\ UNCHANGED <<regVars, pagesVars, demoVars>>
  BY <1>2, <1>4, WorldStep
<1>5. CASE UNCHANGED vars
  BY <1>2, <1>5 DEF vars, browserVars
<1>6. CASE UNCHANGED <<browserVars, regVars, pagesVars, demo>>
  BY <1>2, <1>6 DEF browserVars
<1> QED
  BY <1>1, <1>3, <1>4, <1>5, <1>6 DEF Next

\* Any step leaves the signer in order.
LEMMA SignerNext ==
  ASSUME BaseInv, KeysOnly, SignerInv, [Next]_vars
  PROVE  SignerInv'
<1>1. BaseInv' /\ Grown
  BY BaseNext
<1>2. CASE DemoNext /\ UNCHANGED <<regVars, pagesVars>>
  <2>1. UNCHANGED agents
    BY <1>2 DEF DemoNext, chainVars
  <2>2. CASE LoaderHandler
    BY <1>1, <2>1, <2>2, KeySteps, PasskeySteps, OtherSteps DEF LoaderHandler
  <2>3. CASE \E n \in Slots : TestStep(n) \/ RunAllTests(n) \/ RunFakeAgent(n)
    BY <1>1, <2>3, TestsLeaveSigner
  <2> QED
    BY <1>2, <2>2, <2>3, DemoParts
<1>3. CASE ~ (DemoNext /\ UNCHANGED <<regVars, pagesVars>>)
  <2>1. (RegisterKinds \cup PageKinds) \cap LoadKinds = {}
    BY DEF RegisterKinds, PageKinds, MineKinds, VerifyKinds, LoadKinds
  <2>2. \A a \in agents : HasPrivateKey(a.key)' => HasPrivateKey(a.key)
    BY <1>3, KeysElsewhere
  <2>3. CASE UNCHANGED demo /\ Moves(RegisterKinds \cup PageKinds)
    BY <1>1, <2>1, <2>2, <2>3, SignerFrame DEF SignerInv
  <2>4. CASE Quiet
    <3>1. UNCHANGED demo /\ Moves({})
      BY <2>4, BaseStutter DEF Quiet
    <3> QED
      BY <1>1, <2>2, <3>1, SignerFrame DEF SignerInv
  <2> QED
    BY <1>3, <2>3, <2>4, DemoSees
<1> QED
  BY <1>2, <1>3

\* The shown agent's key is the one that signs.
THEOREM ShownAgentAlwaysSigns == Spec => []ShownAgentSigns
<1>1. Init => (KeysOnly => SignerInv)
  BY DEF Init, DemoInit, DemoBlank, BrowserInit, SignerInv, ShownOK, Loads, At
<1>2. BaseInv /\ (KeysOnly => SignerInv) /\ [Next]_vars => (KeysOnly => SignerInv)'
  <2> SUFFICES ASSUME BaseInv, KeysOnly => SignerInv, [Next]_vars, KeysOnly'
               PROVE  SignerInv'
    OBVIOUS
  <2>1. UNCHANGED scene
    BY DEF Next, RegisterNext, PagesNext, DemoNext, ProofArrives, OthersRegister, OthersDeregister,
           Scan, vars, browserVars, OthersAsk, Forget
  <2> QED
    BY <2>1, SignerNext DEF KeysOnly
<1>3. (KeysOnly => SignerInv) => ShownAgentSigns
  BY DEF KeysOnly, SignerInv, ShownOK, ShownAgentSigns
<1> QED
  BY <1>1, <1>2, <1>3, BaseAlways, PTL DEF Spec


-----------------------------------------------------------------------------
(* What "Verify" shows.                                                    *)

\* Any step, as "My Agents" and "Verify" see it.
LEMMA PagesSee ==
  ASSUME BaseInv, [Next]_vars
  PROVE  \/ VerifyHandler /\ UNCHANGED <<agents, height, mine>> /\ Moves(VerifyKinds)
         \/ MineStep /\ UNCHANGED <<agents, height, ver>> /\ Moves(MineKinds)
         \/ UNCHANGED <<mine, ver>> /\ Moves(RegisterKinds \cup DemoKinds \cup {"userOp", "mint"})
<1> DEFINE others == RegisterKinds \cup DemoKinds \cup {"userOp", "mint"}
<1>1. JobsShaped /\ PagesShaped /\ VerOK /\ ChainOK
  BY DEF BaseInv
<1>2. CASE PagesNext /\ UNCHANGED <<regVars, demoVars>>
  <2>1. CASE MineStep /\ UNCHANGED <<chainVars, ver>>
    BY <1>1, <2>1, MineMoves DEF MineOK, chainVars
  <2>2. CASE VerifyHandler /\ UNCHANGED <<chainVars, mine>>
    BY <1>1, <2>2, VerifyMoves DEF VerifyOK, chainVars
  <2>3. CASE Transaction /\ UNCHANGED pagesVars
    <3>1. Moves({"userOp", "mint"})
      BY <1>1, <2>3, TransactionMoves
    <3> QED
      BY <2>3, <3>1, MovesMore DEF pagesVars
  <2>4. CASE Scan("verify", ver.app) /\ UNCHANGED pagesVars
    BY <1>1, <2>4, RestMoves DEF Scan, pagesVars
  <2> QED
    BY <1>2, <2>1, <2>2, <2>3, <2>4 DEF PagesNext, MineStep
<1>3. CASE RegisterNext /\ UNCHANGED <<pagesVars, demoVars>>
  <2>1. Moves(RegisterKinds)
    BY <1>3, RegisterStep
  <2> QED
    BY <1>3, <2>1, MovesMore DEF pagesVars
<1>4. CASE DemoNext /\ UNCHANGED <<regVars, pagesVars>>
  <2>1. Moves(DemoKinds)
    BY <1>1, <1>4, DemoMoves DEF DemoOK
  <2> QED
    BY <1>4, <2>1, MovesMore DEF pagesVars
<1>5. CASE /\ ProofArrives \/ OthersRegister \/ OthersDeregister
           /\ UNCHANGED <<regVars, pagesVars, demoVars>>
  <2>1. UNCHANGED job
    BY <1>5, WorldStep
  <2> QED
    BY <1>1, <1>5, <2>1, RestMoves DEF pagesVars
<1>6. CASE UNCHANGED vars
  BY <1>1, <1>6, RestMoves DEF vars, browserVars, pagesVars
<1>7. CASE UNCHANGED <<browserVars, regVars, pagesVars, demo>>
  BY <1>1, <1>7, RestMoves DEF browserVars, pagesVars
<1> QED
  BY <1>2, <1>3, <1>4, <1>5, <1>6, <1>7 DEF Next

\* An agent that lives after a step and was born before it lived before it.
LEMMA AliveBefore ==
  ASSUME ChainOK, ChainOK', Grown
  PROVE  \A b \in Alive', s \in Nat :
           s <= height /\ b.born <= s => \E a \in Alive : Kept(a, b)
<1> SUFFICES ASSUME NEW b \in Alive', NEW s \in Nat, s <= height, b.born <= s
             PROVE  \E a \in Alive : Kept(a, b)
  OBVIOUS
<1>1. b \in agents' /\ b.died = 0 /\ b.born \in Nat /\ height \in Nat
  BY DEF Alive, ChainOK, AgentSet
<1>2. PICK a \in agents : Kept(a, b)
  BY <1>1 DEF Grown
<1>3. a.died = 0
  BY <1>1, <1>2 DEF Kept
<1> QED
  BY <1>2, <1>3 DEF Alive

\* An agent that has lived since some moment is kept as one that has.
LEMMA PastKept ==
  ASSUME ChainOK, ChainOK', Grown
  PROVE  \A a \in agents, s \in Nat :
           s <= height /\ LivedSince(a, s) => \E b \in agents' : Kept(a, b) /\ LivedSince(b, s)
<1> SUFFICES ASSUME NEW a \in agents, NEW s \in Nat, s <= height, LivedSince(a, s)
             PROVE  \E b \in agents' : Kept(a, b) /\ LivedSince(b, s)
  OBVIOUS
<1>1. PICK b \in agents' : Kept(a, b)
  BY DEF Grown
<1>2. a.died \in Nat /\ b.died \in Nat /\ height \in Nat
  BY DEF ChainOK, AgentSet
<1>3. LivedSince(b, s)
  BY <1>1, <1>2 DEF Kept, LivedSince
<1> QED
  BY <1>1, <1>3

\* The registry answers with the agent that is asked for.
LEMMA Answered ==
  ASSUME ChainOK
  PROVE  /\ \A k : Registered(k) => AgentOf(k) \in Alive /\ AgentOf(k).key = k
         /\ \A a \in Alive : AgentOf(a.key) = a
         /\ \A a \in agents : AgentById(a.id) = a
         /\ \A id : IsAlive(id) => AgentById(id) \in Alive /\ AgentById(id).id = id
<1>1. ASSUME NEW k, Registered(k)
      PROVE  AgentOf(k) \in Alive /\ AgentOf(k).key = k
  BY <1>1 DEF Registered, AgentOf
<1>2. ASSUME NEW a \in Alive
      PROVE  AgentOf(a.key) = a
  BY <1>1 DEF ChainOK, Registered
<1>3. ASSUME NEW a \in agents
      PROVE  AgentById(a.id) = a
  BY DEF ChainOK, AgentById
<1>4. ASSUME NEW id, IsAlive(id)
      PROVE  AgentById(id) \in Alive /\ AgentById(id).id = id
  BY <1>3, <1>4 DEF IsAlive, Alive
<1> QED
  BY <1>1, <1>2, <1>3, <1>4

\* What a verification knows at each of its reads.
VerifyJobOK(j) ==
  /\ j.since \in Nat /\ j.since <= height
  /\ j.verified => WasAgent(j.key, j.since)
  /\ j.at # "verified" =>
       \A a \in Alive : a.key = j.key /\ a.born <= j.since => j.verified
  /\ j.at # "guardian" => j.owner = None
  /\ j.at \in {"owner", "guardian"} =>
       /\ \E a \in agents : /\ a.id = j.id /\ a.key = j.key /\ LivedSince(a, j.since)
                            /\ j.at = "guardian" => a.owner = j.owner
       /\ \A a \in Alive : a.key = j.key /\ a.born <= j.since => a.id = j.id
  /\ j.at = "nothing" /\ j.whole =>
       ~ \E a \in Alive : a.key = j.key /\ a.born <= j.since

\* What the page shows.
InfoOK(info) ==
  /\ info.since \in Nat /\ info.since <= height
  /\ info.verified => WasAgent(info.key, info.since)
  /\ info.owner # None => \E a \in agents :
       /\ a.id = info.id /\ a.key = info.key /\ a.owner = info.owner
       /\ LivedSince(a, info.since)
       /\ a.died = 0 /\ info.whole => a.guardian = info.guardian
  /\ \A a \in Alive : a.key = info.key /\ a.born <= info.since =>
       info.verified /\ (info.whole => info.id = a.id)

InfoInv ==
  /\ ver.info # None => InfoOK(ver.info)
  /\ \A n \in Slots : At(n, "verify") => VerifyJobOK(job[n])

\* Time leaves a verification as good as it was.
LEMMA VerifyStays ==
  ASSUME ChainOK, ChainOK', Grown
  PROVE  \A j : VerifyJobOK(j) => VerifyJobOK(j)'
<1> SUFFICES ASSUME NEW j, VerifyJobOK(j)
             PROVE  VerifyJobOK(j)'
  OBVIOUS
<1>1. j.since \in Nat /\ j.since <= height /\ height' >= height /\ height \in Nat /\ height' \in Nat
  BY DEF VerifyJobOK, Grown, ChainOK
<1>2. j.verified => WasAgent(j.key, j.since)'
  BY <1>1, PastStays DEF VerifyJobOK
<1>3. \A b \in Alive' : b.born <= j.since =>
        \E a \in Alive : a.id = b.id /\ a.key = b.key /\ a.born = b.born
  BY <1>1, AliveBefore DEF Kept
<1>4. \A a \in agents : LivedSince(a, j.since) =>
        \E b \in agents' : /\ b.id = a.id /\ b.key = a.key /\ b.owner = a.owner
                           /\ LivedSince(b, j.since)
  BY <1>1, PastKept DEF Kept
<1> QED
  BY <1>1, <1>2, <1>3, <1>4 DEF VerifyJobOK

\* And what is shown.
LEMMA InfoStays ==
  ASSUME ChainOK, ChainOK', Grown
  PROVE  \A info : InfoOK(info) => InfoOK(info)'
<1> SUFFICES ASSUME NEW info, InfoOK(info)
             PROVE  InfoOK(info)'
  OBVIOUS
<1>1. /\ info.since \in Nat /\ info.since <= height
      /\ height' >= height /\ height \in Nat /\ height' \in Nat
  BY DEF InfoOK, Grown, ChainOK
<1>2. info.verified => WasAgent(info.key, info.since)'
  BY <1>1, PastStays DEF InfoOK
<1>3. \A b \in Alive' : b.born <= info.since =>
        \E a \in Alive : a.id = b.id /\ a.key = b.key /\ a.born = b.born
  BY <1>1, AliveBefore DEF Kept
<1>4. \A a \in agents : LivedSince(a, info.since) =>
        \E b \in agents' : /\ b.id = a.id /\ b.key = a.key /\ b.owner = a.owner
                           /\ b.guardian = a.guardian /\ (b.died = 0 => a.died = 0)
                           /\ LivedSince(b, info.since)
  BY <1>1, PastKept DEF Kept
<1> QED
  BY <1>1, <1>2, <1>3, <1>4 DEF InfoOK


\* What a step must show.
LEMMA InfoFrame ==
  ASSUME JobsShaped, InfoInv, ChainOK, ChainOK', Grown,
         ver'.info \in {ver.info, None} \/ \E info : InfoOK(info) /\ ver'.info = info,
         NEW moved \in SUBSET Slots,
         \A n \in Slots \ moved :
           job'[n] = job[n] \/ job'[n] = NoJob \/ job'[n].kind # "verify",
         \A n \in moved : \E k : VerifyJobOK(k) /\ job'[n] = k
  PROVE  InfoInv'
<1>1. ver'.info # None => InfoOK(ver.info)'
  <2>1. ASSUME NEW info, InfoOK(info), ver'.info = info
        PROVE  InfoOK(ver.info)'
    <3>1. InfoOK(info)'
      BY <2>1, InfoStays
    <3> QED
      BY <2>1, <3>1 DEF InfoOK
  <2> QED
    BY <2>1 DEF InfoInv
<1>2. ASSUME NEW n \in Slots, At(n, "verify")'
      PROVE  VerifyJobOK(job[n])'
  <2>1. \E k : VerifyJobOK(k) /\ job'[n] = k
    BY <1>2 DEF InfoInv, At
  <2>2. PICK k : VerifyJobOK(k) /\ job'[n] = k
    BY <2>1
  <2>3. VerifyJobOK(k)'
    BY <2>2, VerifyStays
  <2> QED
    BY <2>2, <2>3 DEF VerifyJobOK
<1> QED
  BY <1>1, <1>2 DEF InfoInv

\* A verification starts.
LEMMA VerifyBegins ==
  ASSUME BaseInv, InfoInv, ChainOK', Grown, NEW n \in Slots, NEW page, NEW key,
         StartVerify(n, page, key), DOMAIN page = DOMAIN ver
  PROVE  InfoInv'
<1> DEFINE k == [kind |-> "verify", at |-> "verified", key |-> key, verified |-> FALSE, id |-> 0,
                 owner |-> None, whole |-> TRUE, since |-> height]
<1>1. Run(n, k) /\ ver'.info = None
  BY DEF StartVerify, BaseInv, PagesShaped
<1>2. VerifyJobOK(k)
  BY DEF VerifyJobOK, BaseInv, ChainOK
<1> HIDE DEF k
<1>3. job'[n] = k /\ \A m \in Slots : m # n => job'[m] = job[m]
  BY <1>1, RunStep DEF BaseInv
<1> DEFINE moved == {n}
<1>4. moved \in SUBSET Slots
  OBVIOUS
<1>5. /\ \A m \in Slots \ moved : job'[m] = job[m]
      /\ \A m \in moved : \E l : VerifyJobOK(l) /\ job'[m] = l
  BY <1>2, <1>3
<1> HIDE DEF moved
<1> QED
  BY <1>1, <1>4, <1>5, InfoFrame DEF BaseInv

\* It goes on.
LEMMA VerifyGoesOn ==
  ASSUME BaseInv, InfoInv, ChainOK', Grown, NEW n \in Slots, NEW k, Run(n, k), VerifyJobOK(k),
         UNCHANGED ver
  PROVE  InfoInv'
<1>1. job'[n] = k /\ \A m \in Slots : m # n => job'[m] = job[m]
  BY RunStep DEF BaseInv
<1> DEFINE moved == {n}
<1>2. moved \in SUBSET Slots
  OBVIOUS
<1>3. /\ \A m \in Slots \ moved : job'[m] = job[m]
      /\ \A m \in moved : \E l : VerifyJobOK(l) /\ job'[m] = l
  BY <1>1
<1> HIDE DEF moved
<1> QED
  BY <1>2, <1>3, InfoFrame DEF BaseInv

\* It ends, or something else happens on the page.
LEMMA VerifyRests ==
  ASSUME BaseInv, InfoInv, ChainOK', Grown,
         \A n \in Slots : job'[n] = job[n] \/ job'[n] = NoJob \/ job'[n].kind # "verify",
         ver'.info \in {ver.info, None} \/ \E info : InfoOK(info) /\ ver'.info = info
  PROVE  InfoInv'
<1>1. /\ \A n \in Slots \ {} : job'[n] = job[n] \/ job'[n] = NoJob \/ job'[n].kind # "verify"
      /\ \A n \in {} : \E k : VerifyJobOK(k) /\ job'[n] = k
      /\ {} \in SUBSET Slots
  OBVIOUS
<1> QED
  BY <1>1, InfoFrame DEF BaseInv

\* The first read.
LEMMA ReadVerifiedStep ==
  ASSUME BaseInv, InfoInv, ChainOK', Grown, NEW n \in Slots, ReadVerified(n)
  PROVE  InfoInv'
<1> DEFINE j == job[n]
           k == [j EXCEPT !.at = "id", !.verified = Registered(j.key)]
<1>1. Run(n, k) /\ UNCHANGED ver /\ At(n, "verify") /\ j.at = "verified"
  BY DEF ReadVerified
<1>2. /\ DOMAIN j = {"kind", "at", "key", "verified", "id", "owner", "whole", "since"}
      /\ VerifyJobOK(j)
  BY <1>1 DEF BaseInv, JobsShaped, Shaped, At, InfoInv
<1>3. /\ k.at = "id" /\ k.key = j.key /\ k.verified = Registered(j.key)
      /\ k.owner = j.owner /\ k.since = j.since
  BY <1>2
<1> HIDE DEF k, j
<1>4. Registered(j.key) => WasAgent(j.key, j.since)
  BY DEF Registered, WasAgent, LivedSince, Alive
<1>5. \A a \in Alive : a.key = j.key => Registered(j.key)
  BY DEF Registered
<1>6. VerifyJobOK(k)
  BY <1>1, <1>2, <1>3, <1>4, <1>5 DEF VerifyJobOK
<1> QED
  BY <1>1, <1>6, VerifyGoesOn

\* The second: the agent's number.
LEMMA ReadAgentIdStep ==
  ASSUME BaseInv, InfoInv, ChainOK', Grown, NEW n \in Slots, ReadAgentId(n)
  PROVE  InfoInv'
<1> DEFINE j == job[n]
           k == [j EXCEPT !.at = "owner", !.id = AgentOf(j.key).id]
<1>1. At(n, "verify") /\ j.at = "id"
  BY DEF ReadAgentId
<1>2. /\ DOMAIN j = {"kind", "at", "key", "verified", "id", "owner", "whole", "since"}
      /\ VerifyJobOK(j)
  BY <1>1 DEF BaseInv, JobsShaped, Shaped, At, InfoInv
<1>3. CASE Registered(j.key) /\ Run(n, k) /\ UNCHANGED ver
  <2>1. /\ k.at = "owner" /\ k.key = j.key /\ k.verified = j.verified
        /\ k.owner = j.owner /\ k.since = j.since /\ k.id = AgentOf(j.key).id
    BY <1>2
  <2> HIDE DEF k, j
  <2>2. AgentOf(j.key) \in Alive /\ AgentOf(j.key).key = j.key
    BY <1>3, Answered DEF BaseInv
  <2>3. \A a \in Alive : a.key = j.key => a = AgentOf(j.key)
    BY Answered DEF BaseInv
  <2>4. /\ AgentOf(j.key) \in agents /\ LivedSince(AgentOf(j.key), j.since)
    BY <2>2 DEF Alive, LivedSince
  <2>5. VerifyJobOK(k)
    BY <1>1, <1>2, <2>1, <2>2, <2>3, <2>4 DEF VerifyJobOK
  <2> QED
    BY <1>3, <2>5, VerifyGoesOn
<1>4. CASE /\ ~ Registered(j.key) /\ Done(n)
           /\ ver' = [ver EXCEPT !.info = Unregistered(j), !.loading = FALSE]
  <2> DEFINE info == Unregistered(j)
  <2>1. ver'.info = info
    BY <1>4 DEF BaseInv, PagesShaped
  <2>2. InfoOK(info)
    BY <1>2, <1>4 DEF InfoOK, Unregistered, Registered, VerifyJobOK
  <2>3. \A m \in Slots : job'[m] = job[m] \/ job'[m] = NoJob
    BY <1>4 DEF Done, BaseInv, JobsShaped
  <2> HIDE DEF info
  <2> QED
    BY <2>1, <2>2, <2>3, VerifyRests
<1> QED
  BY <1>3, <1>4 DEF ReadAgentId

\* The third: its owner.
LEMMA ReadOwnerStep ==
  ASSUME BaseInv, InfoInv, ChainOK', Grown, NEW n \in Slots, ReadOwner(n)
  PROVE  InfoInv'
<1> DEFINE j == job[n]
           k == [j EXCEPT !.at = "guardian", !.owner = AgentById(j.id).owner]
           l == [j EXCEPT !.at = "nothing", !.whole = ~ IsAlive(j.id)]
<1>1. At(n, "verify") /\ j.at = "owner" /\ UNCHANGED ver
  BY DEF ReadOwner
<1>2. /\ DOMAIN j = {"kind", "at", "key", "verified", "id", "owner", "whole", "since"}
      /\ VerifyJobOK(j)
  BY <1>1 DEF BaseInv, JobsShaped, Shaped, At, InfoInv
<1>3. CASE Run(n, k)
  <2>1. /\ k.at = "guardian" /\ k.key = j.key /\ k.verified = j.verified
        /\ k.owner = AgentById(j.id).owner /\ k.since = j.since /\ k.id = j.id
    BY <1>2
  <2> HIDE DEF k, j
  <2>2. \A a \in agents : a.id = j.id => a.owner = k.owner
    BY <2>1, Answered DEF BaseInv
  <2>3. VerifyJobOK(k)
    BY <1>1, <1>2, <2>1, <2>2 DEF VerifyJobOK
  <2> QED
    BY <1>1, <1>3, <2>3, VerifyGoesOn
<1>4. CASE Run(n, l)
  <2>1. /\ l.at = "nothing" /\ l.key = j.key /\ l.verified = j.verified
        /\ l.owner = j.owner /\ l.since = j.since /\ l.id = j.id /\ l.whole = ~ IsAlive(j.id)
    BY <1>2
  <2> HIDE DEF l, j
  <2>2. \A a \in Alive : a.id = j.id => IsAlive(j.id)
    BY DEF IsAlive
  <2>3. VerifyJobOK(l)
    BY <1>1, <1>2, <2>1, <2>2 DEF VerifyJobOK
  <2> QED
    BY <1>1, <1>4, <2>3, VerifyGoesOn
<1> QED
  BY <1>3, <1>4 DEF ReadOwner

\* The last, and the page shows what was read.
LEMMA ShowInfoStep ==
  ASSUME BaseInv, InfoInv, ChainOK', Grown, NEW n \in Slots, ShowInfo(n)
  PROVE  InfoInv'
<1> DEFINE j == job[n]
           lives == j.at = "guardian" /\ IsAlive(j.id)
           info(guardian, whole) ==
             [key |-> j.key, id |-> IF j.owner = None THEN 0 ELSE j.id, verified |-> j.verified,
              owner |-> j.owner, guardian |-> guardian, mode |-> ModeOf(j.key, j.owner, guardian),
              since |-> j.since, whole |-> whole]
<1>1. At(n, "verify") /\ j.at \in {"guardian", "nothing"} /\ Done(n)
  BY DEF ShowInfo
<1>2. VerifyJobOK(j)
  BY <1>1 DEF At, InfoInv
<1>3. \/ ver' = [ver EXCEPT !.loading = FALSE,
                            !.info = info(IF lives THEN AgentById(j.id).guardian ELSE None, j.whole)]
      \/ ver' = [ver EXCEPT !.loading = FALSE, !.info = info(None, FALSE)]
  BY DEF ShowInfo
<1>4. \A m \in Slots : job'[m] = job[m] \/ job'[m] = NoJob
  BY <1>1 DEF Done, BaseInv, JobsShaped
<1>5. ASSUME NEW guardian, NEW whole, whole => j.whole,
             j.at = "guardian" /\ whole =>
               \A a \in agents : a.id = j.id /\ a.died = 0 => guardian = a.guardian
      PROVE  InfoOK(info(guardian, whole))
  <2> DEFINE i == info(guardian, whole)
  <2> SUFFICES InfoOK(i)
    OBVIOUS
  <2>1. /\ i.key = j.key /\ i.id = (IF j.owner = None THEN 0 ELSE j.id) /\ i.verified = j.verified
        /\ i.owner = j.owner /\ i.guardian = guardian /\ i.since = j.since /\ i.whole = whole
    OBVIOUS
  <2> HIDE DEF info, j
  <2>2. i.since \in Nat /\ i.since <= height
    BY <1>2, <2>1 DEF VerifyJobOK
  <2>3. i.verified => WasAgent(i.key, i.since)
    BY <1>2, <2>1 DEF VerifyJobOK
  <2>4. CASE j.at = "guardian" /\ j.owner # None
    <3>1. PICK a \in agents : a.id = j.id /\ a.key = j.key /\ LivedSince(a, j.since)
                              /\ a.owner = j.owner
      BY <1>2, <2>4 DEF VerifyJobOK
    <3>2. i.id = j.id /\ (a.died = 0 /\ i.whole => a.guardian = i.guardian)
      BY <1>5, <2>1, <2>4, <3>1
    <3>3. \A b \in Alive : b.key = i.key /\ b.born <= i.since => i.verified /\ i.id = b.id
      BY <1>2, <2>1, <2>4, <3>2 DEF VerifyJobOK
    <3> HIDE DEF i
    <3> QED
      BY <2>1, <2>2, <2>3, <3>1, <3>2, <3>3 DEF InfoOK
  <2>5. CASE j.at = "nothing"
    <3>1. i.owner = None
      BY <1>2, <2>1, <2>5 DEF VerifyJobOK
    <3>2. \A b \in Alive : b.key = i.key /\ b.born <= i.since => i.verified /\ ~ i.whole
      BY <1>2, <1>5, <2>1, <2>5 DEF VerifyJobOK
    <3> HIDE DEF i
    <3> QED
      BY <2>2, <2>3, <3>1, <3>2 DEF InfoOK
  <2>6. CASE j.at = "guardian" /\ j.owner = None
    <3>1. PICK a \in agents : a.owner = None
      BY <1>2, <2>6 DEF VerifyJobOK
    <3>2. a.owner \in Addresses
      BY <3>1 DEF BaseInv, ChainOK, AgentSet
    <3> QED
      BY <3>1, <3>2, BrowserAssumption
  <2> QED
    BY <1>1, <2>4, <2>5, <2>6
<1>6. InfoOK(info(IF lives THEN AgentById(j.id).guardian ELSE None, j.whole))
  <2> DEFINE guardian == IF lives THEN AgentById(j.id).guardian ELSE None
  <2>1. j.at = "guardian" =>
          \A a \in agents : a.id = j.id /\ a.died = 0 => guardian = a.guardian
    <3> SUFFICES ASSUME j.at = "guardian", NEW a \in agents, a.id = j.id, a.died = 0
                 PROVE  guardian = a.guardian
      OBVIOUS
    <3>1. AgentById(j.id) = a
      BY Answered DEF BaseInv
    <3>2. IsAlive(j.id)
      BY DEF IsAlive, Alive
    <3> QED
      BY <3>1, <3>2
  <2> HIDE DEF guardian, info
  <2>2. InfoOK(info(guardian, j.whole))
    BY <1>5, <2>1
  <2> QED
    BY <2>2 DEF guardian
<1>7. InfoOK(info(None, FALSE))
  <2> HIDE DEF info
  <2> QED
    BY <1>5
<1>8. \E i : InfoOK(i) /\ ver'.info = i
  <2> DEFINE i1 == info(IF lives THEN AgentById(j.id).guardian ELSE None, j.whole)
             i2 == info(None, FALSE)
  <2>1. InfoOK(i1) /\ InfoOK(i2)
    BY <1>6, <1>7
  <2>2. \/ ver' = [ver EXCEPT !.loading = FALSE, !.info = i1]
        \/ ver' = [ver EXCEPT !.loading = FALSE, !.info = i2]
    BY <1>3
  <2> HIDE DEF i1, i2
  <2>3. ver'.info \in {i1, i2}
    BY <2>2 DEF BaseInv, PagesShaped
  <2> QED
    BY <2>1, <2>3
<1> QED
  BY <1>4, <1>8, VerifyRests

\* A handler of "Verify".
LEMMA VerifyKeeps ==
  ASSUME BaseInv, InfoInv, ChainOK', Grown, VerifyHandler
  PROVE  InfoInv'
<1>1. PagesShaped
  BY DEF BaseInv
<1>2. ASSUME NEW n \in Slots, Done(n), ver'.info = ver.info
      PROVE  InfoInv'
  <2>1. \A m \in Slots : job'[m] = job[m] \/ job'[m] = NoJob
    BY <1>2 DEF Done, BaseInv, JobsShaped
  <2> QED
    BY <1>2, <2>1, VerifyRests
<1>3. ASSUME NEW n \in Slots, LookupAgent(n) \/ HandleDeregisterSuccess(n)
      PROVE  InfoInv'
  <2>1. \A app : DOMAIN [ver EXCEPT !.app = app] = DOMAIN ver
    BY <1>1 DEF PagesShaped
  <2> QED
    BY <1>3, <2>1, VerifyBegins DEF LookupAgent, HandleDeregisterSuccess
<1>4. ASSUME NEW n \in Slots, PasskeyRevoke(n)
      PROVE  InfoInv'
  <2> DEFINE k == [kind |-> "userOp", page |-> "verify", id |-> ver.info.id, sent |-> FALSE]
  <2>1. Run(n, k) /\ k.kind = "userOp" /\ ver'.info = ver.info
    BY <1>1, <1>4 DEF PasskeyRevoke, PagesShaped
  <2> HIDE DEF k
  <2>2. \A m \in Slots : job'[m] = job[m] \/ job'[m].kind = "userOp"
    BY <2>1, RunStep DEF BaseInv
  <2> QED
    BY <2>1, <2>2, VerifyRests
<1>5. ASSUME NEW n \in Slots, VerifyFails(n)
      PROVE  InfoInv'
  <2>1. Done(n) /\ ver'.info = ver.info
    BY <1>1, <1>5 DEF VerifyFails, PagesShaped
  <2> QED
    BY <1>2, <2>1
<1>6. ASSUME NEW n \in Slots, PasskeyRevokeEnds(n)
      PROVE  InfoInv'
  <2> DEFINE page == [ver EXCEPT !.revoking = FALSE]
  <2>1. DOMAIN page = DOMAIN ver /\ page.info = ver.info
    BY <1>1 DEF PagesShaped
  <2>2. (\E k : StartVerify(n, page, k)) \/ (ver' = page /\ Done(n))
    BY <1>6 DEF PasskeyRevokeEnds
  <2> HIDE DEF page
  <2> QED
    BY <1>2, <2>1, <2>2, VerifyBegins
<1>7. CASE ConnectForDeregister \/ HandleDeregister \/ CancelDeregister
  <2>1. UNCHANGED job /\ ver'.info = ver.info
    BY <1>1, <1>7 DEF ConnectForDeregister, HandleDeregister, CancelDeregister, PagesShaped
  <2> QED
    BY <2>1, VerifyRests
<1> QED
  BY <1>3, <1>4, <1>5, <1>6, <1>7, ReadVerifiedStep, ReadAgentIdStep, ReadOwnerStep, ShowInfoStep
     DEF VerifyHandler

\* Any step leaves what "Verify" knows in order.
LEMMA InfoNext ==
  ASSUME BaseInv, InfoInv, [Next]_vars
  PROVE  InfoInv'
<1>1. ChainOK' /\ Grown
  BY BaseNext DEF BaseInv
<1>2. ASSUME UNCHANGED ver, NEW kinds, Moves(kinds), "verify" \notin kinds
      PROVE  InfoInv'
  <2>1. \A n \in Slots : job'[n] = job[n] \/ job'[n] = NoJob \/ job'[n].kind # "verify"
    BY <1>2 DEF Moves
  <2> QED
    BY <1>1, <1>2, <2>1, VerifyRests
<1>3. CASE VerifyHandler
  BY <1>1, <1>3, VerifyKeeps
<1>4. CASE UNCHANGED ver /\ Moves(MineKinds)
  BY <1>2, <1>4 DEF MineKinds
<1>5. CASE UNCHANGED ver /\ Moves(RegisterKinds \cup DemoKinds \cup {"userOp", "mint"})
  <2>1. "verify" \notin RegisterKinds \cup DemoKinds \cup {"userOp", "mint"}
    BY DEF RegisterKinds, DemoKinds, LoaderKinds
  <2> QED
    BY <1>2, <1>5, <2>1
<1> QED
  BY <1>3, <1>4, <1>5, PagesSee

\* What "Verify" shows of an agent was so after its lookup began, whatever
\* happened between the reads.
THEOREM InfoAlwaysTrue == Spec => []InfoIsTrue
<1>1. Init => InfoInv
  BY DEF Init, PagesInit, BrowserInit, InfoInv, At
<1>2. BaseInv /\ InfoInv /\ [Next]_vars => InfoInv'
  BY InfoNext
<1>3. InfoInv => InfoIsTrue
  BY DEF InfoInv, InfoOK, InfoIsTrue, WasAgent
<1> QED
  BY <1>1, <1>2, <1>3, BaseAlways, PTL DEF Spec


-----------------------------------------------------------------------------
(* What "My Agents" lists.                                                 *)

Bys == {"owner", "guardian", "human", "key", "siblings"}

\* A question that can be asked: it is of the past, and siblings are those of
\* an agent.
OfOK(of) ==
  /\ of.since \in Nat /\ of.since <= height /\ of.by \in Bys
  /\ of.by = "siblings" => \E a \in agents : a.id = of.arg

\* What was found was asked for and has lived since.
FoundOK(found, of, whole) ==
  \A e \in found : \E a \in agents :
    /\ a.id = e.id /\ Asked(of, a) /\ LivedSince(a, of.since)
    /\ a.died = 0 /\ whole => e.guardian = a.guardian

\* The agents that a whole answer has to name.
Wanted(of) == {a \in Alive : a.born <= of.since /\ Asked(of, a)}

\* The ids to check are known: with the agents found they are all.
Filled(j) ==
  /\ j.todo \subseteq Nat
  /\ j.by \notin {"owner", "guardian"} =>
       \A id \in j.todo : \E a \in agents : a.id = id /\ Asked(j, a) /\ LivedSince(a, j.since)
  /\ j.by # "owner" /\ ~ j.failed =>
       \A a \in Wanted(j) : a.id \in j.todo \/ \E e \in j.found : e.id = a.id

\* The reads that belong to one kind of lookup.
StageOK(j) ==
  /\ j.at \in {"simple", "balance"} => j.by = "owner"
  /\ j.at \in {"latest", "events"} => j.by \in {"owner", "guardian"}
  /\ j.at = "nullifier" => j.by = "siblings"
  /\ j.at = "ids" => j.by \in {"human", "siblings"}
  /\ j.at = "id" => j.by = "key"
  /\ j.at = "events" => j.latest \in Nat /\ j.since <= j.latest

\* What a lookup knows at each of its reads.
LoadJobOK(j) ==
  /\ OfOK(j) /\ FoundOK(j.found, j, ~ j.failed) /\ StageOK(j)
  /\ j.at \in {"check", "build", "rest"} => Filled(j) /\ j.todo # {}
  /\ j.at \in {"build", "rest"} =>
       \E a \in agents : a.id = NextId(j) /\ Asked(j, a) /\ LivedSince(a, j.since)

\* What a list says.
ListOK(list) ==
  list # NoList =>
    /\ OfOK(list.of) /\ FoundOK(list.shown, list.of, list.of.whole)
    /\ list.of.by # "owner" /\ list.of.whole =>
         \A a \in Wanted(list.of) : \E e \in list.shown : e.id = a.id

ListInv ==
  /\ ListOK(mine.list) /\ ListOK(mine.siblings)
  /\ \A n \in Slots : At(n, "load") => LoadJobOK(job[n])

\* Time leaves a question as it is.
LEMMA OfStays ==
  ASSUME ChainOK, ChainOK', Grown
  PROVE  \A of : OfOK(of) => OfOK(of)'
<1> SUFFICES ASSUME NEW of, OfOK(of)
             PROVE  OfOK(of)'
  OBVIOUS
<1>1. of.since \in Nat /\ of.since <= height /\ height' >= height /\ height \in Nat /\ height' \in Nat
  BY DEF OfOK, Grown, ChainOK
<1>2. (\E a \in agents : a.id = of.arg) => (\E b \in agents' : b.id = of.arg)
  BY DEF Grown, Kept
<1> QED
  BY <1>1, <1>2 DEF OfOK

\* And what it asks for.
LEMMA AskedStays ==
  ASSUME ChainOK, ChainOK', Grown
  PROVE  \A of, a, b : OfOK(of) /\ a \in agents /\ b \in agents' /\ Kept(a, b) =>
                         (Asked(of, a) <=> Asked(of, b)')
<1> SUFFICES ASSUME NEW of, OfOK(of), NEW a \in agents, NEW b \in agents', Kept(a, b)
             PROVE  Asked(of, a) <=> Asked(of, b)'
  OBVIOUS
<1>1. /\ b.id = a.id /\ b.key = a.key /\ b.owner = a.owner /\ b.guardian = a.guardian
      /\ b.human = a.human
  BY DEF Kept
<1>2. CASE of.by = "siblings"
  <2>1. PICK c \in agents : c.id = of.arg
    BY <1>2 DEF OfOK
  <2>2. PICK d \in agents' : Kept(c, d)
    BY DEF Grown
  <2>3. AgentById(of.arg) = c
    BY <2>1, Answered
  <2>4. AgentById(of.arg)' = d
    BY <2>1, <2>2 DEF AgentById, ChainOK, Kept
  <2> QED
    BY <1>1, <1>2, <2>2, <2>3, <2>4 DEF Asked, Kept
<1>3. CASE of.by # "siblings"
  BY <1>1, <1>3 DEF Asked, OfOK, Bys
<1> QED
  BY <1>2, <1>3

\* What was found stays right.
LEMMA FoundStays ==
  ASSUME ChainOK, ChainOK', Grown
  PROVE  \A found, of, whole :
           OfOK(of) /\ FoundOK(found, of, whole) => FoundOK(found, of, whole)'
<1> SUFFICES ASSUME NEW found, NEW of, NEW whole, OfOK(of), FoundOK(found, of, whole)
             PROVE  FoundOK(found, of, whole)'
  OBVIOUS
<1>1. of.since \in Nat /\ of.since <= height
  BY DEF OfOK
<1> SUFFICES ASSUME NEW e \in found
             PROVE  \E b \in agents' :
                      /\ b.id = e.id /\ Asked(of, b)' /\ LivedSince(b, of.since)
                      /\ b.died = 0 /\ whole => e.guardian = b.guardian
  BY DEF FoundOK, LivedSince
<1>2. PICK a \in agents :
        /\ a.id = e.id /\ Asked(of, a) /\ LivedSince(a, of.since)
        /\ a.died = 0 /\ whole => e.guardian = a.guardian
  BY DEF FoundOK
<1>3. PICK b \in agents' : Kept(a, b) /\ LivedSince(b, of.since)
  BY <1>1, <1>2, PastKept
<1>4. Asked(of, b)'
  BY <1>2, <1>3, AskedStays
<1> QED
  BY <1>2, <1>3, <1>4 DEF Kept

\* Nobody new has to be named.
LEMMA WantedStays ==
  ASSUME ChainOK, ChainOK', Grown
  PROVE  \A of : OfOK(of) => \A b \in Wanted(of)' : \E a \in Wanted(of) : a.id = b.id
<1> SUFFICES ASSUME NEW of, OfOK(of), NEW b \in Wanted(of)'
             PROVE  \E a \in Wanted(of) : a.id = b.id
  OBVIOUS
<1>1. b \in Alive' /\ b.born <= of.since /\ Asked(of, b)' /\ of.since \in Nat /\ of.since <= height
  BY DEF Wanted, OfOK
<1>2. PICK a \in Alive : Kept(a, b)
  BY <1>1, AliveBefore
<1>3. Asked(of, a)
  BY <1>1, <1>2, AskedStays DEF Alive
<1> QED
  BY <1>1, <1>2, <1>3 DEF Kept, Wanted

\* A lookup under way is as good as it was.
LEMMA LoadStays ==
  ASSUME ChainOK, ChainOK', Grown
  PROVE  \A j : LoadJobOK(j) => LoadJobOK(j)'
<1> SUFFICES ASSUME NEW j, LoadJobOK(j)
             PROVE  LoadJobOK(j)'
  OBVIOUS
<1>1. OfOK(j) /\ OfOK(j)' /\ FoundOK(j.found, j, ~ j.failed)' /\ StageOK(j)
  BY OfStays, FoundStays DEF LoadJobOK
<1>2. ASSUME NEW id, \E a \in agents : a.id = id /\ Asked(j, a) /\ LivedSince(a, j.since)
      PROVE  (\E a \in agents : a.id = id /\ Asked(j, a) /\ LivedSince(a, j.since))'
  <2>1. PICK a \in agents : a.id = id /\ Asked(j, a) /\ LivedSince(a, j.since)
    BY <1>2
  <2>2. j.since \in Nat /\ j.since <= height
    BY <1>1 DEF OfOK
  <2>3. PICK b \in agents' : Kept(a, b) /\ LivedSince(b, j.since)
    BY <2>1, <2>2, PastKept
  <2>4. b.id = id /\ Asked(j, b)'
    BY <1>1, <2>1, <2>3, AskedStays DEF Kept
  <2> QED
    BY <2>3, <2>4 DEF LivedSince
<1>3. Filled(j) => Filled(j)'
  BY <1>1, <1>2, WantedStays DEF Filled
<1>4. j.at \in {"build", "rest"} =>
        (\E a \in agents : a.id = NextId(j) /\ Asked(j, a) /\ LivedSince(a, j.since))'
  BY <1>2 DEF LoadJobOK
<1> QED
  BY <1>1, <1>3, <1>4 DEF LoadJobOK, StageOK

\* So is a list.
LEMMA ListStays ==
  ASSUME ChainOK, ChainOK', Grown
  PROVE  \A list : ListOK(list) => ListOK(list)'
<1> SUFFICES ASSUME NEW list, ListOK(list)
             PROVE  ListOK(list)'
  OBVIOUS
<1> QED
  BY OfStays, FoundStays, WantedStays DEF ListOK

\* What a step must show.
LEMMA ListFrame ==
  ASSUME ListInv, ChainOK, ChainOK', Grown,
         NEW page, mine' = page, ListOK(page.list), ListOK(page.siblings),
         NEW moved \in SUBSET Slots,
         \A n \in Slots \ moved :
           job'[n] = job[n] \/ job'[n] = NoJob \/ job'[n].kind # "load",
         \A n \in moved : \E k : LoadJobOK(k) /\ job'[n] = k
  PROVE  ListInv'
<1>1. ListOK(page.list)' /\ ListOK(page.siblings)'
  BY ListStays
<1>2. ListOK(mine.list)' /\ ListOK(mine.siblings)'
  BY <1>1
<1>3. ASSUME NEW n \in Slots, At(n, "load")'
      PROVE  LoadJobOK(job[n])'
  <2>1. \E k : LoadJobOK(k) /\ job'[n] = k
    BY <1>3 DEF ListInv, At
  <2>2. PICK k : LoadJobOK(k) /\ job'[n] = k
    BY <2>1
  <2>3. LoadJobOK(k)'
    BY <2>2, LoadStays
  <2> QED
    BY <2>2, <2>3
<1> QED
  BY <1>2, <1>3 DEF ListInv


\* Two records that ask the same thing.
LEMMA SameQuestion ==
  ASSUME NEW j, NEW k, k.by = j.by, k.arg = j.arg, k.since = j.since
  PROVE  /\ OfOK(k) <=> OfOK(j)
         /\ \A a : Asked(k, a) <=> Asked(j, a)
         /\ Wanted(k) = Wanted(j)
         /\ \A found, whole : FoundOK(found, k, whole) <=> FoundOK(found, j, whole)
<1>1. OfOK(k) <=> OfOK(j)
  BY DEF OfOK
<1>2. \A a : Asked(k, a) <=> Asked(j, a)
  BY DEF Asked
<1> QED
  BY <1>1, <1>2 DEF Wanted, FoundOK

\* What is right of a whole answer is right of one that is not.
LEMMA FoundLess ==
  ASSUME NEW found, NEW of, NEW whole, NEW less, FoundOK(found, of, whole), less => whole
  PROVE  FoundOK(found, of, less)
BY DEF FoundOK

Order == INSTANCE WellFoundedInduction

\* The next id is one of those to check.
LEMMA NextIsOne ==
  ASSUME NEW j, j.todo \subseteq Nat, j.todo # {}
  PROVE  NextId(j) \in j.todo
<1> DEFINE pairs == {ss \in Nat \X Nat : ss[1] < ss[2]}
<1>1. pairs = Order!OpToRel(<, Nat)
  BY DEF Order!OpToRel
<1>2. Order!IsWellFoundedOn(pairs, Nat)
  BY <1>1, Order!NatLessThanWellFounded
<1>3. \A m, n \in Nat : m < n => <<m, n>> \in pairs
  OBVIOUS
<1> HIDE DEF pairs
<1>4. PICK todo : todo = j.todo
  OBVIOUS
<1>5. PICK id \in todo : \A other \in todo : ~ (<<other, id>> \in pairs)
  BY <1>2, <1>4, Order!WFMin
<1>6. ASSUME NEW other \in todo, ~ (id <= other)
      PROVE  FALSE
  <2>1. other < id /\ other \in Nat /\ id \in Nat
    BY <1>4, <1>6
  <2> QED
    BY <1>3, <1>5, <2>1
<1> QED
  BY <1>4, <1>5, <1>6 DEF NextId

\* A step of the page that is no read of a lookup.
LEMMA QuietKeepsLists ==
  ASSUME ListInv, ChainOK, ChainOK', Grown, MineQuiet
  PROVE  ListInv'
<1>1. PICK page : mine' = page
  OBVIOUS
<1>2. Empties(page)
  BY <1>1 DEF MineQuiet
<1>3. ListOK(page.list) /\ ListOK(page.siblings)
  BY <1>2 DEF Empties, ListInv, ListOK
<1>4. ASSUME NEW by, NEW arg, NEW first, NEW then, Begins(by, arg, first)
      PROVE  LoadJobOK(Lookup(by, arg, first, then))
  <2> DEFINE k == Lookup(by, arg, first, then)
  <2>1. /\ k.by = by /\ k.arg = arg /\ k.at = first /\ k.since = height
        /\ k.todo = {} /\ k.found = {}
    BY DEF Lookup
  <2> HIDE DEF k
  <2>2. ASSUME NEW e \in mine.list.shown
        PROVE  \E a \in agents : a.id = e.id
    <3>1. mine.list # NoList
      BY DEF NoList
    <3> QED
      BY <3>1 DEF ListInv, ListOK, FoundOK
  <2>3. OfOK(k)
    BY <1>4, <2>1, <2>2 DEF OfOK, Begins, Bys, ChainOK
  <2>4. FoundOK(k.found, k, ~ k.failed)
    BY <2>1 DEF FoundOK
  <2>5. StageOK(k) /\ k.at \notin {"check", "build", "rest"}
    BY <1>4, <2>1 DEF StageOK, Begins
  <2>6. LoadJobOK(k)
    BY <2>3, <2>4, <2>5 DEF LoadJobOK
  <2> QED
    BY <2>6 DEF k
<1> DEFINE begun(l) == \E by, arg, first, then :
                         Begins(by, arg, first) /\ l = Lookup(by, arg, first, then)
           moved == {n \in Slots : begun(job'[n])}
<1>5. \A n \in moved : \E k : LoadJobOK(k) /\ job'[n] = k
  BY <1>4
<1>6. \A n \in Slots \ moved : job'[n] = job[n] \/ job'[n] = NoJob \/ job'[n].kind # "load"
  BY DEF MineQuiet
<1>7. moved \in SUBSET Slots
  OBVIOUS
<1> HIDE DEF moved
<1> QED
  BY <1>1, <1>3, <1>5, <1>6, <1>7, ListFrame

\* A lookup goes on to its next read.
LEMMA ListRuns ==
  ASSUME BaseInv, ListInv, ChainOK', Grown, NEW n \in Slots, NEW k, Run(n, k), LoadJobOK(k),
         UNCHANGED mine
  PROVE  ListInv'
<1>1. job'[n] = k /\ \A m \in Slots : m # n => job'[m] = job[m]
  BY RunStep DEF BaseInv
<1> DEFINE moved == {n}
<1>2. /\ moved \in SUBSET Slots
      /\ \A m \in Slots \ moved : job'[m] = job[m]
      /\ \A m \in moved : \E l : LoadJobOK(l) /\ job'[m] = l
  BY <1>1
<1> HIDE DEF moved
<1>3. mine' = mine /\ ListOK(mine.list) /\ ListOK(mine.siblings)
  BY DEF ListInv
<1> QED
  BY <1>2, <1>3, ListFrame DEF BaseInv

\* A lookup ends, with what the lists say after it.
LEMMA ListEnds ==
  ASSUME BaseInv, ListInv, ChainOK', Grown, NEW n \in Slots, Done(n),
         NEW page, mine' = page, ListOK(page.list), ListOK(page.siblings)
  PROVE  ListInv'
<1>1. /\ {} \in SUBSET Slots
      /\ \A m \in Slots \ {} : job'[m] = job[m] \/ job'[m] = NoJob
      /\ \A m \in {} : \E k : LoadJobOK(k) /\ job'[m] = k
  BY DEF Done, BaseInv, JobsShaped
<1> QED
  BY <1>1, ListFrame DEF BaseInv

\* It gives up: the lists stay.
LEMMA ListGivesUp ==
  ASSUME BaseInv, ListInv, ChainOK', Grown, NEW n \in Slots, NEW j, GiveUp(n, j)
  PROVE  ListInv'
<1>1. PICK page : mine' = page
  OBVIOUS
<1> DEFINE read == [mine EXCEPT !.loading = FALSE]
           panel == [mine EXCEPT !.siblingsLoading = FALSE]
<1>2. Done(n) /\ page \in {panel, Cleared(read, j)}
  BY <1>1 DEF GiveUp
<1>3. /\ panel.list = mine.list /\ panel.siblings = mine.siblings
      /\ read.list = mine.list /\ read.siblings = mine.siblings
      /\ {"list", "siblings"} \subseteq DOMAIN read
  BY DEF BaseInv, PagesShaped
<1> HIDE DEF read, panel
<1>4. Cleared(read, j).list = read.list /\ Cleared(read, j).siblings = read.siblings
  BY <1>3 DEF Cleared
<1> QED
  BY <1>1, <1>2, <1>3, <1>4, ListEnds DEF ListInv

\* It shows its result.
LEMMA ListShows ==
  ASSUME BaseInv, ListInv, ChainOK', Grown, NEW n \in Slots, NEW j, ShowResult(n, j),
         OfOK(j), FoundOK(j.found, j, ~ j.failed),
         j.by # "owner" /\ ~ j.failed => \A a \in Wanted(j) : \E e \in j.found : e.id = a.id
  PROVE  ListInv'
<1> DEFINE list == Answer(j)
<1>1. /\ list.shown = j.found /\ list.of.whole = ~ j.failed
      /\ list.of.by = j.by /\ list.of.arg = j.arg /\ list.of.since = j.since
  BY DEF Answer
<1>2. PICK page : mine' = page
  OBVIOUS
<1> DEFINE read == [mine EXCEPT !.list = list, !.loading = FALSE]
           panel == [mine EXCEPT !.siblings = list, !.siblingsLoading = FALSE]
<1>3. Done(n) /\ page \in {panel, Cleared(read, j)}
  BY <1>2 DEF ShowResult
<1>4. /\ panel.list = mine.list /\ panel.siblings = list
      /\ read.list = list /\ read.siblings = mine.siblings
      /\ {"list", "siblings"} \subseteq DOMAIN read
  BY DEF BaseInv, PagesShaped
<1> HIDE DEF read, panel, list
<1>5. Cleared(read, j).list = read.list /\ Cleared(read, j).siblings = read.siblings
  BY <1>4 DEF Cleared
<1>6. ListOK(list)
  <2>1. PICK of : of = list.of
    OBVIOUS
  <2>2. of.by = j.by /\ of.arg = j.arg /\ of.since = j.since /\ (of.whole <=> ~ j.failed)
    BY <1>1, <2>1
  <2>3. OfOK(of) /\ Wanted(of) = Wanted(j) /\ FoundOK(j.found, of, ~ j.failed)
    BY <2>2, SameQuestion
  <2>4. FoundOK(j.found, of, of.whole)
    BY <2>2, <2>3, FoundLess
  <2> QED
    BY <1>1, <2>1, <2>2, <2>3, <2>4 DEF ListOK
<1> QED
  BY <1>2, <1>3, <1>4, <1>5, <1>6, ListEnds DEF ListInv

\* It proceeds to the next agent, the next stage, or the end.
LEMMA ListProceeds ==
  ASSUME BaseInv, ListInv, ChainOK', Grown, NEW n \in Slots, NEW j, Proceed(n, j),
         DOMAIN j = LoadFields, OfOK(j), FoundOK(j.found, j, ~ j.failed), Filled(j)
  PROVE  ListInv'
<1>1. CASE j.todo # {} /\ Run(n, [j EXCEPT !.at = "check"]) /\ UNCHANGED mine
  <2> DEFINE k == [j EXCEPT !.at = "check"]
  <2>1. /\ k.by = j.by /\ k.arg = j.arg /\ k.since = j.since /\ k.found = j.found
        /\ k.failed = j.failed /\ k.todo = j.todo /\ k.at = "check"
    BY DEF LoadFields
  <2> HIDE DEF k
  <2>2. OfOK(k) /\ FoundOK(k.found, k, ~ k.failed) /\ Filled(k)
    BY <2>1, SameQuestion DEF Filled
  <2>3. LoadJobOK(k)
    BY <1>1, <2>1, <2>2 DEF LoadJobOK, StageOK
  <2>4. Run(n, k) /\ UNCHANGED mine
    BY <1>1 DEF k
  <2> QED
    BY <2>3, <2>4, ListRuns
<1>2. CASE j.by = "owner" /\ Run(n, [j EXCEPT !.at = "balance"]) /\ UNCHANGED mine
  <2> DEFINE k == [j EXCEPT !.at = "balance"]
  <2>1. /\ k.by = j.by /\ k.arg = j.arg /\ k.since = j.since /\ k.found = j.found
        /\ k.failed = j.failed /\ k.at = "balance"
    BY DEF LoadFields
  <2> HIDE DEF k
  <2>2. OfOK(k) /\ FoundOK(k.found, k, ~ k.failed)
    BY <2>1, SameQuestion
  <2>3. LoadJobOK(k)
    BY <1>2, <2>1, <2>2 DEF LoadJobOK, StageOK
  <2>4. Run(n, k) /\ UNCHANGED mine
    BY <1>2 DEF k
  <2> QED
    BY <2>3, <2>4, ListRuns
<1>3. CASE j.todo = {} /\ ShowResult(n, j)
  BY <1>3, ListShows DEF Filled
<1> QED
  BY <1>1, <1>2, <1>3 DEF Proceed


\* What a lookup at one of its reads has, and knows.
LEMMA LoadKnown ==
  ASSUME BaseInv, ListInv, NEW n \in Slots, At(n, "load")
  PROVE  DOMAIN job[n] = LoadFields /\ LoadJobOK(job[n])
BY DEF BaseInv, JobsShaped, Shaped, LoadFields, ListInv, At

\* One id is checked off: it is on the list, or nobody has to name it.
LEMMA FilledLess ==
  ASSUME NEW j, NEW k, NEW id, k.by = j.by, k.arg = j.arg, k.since = j.since, Filled(j),
         k.todo = j.todo \ {id}, j.found \subseteq k.found,
         ~ k.failed => /\ ~ j.failed
                       /\ \A a \in Wanted(j) : a.id = id => \E e \in k.found : e.id = id
  PROVE  Filled(k)
<1>1. Wanted(k) = Wanted(j) /\ \A a : Asked(k, a) <=> Asked(j, a)
  BY SameQuestion
<1>2. k.todo \subseteq Nat /\ k.todo \subseteq j.todo
  BY DEF Filled
<1>3. ASSUME k.by \notin {"owner", "guardian"}, NEW id1 \in k.todo
      PROVE  \E a \in agents : a.id = id1 /\ Asked(k, a) /\ LivedSince(a, k.since)
  BY <1>1, <1>2, <1>3 DEF Filled
<1>4. ASSUME k.by # "owner", ~ k.failed, NEW a \in Wanted(k)
      PROVE  a.id \in k.todo \/ \E e \in k.found : e.id = a.id
  <2>1. a.id \in j.todo \/ \E e \in j.found : e.id = a.id
    BY <1>1, <1>4 DEF Filled
  <2> QED
    BY <1>1, <1>4, <2>1
<1> QED
  BY <1>2, <1>3, <1>4 DEF Filled

\* The fast path of a wallet: the agent that has its key.
LEMMA ListSimple ==
  ASSUME BaseInv, ListInv, ChainOK', Grown, NEW n \in Slots, ReadSimple(n)
  PROVE  ListInv'
<1> DEFINE j == job[n]
           k == [j EXCEPT !.todo = {a.id : a \in {b \in Alive : b.key = j.arg}}]
<1>1. /\ DOMAIN j = LoadFields /\ LoadJobOK(j) /\ j.at = "simple"
      /\ Proceed(n, k) \/ GiveUp(n, j)
  BY LoadKnown DEF ReadSimple
<1>2. {a.id : a \in {b \in Alive : b.key = j.arg}} \subseteq Nat
  BY DEF Alive, BaseInv, ChainOK, AgentSet
<1>3. /\ DOMAIN k = LoadFields /\ k.by = j.by /\ k.arg = j.arg /\ k.since = j.since
      /\ k.found = j.found /\ k.failed = j.failed /\ k.todo \subseteq Nat
  BY <1>1, <1>2 DEF LoadFields
<1> HIDE DEF j, k
<1>4. OfOK(k) /\ FoundOK(k.found, k, ~ k.failed) /\ k.by = "owner"
  BY <1>1, <1>3, SameQuestion DEF LoadJobOK, StageOK
<1>5. Filled(k)
  BY <1>3, <1>4 DEF Filled
<1> QED
  BY <1>1, <1>3, <1>4, <1>5, ListProceeds, ListGivesUp

\* The number of its tokens.
LEMMA ListBalance ==
  ASSUME BaseInv, ListInv, ChainOK', Grown, NEW n \in Slots, ReadBalance(n)
  PROVE  ListInv'
<1> DEFINE j == job[n]
           k == [j EXCEPT !.at = "latest"]
<1>1. /\ DOMAIN j = LoadFields /\ LoadJobOK(j) /\ j.at = "balance"
      /\ (Run(n, k) /\ UNCHANGED mine) \/ GiveUp(n, j) \/ ShowResult(n, j)
  BY LoadKnown DEF ReadBalance
<1>2. /\ k.by = j.by /\ k.arg = j.arg /\ k.since = j.since /\ k.at = "latest"
      /\ k.found = j.found /\ k.failed = j.failed
  BY <1>1 DEF LoadFields
<1> HIDE DEF j, k
<1>3. OfOK(k) /\ FoundOK(k.found, k, ~ k.failed) /\ j.by = "owner"
  BY <1>1, <1>2, SameQuestion DEF LoadJobOK, StageOK
<1>4. LoadJobOK(k)
  BY <1>2, <1>3 DEF LoadJobOK, StageOK
<1>5. OfOK(j) /\ FoundOK(j.found, j, ~ j.failed)
  BY <1>1 DEF LoadJobOK
<1> QED
  BY <1>1, <1>3, <1>4, <1>5, ListRuns, ListGivesUp, ListShows

\* The last block of its scan, which is of the lookup or later.
LEMMA ListLatestBlock ==
  ASSUME BaseInv, ListInv, ChainOK', Grown, NEW n \in Slots, ReadLatestBlock(n)
  PROVE  ListInv'
<1> DEFINE j == job[n]
           k == [j EXCEPT !.at = "events", !.latest = height]
<1>1. /\ DOMAIN j = LoadFields /\ LoadJobOK(j) /\ j.at = "latest"
      /\ (Run(n, k) /\ UNCHANGED mine) \/ GiveUp(n, j)
  BY LoadKnown DEF ReadLatestBlock
<1>2. /\ k.by = j.by /\ k.arg = j.arg /\ k.since = j.since /\ k.at = "events"
      /\ k.found = j.found /\ k.failed = j.failed /\ k.latest = height
  BY <1>1 DEF LoadFields
<1> HIDE DEF j, k
<1>3. OfOK(k) /\ FoundOK(k.found, k, ~ k.failed) /\ j.by \in {"owner", "guardian"}
  BY <1>1, <1>2, SameQuestion DEF LoadJobOK, StageOK
<1>4. height \in Nat
  BY DEF BaseInv, ChainOK
<1>5. LoadJobOK(k)
  BY <1>2, <1>3, <1>4 DEF LoadJobOK, StageOK, OfOK
<1> QED
  BY <1>1, <1>5, ListRuns, ListGivesUp

\* The scan itself: for a guardian it sees every mint until that block.
LEMMA ListEvents ==
  ASSUME BaseInv, ListInv, ChainOK', Grown, NEW n \in Slots, ReadEvents(n)
  PROVE  ListInv'
<1> DEFINE j == job[n]
           todo == {a.id : a \in MintEvents(j)} \ {e.id : e \in j.found}
           k == [j EXCEPT !.all = TRUE, !.todo = todo]
<1>1. /\ DOMAIN j = LoadFields /\ LoadJobOK(j) /\ j.at = "events"
      /\ Proceed(n, k) \/ GiveUp(n, j)
  BY LoadKnown DEF ReadEvents
<1>2. /\ DOMAIN k = LoadFields /\ k.by = j.by /\ k.arg = j.arg /\ k.since = j.since
      /\ k.found = j.found /\ k.failed = j.failed /\ k.todo = todo
  BY <1>1 DEF LoadFields
<1> HIDE DEF j, k
<1>3. todo \subseteq Nat
  BY DEF MintEvents, BaseInv, ChainOK, AgentSet
<1>4. /\ OfOK(k) /\ FoundOK(k.found, k, ~ k.failed) /\ Wanted(k) = Wanted(j)
      /\ j.by \in {"owner", "guardian"} /\ j.latest \in Nat /\ j.since \in Nat /\ j.since <= j.latest
  BY <1>1, <1>2, SameQuestion DEF LoadJobOK, StageOK, OfOK
<1>5. ASSUME NEW a \in Wanted(j), j.by # "owner"
      PROVE  a.id \in todo \/ \E e \in j.found : e.id = a.id
  <2>1. a \in agents /\ a.born <= j.since /\ a.born \in Nat
    BY <1>5 DEF Wanted, Alive, BaseInv, ChainOK, AgentSet
  <2>2. a \in MintEvents(j)
    BY <1>4, <1>5, <2>1 DEF MintEvents
  <2> QED
    BY <2>2
<1>6. Filled(k)
  BY <1>2, <1>3, <1>4, <1>5 DEF Filled
<1> QED
  BY <1>1, <1>2, <1>4, <1>6, ListProceeds, ListGivesUp

\* The human of an agent.
LEMMA ListNullifier ==
  ASSUME BaseInv, ListInv, ChainOK', Grown, NEW n \in Slots, ReadNullifier(n)
  PROVE  ListInv'
<1> DEFINE j == job[n]
           k == [j EXCEPT !.at = "ids"]
<1>1. /\ DOMAIN j = LoadFields /\ LoadJobOK(j) /\ j.at = "nullifier"
      /\ (Run(n, k) /\ UNCHANGED mine) \/ GiveUp(n, j)
  BY LoadKnown DEF ReadNullifier
<1>2. /\ k.by = j.by /\ k.arg = j.arg /\ k.since = j.since /\ k.at = "ids"
      /\ k.found = j.found /\ k.failed = j.failed
  BY <1>1 DEF LoadFields
<1> HIDE DEF j, k
<1>3. OfOK(k) /\ FoundOK(k.found, k, ~ k.failed) /\ j.by \in {"human", "siblings"}
  BY <1>1, <1>2, SameQuestion DEF LoadJobOK, StageOK
<1>4. LoadJobOK(k)
  BY <1>2, <1>3 DEF LoadJobOK, StageOK
<1> QED
  BY <1>1, <1>4, ListRuns, ListGivesUp


\* The agents that it has now; a sibling is not the agent itself.
LEMMA ListIds ==
  ASSUME BaseInv, ListInv, ChainOK', Grown, NEW n \in Slots, ReadIds(n)
  PROVE  ListInv'
<1> DEFINE j == job[n]
           human == IF j.by = "siblings" THEN AgentById(j.arg).human ELSE j.arg
           ids == {a.id : a \in {b \in Alive : b.human = human}}
           others == IF j.by = "siblings" THEN ids \ {j.arg} ELSE ids
           k == [j EXCEPT !.todo = others]
<1>1. /\ DOMAIN j = LoadFields /\ LoadJobOK(j) /\ j.at = "ids"
      /\ Proceed(n, k) \/ GiveUp(n, j)
  BY LoadKnown DEF ReadIds
<1>2. /\ DOMAIN k = LoadFields /\ k.by = j.by /\ k.arg = j.arg /\ k.since = j.since
      /\ k.found = j.found /\ k.failed = j.failed /\ k.todo = others
  BY <1>1 DEF LoadFields
<1> HIDE DEF j, k
<1>3. /\ OfOK(k) /\ FoundOK(k.found, k, ~ k.failed) /\ Wanted(k) = Wanted(j)
      /\ \A a : Asked(k, a) <=> Asked(j, a)
      /\ j.by \in {"human", "siblings"}
  BY <1>1, <1>2, SameQuestion DEF LoadJobOK, StageOK
<1>4. others \subseteq Nat
  BY DEF Alive, BaseInv, ChainOK, AgentSet
<1>5. \A a : Asked(j, a) <=> a.human = human /\ (j.by = "siblings" => a.id # j.arg)
  BY <1>3 DEF Asked
<1> HIDE DEF human
<1>6. ASSUME NEW id \in others
      PROVE  \E a \in agents : a.id = id /\ Asked(j, a) /\ LivedSince(a, j.since)
  <2>1. PICK a \in Alive : a.human = human /\ a.id = id /\ (j.by = "siblings" => a.id # j.arg)
    OBVIOUS
  <2> QED
    BY <1>5, <2>1 DEF Alive, LivedSince
<1>7. ASSUME NEW a \in Wanted(j)
      PROVE  a.id \in others
  <2>1. a \in Alive /\ a.human = human /\ (j.by = "siblings" => a.id # j.arg)
    BY <1>5 DEF Wanted
  <2> QED
    BY <2>1
<1> HIDE DEF ids, others
<1>8. Filled(k)
  BY <1>2, <1>3, <1>4, <1>6, <1>7 DEF Filled
<1> QED
  BY <1>1, <1>2, <1>3, <1>8, ListProceeds, ListGivesUp

\* What the read that comes first says of the next id: that it is to be
\* listed, or that nobody has to name it.
LEMMA ChecksRight ==
  ASSUME BaseInv, NEW j, NEW id, OfOK(j), Filled(j), id \in j.todo
  PROVE  /\ Belongs(j, id) =>
              \E a \in agents : a.id = id /\ Asked(j, a) /\ LivedSince(a, j.since)
         /\ ~ Belongs(j, id) /\ j.by # "owner" => \A a \in Wanted(j) : a.id # id
<1>1. ChainOK
  BY DEF BaseInv
<1>2. ASSUME IsAlive(id)
      PROVE  AgentById(id) \in Alive /\ AgentById(id).id = id
  BY <1>1, <1>2, Answered
<1>3. CASE j.by \in {"owner", "guardian"}
  <2>1. ASSUME Belongs(j, id)
        PROVE  \E a \in agents : a.id = id /\ Asked(j, a) /\ LivedSince(a, j.since)
    <3> DEFINE a == AgentById(id)
    <3>1. a \in Alive /\ a.id = id /\ Asked(j, a)
      BY <1>2, <1>3, <2>1 DEF Belongs, Asked
    <3> HIDE DEF a
    <3> QED
      BY <3>1 DEF Alive, LivedSince
  <2>2. ASSUME ~ Belongs(j, id), j.by # "owner", NEW a \in Wanted(j), a.id = id
        PROVE  FALSE
    <3>1. a \in Alive /\ a \in agents /\ a.guardian = j.arg
      BY <1>3, <2>2 DEF Wanted, Asked, Alive
    <3>2. IsAlive(id) /\ AgentById(id) = a
      BY <1>1, <2>2, <3>1, Answered DEF IsAlive
    <3> QED
      BY <1>3, <2>2, <3>1, <3>2 DEF Belongs
  <2> QED
    BY <2>1, <2>2
<1>4. CASE j.by \notin {"owner", "guardian"}
  <2>1. Belongs(j, id) <=> IsAlive(id)
    BY <1>4 DEF Belongs
  <2> QED
    BY <1>4, <2>1 DEF Filled, Wanted, IsAlive
<1> QED
  BY <1>3, <1>4

\* An agent is left out: it does not belong on the list, or a read failed.
LEMMA ListSkips ==
  ASSUME BaseInv, ListInv, ChainOK', Grown, NEW n \in Slots,
         NEW j, DOMAIN j = LoadFields, LoadJobOK(j), Filled(j), NEW id,
         NEW k, DOMAIN k = LoadFields, Proceed(n, k),
         k.by = j.by, k.arg = j.arg, k.since = j.since, k.found = j.found, k.todo = j.todo \ {id},
         ~ k.failed => ~ j.failed /\ (j.by # "owner" => \A a \in Wanted(j) : a.id # id)
  PROVE  ListInv'
<1>1. OfOK(k) /\ FoundOK(k.found, k, ~ j.failed)
  BY SameQuestion DEF LoadJobOK
<1>2. FoundOK(k.found, k, ~ k.failed)
  BY <1>1, FoundLess
<1>3. CASE j.by # "owner"
  BY <1>1, <1>2, <1>3, FilledLess, ListProceeds
<1>4. CASE j.by = "owner"
  <2>1. Filled(k)
    BY <1>4 DEF Filled
  <2> QED
    BY <1>1, <1>2, <2>1, ListProceeds
<1> QED
  BY <1>3, <1>4

\* The first read of an agent.
LEMMA ListCheck ==
  ASSUME BaseInv, ListInv, ChainOK', Grown, NEW n \in Slots, Check(n)
  PROVE  ListInv'
<1> DEFINE j == job[n]
           k == [j EXCEPT !.at = "build"]
           l == [j EXCEPT !.todo = @ \ {NextId(j)}]
           m == [j EXCEPT !.todo = @ \ {NextId(j)}, !.failed = TRUE]
<1>1. /\ DOMAIN j = LoadFields /\ LoadJobOK(j) /\ j.at = "check"
      /\ \/ Belongs(j, NextId(j)) /\ Run(n, k) /\ UNCHANGED mine
         \/ ~ Belongs(j, NextId(j)) /\ Proceed(n, l)
         \/ Proceed(n, m)
         \/ GiveUp(n, j)
  BY LoadKnown DEF Check
<1>2. /\ k.by = j.by /\ k.arg = j.arg /\ k.since = j.since /\ k.at = "build"
      /\ k.found = j.found /\ k.failed = j.failed /\ k.todo = j.todo
      /\ DOMAIN l = LoadFields /\ l.by = j.by /\ l.arg = j.arg /\ l.since = j.since
      /\ l.found = j.found /\ l.failed = j.failed /\ l.todo = j.todo \ {NextId(j)}
      /\ DOMAIN m = LoadFields /\ m.by = j.by /\ m.arg = j.arg /\ m.since = j.since
      /\ m.found = j.found /\ m.failed = TRUE /\ m.todo = j.todo \ {NextId(j)}
  BY <1>1 DEF LoadFields
<1> HIDE DEF j, k, l, m
<1>3. OfOK(j) /\ Filled(j) /\ j.todo # {} /\ FoundOK(j.found, j, ~ j.failed)
  BY <1>1 DEF LoadJobOK
<1>4. NextId(j) \in j.todo
  BY <1>3, NextIsOne DEF Filled
<1>5. CASE Belongs(j, NextId(j)) /\ Run(n, k) /\ UNCHANGED mine
  <2>1. NextId(k) = NextId(j)
    BY <1>2 DEF NextId
  <2>2. \E a \in agents : a.id = NextId(j) /\ Asked(j, a) /\ LivedSince(a, j.since)
    BY <1>3, <1>4, <1>5, ChecksRight
  <2>3. /\ OfOK(k) /\ FoundOK(k.found, k, ~ k.failed) /\ Wanted(k) = Wanted(j)
        /\ \A a : Asked(k, a) <=> Asked(j, a)
    BY <1>2, <1>3, SameQuestion
  <2>4. Filled(k)
    BY <1>2, <1>3, <2>3 DEF Filled
  <2>5. LoadJobOK(k)
    BY <1>2, <1>3, <2>1, <2>2, <2>3, <2>4 DEF LoadJobOK, StageOK
  <2> QED
    BY <1>5, <2>5, ListRuns
<1>6. CASE ~ Belongs(j, NextId(j)) /\ Proceed(n, l)
  <2>1. j.by # "owner" => \A a \in Wanted(j) : a.id # NextId(j)
    BY <1>3, <1>4, <1>6, ChecksRight
  <2> QED
    BY <1>1, <1>2, <1>3, <1>6, <2>1, ListSkips
<1>7. CASE Proceed(n, m)
  BY <1>1, <1>2, <1>3, <1>7, ListSkips
<1> QED
  BY <1>1, <1>5, <1>6, <1>7, ListGivesUp


\* The reads of an agent that is to be listed: the first.
LEMMA ListBuilds ==
  ASSUME BaseInv, ListInv, ChainOK', Grown, NEW n \in Slots, BuildVerified(n)
  PROVE  ListInv'
<1> DEFINE j == job[n]
           k == [j EXCEPT !.at = "rest", !.verified = IsAlive(NextId(j))]
<1>1. /\ DOMAIN j = LoadFields /\ LoadJobOK(j) /\ j.at = "build"
      /\ Run(n, k) /\ UNCHANGED mine
  BY LoadKnown DEF BuildVerified
<1>2. /\ k.by = j.by /\ k.arg = j.arg /\ k.since = j.since /\ k.at = "rest"
      /\ k.found = j.found /\ k.failed = j.failed /\ k.todo = j.todo
  BY <1>1 DEF LoadFields
<1> HIDE DEF j, k
<1>3. /\ OfOK(k) /\ FoundOK(k.found, k, ~ k.failed) /\ Wanted(k) = Wanted(j)
      /\ \A a : Asked(k, a) <=> Asked(j, a)
  BY <1>1, <1>2, SameQuestion DEF LoadJobOK
<1>4. Filled(j) /\ j.todo # {}
      /\ \E a \in agents : a.id = NextId(j) /\ Asked(j, a) /\ LivedSince(a, j.since)
  BY <1>1 DEF LoadJobOK
<1>5. Filled(k) /\ NextId(k) = NextId(j)
  BY <1>2, <1>3, <1>4 DEF Filled, NextId
<1>6. LoadJobOK(k)
  BY <1>2, <1>3, <1>4, <1>5 DEF LoadJobOK, StageOK
<1> QED
  BY <1>1, <1>6, ListRuns

\* An entry says what is right of its agent, where its reads did not fail.
LEMMA EntryIsTrue ==
  ASSUME NEW j, NEW a \in agents, Asked(j, a), NEW readable
  PROVE  /\ Entry(j, a, readable).id = a.id
         /\ readable /\ a.died = 0 => Entry(j, a, readable).guardian = a.guardian
BY DEF Entry, Asked

\* The last.
LEMMA ListAdds ==
  ASSUME BaseInv, ListInv, ChainOK', Grown, NEW n \in Slots, BuildRest(n)
  PROVE  ListInv'
<1> DEFINE j == job[n]
           id == NextId(j)
           with(readable) == j.found \cup {Entry(j, AgentById(id), readable)}
           rest == [j EXCEPT !.todo = @ \ {id}, !.verified = FALSE]
           k == [rest EXCEPT !.found = with(TRUE)]
           l == [rest EXCEPT !.found = with(FALSE), !.failed = TRUE]
<1>1. /\ DOMAIN j = LoadFields /\ LoadJobOK(j) /\ j.at = "rest"
      /\ Proceed(n, k) \/ Proceed(n, l)
  BY LoadKnown DEF BuildRest
<1>2. /\ DOMAIN rest = LoadFields /\ rest.by = j.by /\ rest.arg = j.arg /\ rest.since = j.since
      /\ rest.failed = j.failed /\ rest.todo = j.todo \ {id}
  BY <1>1 DEF LoadFields
<1> HIDE DEF rest
<1>3. /\ DOMAIN k = LoadFields /\ k.by = j.by /\ k.arg = j.arg /\ k.since = j.since
      /\ k.failed = j.failed /\ k.todo = j.todo \ {id} /\ k.found = with(TRUE)
      /\ DOMAIN l = LoadFields /\ l.by = j.by /\ l.arg = j.arg /\ l.since = j.since
      /\ l.failed = TRUE /\ l.todo = j.todo \ {id} /\ l.found = with(FALSE)
  BY <1>2 DEF LoadFields
<1> HIDE DEF j, k, l, id
<1>4. OfOK(j) /\ Filled(j) /\ FoundOK(j.found, j, ~ j.failed)
  BY <1>1 DEF LoadJobOK
<1>5. PICK a \in agents : a.id = id /\ Asked(j, a) /\ LivedSince(a, j.since)
  BY <1>1 DEF LoadJobOK, id
<1>6. AgentById(id) = a
  BY <1>5, Answered DEF BaseInv
<1>7. ASSUME NEW m, m \in {k, l}
      PROVE  ListInv' \/ ~ Proceed(n, m)
  <2>1. PICK readable \in BOOLEAN :
          /\ m.found = j.found \cup {Entry(j, a, readable)}
          /\ ~ m.failed => readable /\ ~ j.failed
    BY <1>3, <1>6, <1>7
  <2>2. /\ DOMAIN m = LoadFields /\ m.by = j.by /\ m.arg = j.arg /\ m.since = j.since
        /\ m.todo = j.todo \ {id}
    BY <1>3, <1>7
  <2> HIDE DEF with
  <2> DEFINE new == Entry(j, a, readable)
  <2>3. /\ new.id = a.id
        /\ readable /\ a.died = 0 => new.guardian = a.guardian
    BY <1>5, EntryIsTrue
  <2>4. m.found = j.found \cup {new}
    BY <2>1
  <2> HIDE DEF new
  <2>5. FoundOK(j.found, j, ~ m.failed)
    BY <1>4, <2>1, FoundLess
  <2>6. FoundOK(m.found, j, ~ m.failed)
    BY <1>5, <2>1, <2>3, <2>4, <2>5 DEF FoundOK
  <2>7. OfOK(m) /\ FoundOK(m.found, m, ~ m.failed)
    BY <1>4, <2>2, <2>6, SameQuestion
  <2>8. Filled(m)
    BY <1>4, <1>5, <2>1, <2>2, <2>3, <2>4, FilledLess
  <2> QED
    BY <2>2, <2>7, <2>8, ListProceeds
<1> QED
  BY <1>1, <1>7

\* One of them fails.
LEMMA ListMisses ==
  ASSUME BaseInv, ListInv, ChainOK', Grown, NEW n \in Slots, BuildFails(n)
  PROVE  ListInv'
<1> DEFINE j == job[n]
           k == [j EXCEPT !.todo = @ \ {NextId(j)}, !.failed = TRUE]
<1>1. /\ DOMAIN j = LoadFields /\ LoadJobOK(j) /\ j.at = "build"
      /\ Proceed(n, k) \/ GiveUp(n, j)
  BY LoadKnown DEF BuildFails
<1>2. /\ DOMAIN k = LoadFields /\ k.by = j.by /\ k.arg = j.arg /\ k.since = j.since
      /\ k.found = j.found /\ k.failed = TRUE /\ k.todo = j.todo \ {NextId(j)}
  BY <1>1 DEF LoadFields
<1> HIDE DEF j, k
<1>3. Filled(j)
  BY <1>1 DEF LoadJobOK
<1> QED
  BY <1>1, <1>2, <1>3, ListSkips, ListGivesUp

\* The one agent of a key.
LEMMA ListKeysAgent ==
  ASSUME BaseInv, ListInv, ChainOK', Grown, NEW n \in Slots, ReadKeysAgent(n)
  PROVE  ListInv'
<1> DEFINE j == job[n]
           k == [j EXCEPT !.at = "check", !.todo = {AgentOf(j.arg).id}]
<1>1. /\ DOMAIN j = LoadFields /\ LoadJobOK(j) /\ j.at = "id"
      /\ (Registered(j.arg) /\ Run(n, k) /\ UNCHANGED mine) \/ GiveUp(n, j)
  BY LoadKnown DEF ReadKeysAgent
<1>2. /\ k.by = j.by /\ k.arg = j.arg /\ k.since = j.since /\ k.at = "check"
      /\ k.found = j.found /\ k.failed = j.failed /\ k.todo = {AgentOf(j.arg).id}
  BY <1>1 DEF LoadFields
<1> HIDE DEF j, k
<1>3. CASE Registered(j.arg) /\ Run(n, k) /\ UNCHANGED mine
  <2>1. PICK a \in Alive : a = AgentOf(j.arg) /\ a.key = j.arg /\ \A b \in Alive : b.key = j.arg => b = a
    BY <1>3, Answered DEF BaseInv
  <2>2. /\ OfOK(k) /\ FoundOK(k.found, k, ~ k.failed) /\ Wanted(k) = Wanted(j)
        /\ \A b : Asked(k, b) <=> Asked(j, b)
        /\ j.by = "key"
    BY <1>1, <1>2, SameQuestion DEF LoadJobOK, StageOK
  <2>3. \A b : Asked(j, b) <=> b.key = j.arg
    BY <2>2 DEF Asked
  <2>4. a \in agents /\ a.id \in Nat /\ a.died = 0
    BY DEF Alive, BaseInv, ChainOK, AgentSet
  <2>5. k.todo = {a.id} /\ k.todo \subseteq Nat
    BY <1>2, <2>1, <2>4
  <2>6. \A b \in Wanted(j) : b = a
    BY <2>1, <2>3 DEF Wanted
  <2>7. Filled(k)
    BY <1>2, <2>1, <2>2, <2>3, <2>4, <2>5, <2>6 DEF Filled, LivedSince
  <2>8. LoadJobOK(k)
    BY <1>2, <2>2, <2>5, <2>7 DEF LoadJobOK, StageOK
  <2> QED
    BY <1>3, <2>8, ListRuns
<1> QED
  BY <1>1, <1>3, ListGivesUp

\* Any step leaves what "My Agents" knows in order.
LEMMA ListNext ==
  ASSUME BaseInv, ListInv, [Next]_vars
  PROVE  ListInv'
<1>1. ChainOK' /\ Grown
  BY BaseNext DEF BaseInv
<1>2. ASSUME UNCHANGED mine, NEW kinds, Moves(kinds), "load" \notin kinds
      PROVE  ListInv'
  <2>1. \A n \in Slots \ {} : job'[n] = job[n] \/ job'[n] = NoJob \/ job'[n].kind # "load"
    BY <1>2 DEF Moves
  <2>2. /\ mine' = mine /\ ListOK(mine.list) /\ ListOK(mine.siblings)
        /\ {} \in SUBSET Slots /\ \A n \in {} : \E k : LoadJobOK(k) /\ job'[n] = k
    BY <1>2 DEF ListInv
  <2> QED
    BY <1>1, <2>1, <2>2, ListFrame DEF BaseInv
<1>3. ASSUME NEW n \in Slots, LookupStep(n)
      PROVE  ListInv'
  BY <1>1, <1>3, ListSimple, ListBalance, ListLatestBlock, ListEvents, ListNullifier, ListIds,
     ListCheck, ListBuilds, ListAdds, ListMisses, ListKeysAgent DEF LookupStep, LookupGoesOn
<1>4. CASE MineStep
  BY <1>1, <1>3, <1>4, MineMoves, QuietKeepsLists DEF BaseInv
<1>5. CASE UNCHANGED mine /\ Moves(VerifyKinds)
  BY <1>2, <1>5 DEF VerifyKinds
<1>6. CASE UNCHANGED mine /\ Moves(RegisterKinds \cup DemoKinds \cup {"userOp", "mint"})
  <2>1. "load" \notin RegisterKinds \cup DemoKinds \cup {"userOp", "mint"}
    BY DEF RegisterKinds, DemoKinds, LoaderKinds
  <2> QED
    BY <1>2, <1>6, <2>1
<1> QED
  BY <1>4, <1>5, <1>6, PagesSee

\* A list of "My Agents" answers its lookup, whatever happened between the
\* reads: who is on it was asked for and lived after the lookup began, and
\* unless a read failed nobody is missing.
THEOREM ListAlwaysTrue == Spec => []ListIsTrue
<1>1. Init => ListInv
  BY DEF Init, PagesInit, BrowserInit, ListInv, ListOK, At
<1>2. BaseInv /\ ListInv /\ [Next]_vars => ListInv'
  BY ListNext
<1>3. ListInv => ListIsTrue
  <2>1. NoList.of = None
    BY DEF NoList
  <2> QED
    BY <2>1 DEF ListInv, ListOK, ListIsTrue, Answers, FoundOK, Wanted
<1> QED
  BY <1>1, <1>2, <1>3, BaseAlways, PTL DEF Spec
===============================================================================
