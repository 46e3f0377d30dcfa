--------------------------- MODULE SelfAgentRegistry ---------------------------
(***************************************************************************)
(* The agent registry contract, contracts/src/SelfAgentRegistry.sol: a     *)
(* soulbound ERC-721 token per agent, bound to the nullifier of the human  *)
(* who proved to be one.  A transaction is one atomic action; a call that  *)
(* reverts changes nothing, so a revert is a guard that does not hold.     *)
(*                                                                         *)
(* The variables carry the names of the contract's storage mappings.  Zero *)
(* is the default of every mapping: agent id 0, ZeroAddress, ZeroKey,      *)
(* ZeroNullifier, NoConfig, NoText.                                        *)
(***************************************************************************)
EXTENDS Integers, Sequences, FiniteSets

CONSTANTS
    Addresses,       \* accounts that can send a transaction
    Ed25519Keys,     \* raw 32-byte Ed25519 public keys
    DerivedAddress,  \* deriveAddress: the owner no account controls, per Ed25519 key
    ZeroAddress,
    ZeroKey,         \* bytes32(0)
    Nullifiers,      \* one per human; a hash, never 0
    ZeroNullifier,
    Providers,       \* contracts that implement IHumanProofProvider
    HubProviders,    \* those of class SelfHumanProofProvider: verifyHumanProof reverts
    Configs,         \* the verification configs registered with the Hub
    NoConfig,
    Wallets,         \* addresses that agents are paid at
    Texts,           \* URIs and metadata documents
    NoText,
    DocExpiries,     \* expiry dates of documents as parsed; 0: none
    Limits,          \* values an operator may give maxAgentsPerHuman
    ProofAges,       \* values an operator may give maxProofAge
    DefaultProofAge, \* 365 days
    MaxAgentId,      \* bound on the number of registrations
    MaxTime,         \* bound on the clock
    MaxSignatures    \* bound on the signatures made off chain, of each kind

AgentIds == 1 .. MaxAgentId

VirtualAddresses == {DerivedAddress[k] : k \in Ed25519Keys}

Owners == Addresses \cup VirtualAddresses

\* An ECDSA agent's key is its address padded to 32 bytes: the same value here.
AgentKeys == Addresses \cup Ed25519Keys

Keys == AgentKeys \cup {ZeroKey}

ASSUME BoundsAssumption ==
    /\ MaxAgentId \in Nat
    /\ MaxTime \in Nat
    /\ MaxSignatures \in Nat
    /\ DefaultProofAge \in Nat
    /\ DocExpiries \subseteq Nat
    /\ Limits \subseteq Nat
    /\ ProofAges \subseteq Nat \ {0}

ASSUME ZeroAssumption ==
    /\ ZeroAddress \notin Owners \cup Providers
    /\ ZeroKey \notin AgentKeys
    /\ ZeroNullifier \notin Nullifiers
    /\ NoConfig \notin Configs
    /\ NoText \notin Texts

ASSUME KeyAssumption ==
    /\ Addresses \cap Ed25519Keys = {}
    /\ HubProviders \subseteq Providers
    /\ Wallets \subseteq Addresses

VARIABLES
    \* roles and settings
    approvedProviders, selfProofProvider, maxAgentsPerHuman, maxProofAge,
    requireHumanProof,
    \* tokens
    owner, nextAgentId,
    \* the proof an agent rests on
    agentHasHumanProof, agentNullifier, agentProofProvider, agentConfigId,
    agentRegisteredAt, agentCredentials, proofExpiresAt, agentGuardian,
    \* lookups
    agentKeyToAgentId, agentIdToAgentKey, activeAgentCount, agentsByNullifier,
    agentIndexInNullifier,
    \* profile
    agentURIs, agentMetadata, agentWallet, walletSetNonces,
    \* nonces of registration challenges
    agentNonces, ed25519Nonces,
    \* outside the contract: signatures made so far, and the block's time
    signed, walletSigned, now,
    \* history: the key an agent was registered with, and the signed challenge
    \* that its registration consumed
    consentOf

adminVars == <<approvedProviders, selfProofProvider, maxAgentsPerHuman,
               maxProofAge, requireHumanProof>>
tokenVars == <<owner, nextAgentId>>
proofVars == <<agentHasHumanProof, agentNullifier, agentProofProvider,
               agentConfigId, agentRegisteredAt, agentGuardian>>
expiryVars == <<agentCredentials, proofExpiresAt>>
lookupVars == <<agentKeyToAgentId, agentIdToAgentKey, activeAgentCount,
                agentsByNullifier, agentIndexInNullifier>>
textVars == <<agentURIs, agentMetadata>>
walletVars == <<agentWallet, walletSetNonces>>
nonceVars == <<agentNonces, ed25519Nonces>>
outsideVars == <<signed, walletSigned, now>>

vars == <<adminVars, tokenVars, proofVars, expiryVars, lookupVars, textVars,
          walletVars, nonceVars, outsideVars, consentOf>>

\* Challenges an agent signs, and EIP-712 consents a wallet signs.
Challenges == [signer : AgentKeys, human : Addresses, nonce : Nat]
WalletConsents == [agentId : AgentIds, wallet : Wallets, owner : Owners,
                   nonce : Nat, deadline : Nat]

Challenge(agent, address, count) == [signer |-> agent, human |-> address, nonce |-> count]

Consents == [key : Keys,
             challenge : Challenges \cup {Challenge(ZeroKey, ZeroAddress, 0)}]

NoConsent == [key |-> ZeroKey, challenge |-> Challenge(ZeroKey, ZeroAddress, 0)]

Init ==
    /\ approvedProviders = {}
    /\ selfProofProvider = ZeroAddress
    /\ maxAgentsPerHuman = 1
    /\ maxProofAge = DefaultProofAge
    /\ requireHumanProof = TRUE
    /\ owner = [id \in AgentIds |-> ZeroAddress]
    /\ nextAgentId = 1
    /\ agentHasHumanProof = [id \in AgentIds |-> FALSE]
    /\ agentNullifier = [id \in AgentIds |-> ZeroNullifier]
    /\ agentProofProvider = [id \in AgentIds |-> ZeroAddress]
    /\ agentConfigId = [id \in AgentIds |-> NoConfig]
    /\ agentRegisteredAt = [id \in AgentIds |-> 0]
    /\ agentCredentials = [id \in AgentIds |-> 0]
    /\ proofExpiresAt = [id \in AgentIds |-> 0]
    /\ agentGuardian = [id \in AgentIds |-> ZeroAddress]
    /\ agentKeyToAgentId = [k \in Keys |-> 0]
    /\ agentIdToAgentKey = [id \in AgentIds |-> ZeroKey]
    /\ activeAgentCount = [n \in Nullifiers \cup {ZeroNullifier} |-> 0]
    /\ agentsByNullifier = [n \in Nullifiers \cup {ZeroNullifier} |-> << >>]
    /\ agentIndexInNullifier = [id \in AgentIds |-> 0]
    /\ agentURIs = [id \in AgentIds |-> NoText]
    /\ agentMetadata = [id \in AgentIds |-> NoText]
    /\ agentWallet = [id \in AgentIds |-> ZeroAddress]
    /\ walletSetNonces = [id \in AgentIds |-> 0]
    /\ agentNonces = [a \in Addresses |-> 0]
    /\ ed25519Nonces = [k \in Ed25519Keys |-> 0]
    /\ signed = {}
    /\ walletSigned = {}
    /\ now = 1
    /\ consentOf = [id \in AgentIds |-> NoConsent]

-----------------------------------------------------------------------------
(* Settings: only the holders of the two roles call these.                 *)

SetRequireHumanProof(required) ==
    /\ requireHumanProof' = required
    /\ UNCHANGED <<approvedProviders, selfProofProvider, maxAgentsPerHuman, maxProofAge>>

\* The provider it replaces loses its approval, the new one gains it.
SetSelfProofProvider(provider) ==
    /\ selfProofProvider' = provider
    /\ approvedProviders' = (approvedProviders \ {selfProofProvider}) \cup {provider}
    /\ UNCHANGED <<maxAgentsPerHuman, maxProofAge, requireHumanProof>>

AddProofProvider(provider) ==
    /\ provider \notin approvedProviders
    /\ approvedProviders' = approvedProviders \cup {provider}
    /\ UNCHANGED <<selfProofProvider, maxAgentsPerHuman, maxProofAge, requireHumanProof>>

RemoveProofProvider(provider) ==
    /\ provider \in approvedProviders
    /\ approvedProviders' = approvedProviders \ {provider}
    /\ UNCHANGED <<selfProofProvider, maxAgentsPerHuman, maxProofAge, requireHumanProof>>

SetMaxAgentsPerHuman(max) ==
    /\ maxAgentsPerHuman' = max
    /\ UNCHANGED <<approvedProviders, selfProofProvider, maxProofAge, requireHumanProof>>

SetMaxProofAge(age) ==
    /\ maxProofAge' = age
    /\ UNCHANGED <<approvedProviders, selfProofProvider, maxAgentsPerHuman, requireHumanProof>>

AdminStep ==
    /\ \/ \E required \in BOOLEAN : SetRequireHumanProof(required)
       \/ \E provider \in Providers :
             \/ SetSelfProofProvider(provider)
             \/ AddProofProvider(provider)
             \/ RemoveProofProvider(provider)
       \/ \E max \in Limits : SetMaxAgentsPerHuman(max)
       \/ \E age \in ProofAges : SetMaxProofAge(age)
    /\ UNCHANGED <<tokenVars, proofVars, expiryVars, lookupVars, textVars,
                   walletVars, nonceVars, outsideVars, consentOf>>

-----------------------------------------------------------------------------
(* What registrations have in common.                                      *)

AgeExpiry == now + maxProofAge

\* Slip: the longer of the two.
LongerExpiry(doc) == IF doc > AgeExpiry THEN doc ELSE AgeExpiry

\* _storeCredentials: the document's expiry caps the age of the proof.
DisclosedExpiry(doc) == IF doc > 0 /\ doc < AgeExpiry THEN doc ELSE AgeExpiry

\* Slip: one agent too many.
UpToLimit(n) == maxAgentsPerHuman > 0 => activeAgentCount[n] <= maxAgentsPerHuman

BelowLimit(n) == maxAgentsPerHuman > 0 => activeAgentCount[n] < maxAgentsPerHuman

\* The contract calls the provider for its verificationStrength, so a Hub
\* registration made before a provider is set reverts.
MintAgent(n, key, provider, to, uri, config, guardian, doc, expiry) ==
    LET id == nextAgentId IN
    /\ id \in AgentIds
    /\ agentKeyToAgentId[key] = 0
    /\ BelowLimit(n)
    /\ provider # ZeroAddress
    /\ nextAgentId' = id + 1
    /\ owner' = [owner EXCEPT ![id] = to]
    /\ agentNullifier' = [agentNullifier EXCEPT ![id] = n]
    /\ agentProofProvider' = [agentProofProvider EXCEPT ![id] = provider]
    /\ agentHasHumanProof' = [agentHasHumanProof EXCEPT ![id] = TRUE]
    /\ agentRegisteredAt' = [agentRegisteredAt EXCEPT ![id] = now]
    /\ activeAgentCount' = [activeAgentCount EXCEPT ![n] = @ + 1]
    /\ agentIndexInNullifier' =
          [agentIndexInNullifier EXCEPT ![id] = Len(agentsByNullifier[n])]
    /\ agentsByNullifier' = [agentsByNullifier EXCEPT ![n] = Append(@, id)]
    /\ agentKeyToAgentId' = [agentKeyToAgentId EXCEPT ![key] = id]
    /\ agentIdToAgentKey' = [agentIdToAgentKey EXCEPT ![id] = key]
    /\ agentConfigId' = [agentConfigId EXCEPT ![id] = config]
    /\ agentGuardian' = [agentGuardian EXCEPT ![id] = guardian]
    /\ agentURIs' = [agentURIs EXCEPT ![id] = uri]
    /\ agentCredentials' = [agentCredentials EXCEPT ![id] = doc]
    /\ proofExpiresAt' = [proofExpiresAt EXCEPT ![id] = expiry]
    /\ UNCHANGED <<adminVars, agentMetadata, walletVars, outsideVars>>

HubMint(n, key, to, config, guardian, doc) ==
    MintAgent(n, key, selfProofProvider, to, NoText, config, guardian, doc,
              DisclosedExpiry(doc))

\* A registration without a signed challenge.
NoSignature == UNCHANGED <<nonceVars, consentOf>>

\* The agent that is registered next, under this key, on this signed challenge.
ConsentGiven(agentKey, made) ==
    /\ made \in signed
    /\ consentOf' = [consentOf EXCEPT ![nextAgentId] = [key |-> agentKey, challenge |-> made]]

\* Slip: the nonce is read and not advanced.
ReuseAgentSignature(agent, human) ==
    /\ ConsentGiven(agent, Challenge(agent, human, agentNonces[agent]))
    /\ UNCHANGED nonceVars

\* _verifyAgentSignature: the challenge is the one for the current nonce.
ConsumeAgentSignature(agent, human) ==
    /\ ConsentGiven(agent, Challenge(agent, human, agentNonces[agent]))
    /\ agentNonces' = [agentNonces EXCEPT ![agent] = @ + 1]
    /\ UNCHANGED ed25519Nonces

\* _verifyEd25519Signature: the nonce is that of the public key, the signature
\* is checked under the extended key that comes with it in the payload, which
\* nothing ties to the public key.
ConsumeEd25519Signature(key, human) ==
    /\ \E signer \in Ed25519Keys :
          ConsentGiven(key, Challenge(signer, human, ed25519Nonces[key]))
    /\ ed25519Nonces' = [ed25519Nonces EXCEPT ![key] = @ + 1]
    /\ UNCHANGED agentNonces

-----------------------------------------------------------------------------
(* The Hub's callback, customVerificationHook: n is the nullifier of the   *)
(* verified proof, human the address it was made for, config the config    *)
(* its user data names, doc the expiry of the disclosed document.          *)

\* 'R': the human's own address is the agent.
HubRegister(n, human, config, doc) ==
    /\ HubMint(n, human, human, config, ZeroAddress, doc)
    /\ NoSignature

\* 'K': the agent has its own key, the human owns the token.
HubRegisterAdvanced(n, human, agent, config, doc) ==
    /\ HubMint(n, agent, human, config, ZeroAddress, doc)
    /\ ConsumeAgentSignature(agent, human)

\* 'W': the agent owns its token; guardian may be ZeroAddress.
HubRegisterWalletFree(n, human, agent, guardian, config, doc) ==
    /\ HubMint(n, agent, agent, config, guardian, doc)
    /\ ConsumeAgentSignature(agent, human)

\* 'E': the key is the raw public key, the owner an address no one controls.
HubRegisterEd25519(n, human, key, guardian, config, doc) ==
    /\ HubMint(n, key, DerivedAddress[key], config, guardian, doc)
    /\ ConsumeEd25519Signature(key, human)

\* Slips: the hole stays in the array; the entries behind it move up.
LeaveHole(list, idx) == [list EXCEPT ![idx + 1] = 0]
ShiftDown(list, idx) ==
    [j \in 1 .. Len(list) - 1 |-> IF j <= idx THEN list[j] ELSE list[j + 1]]

\* Remove the entry at a zero-based index, putting the last one in its place.
SwapAndPop(list, idx) ==
    [j \in 1 .. Len(list) - 1 |-> IF j = idx + 1 THEN list[Len(list)] ELSE list[j]]

\* What reverts: a token that does not exist, and `length - 1` on an empty list.
RevokeSucceeds(id) ==
    LET listed == agentsByNullifier[agentNullifier[id]] IN
    /\ owner[id] # ZeroAddress
    /\ listed # << >>
    /\ agentIndexInNullifier[id] < Len(listed)

\* Slip: only one of the two directions is deleted.
ForgetKeyOnly(id) ==
    /\ agentIdToAgentKey' = [agentIdToAgentKey EXCEPT ![id] = ZeroKey]
    /\ UNCHANGED agentKeyToAgentId

\* The key is free again; an agent under key 0 has no entry to delete.
ReleaseKey(id) ==
    LET key == agentIdToAgentKey[id] IN
    /\ agentKeyToAgentId' = IF key = ZeroKey THEN agentKeyToAgentId
                            ELSE [agentKeyToAgentId EXCEPT ![key] = 0]
    /\ agentIdToAgentKey' = [agentIdToAgentKey EXCEPT ![id] = ZeroKey]

\* Slip: the agent is counted out twice.
UnlistTwice(id) ==
    LET n == agentNullifier[id]
        idx == agentIndexInNullifier[id]
        last == agentsByNullifier[n][Len(agentsByNullifier[n])]
    IN
    /\ activeAgentCount' = [activeAgentCount EXCEPT ![n] = IF @ > 1 THEN @ - 2 ELSE 0]
    /\ agentsByNullifier' = [agentsByNullifier EXCEPT ![n] = SwapAndPop(@, idx)]
    /\ agentIndexInNullifier' = [agentIndexInNullifier EXCEPT ![last] = idx, ![id] = 0]

\* The agent leaves the counter and the array of its human.
UnlistAgent(id) ==
    LET n == agentNullifier[id]
        idx == agentIndexInNullifier[id]
        last == agentsByNullifier[n][Len(agentsByNullifier[n])]
    IN
    /\ activeAgentCount' = [activeAgentCount EXCEPT ![n] = IF @ > 0 THEN @ - 1 ELSE @]
    /\ agentsByNullifier' = [agentsByNullifier EXCEPT ![n] = SwapAndPop(@, idx)]
    /\ agentIndexInNullifier' = [agentIndexInNullifier EXCEPT ![last] = idx, ![id] = 0]

\* Slip: the guardian survives the agent.
ClearProofNotGuardian(id) ==
    /\ agentHasHumanProof' = [agentHasHumanProof EXCEPT ![id] = FALSE]
    /\ agentNullifier' = [agentNullifier EXCEPT ![id] = ZeroNullifier]
    /\ agentProofProvider' = [agentProofProvider EXCEPT ![id] = ZeroAddress]
    /\ agentCredentials' = [agentCredentials EXCEPT ![id] = 0]
    /\ proofExpiresAt' = [proofExpiresAt EXCEPT ![id] = 0]
    /\ agentConfigId' = [agentConfigId EXCEPT ![id] = NoConfig]
    /\ UNCHANGED agentGuardian

ClearProof(id) ==
    /\ agentHasHumanProof' = [agentHasHumanProof EXCEPT ![id] = FALSE]
    /\ agentNullifier' = [agentNullifier EXCEPT ![id] = ZeroNullifier]
    /\ agentProofProvider' = [agentProofProvider EXCEPT ![id] = ZeroAddress]
    /\ agentGuardian' = [agentGuardian EXCEPT ![id] = ZeroAddress]
    /\ agentCredentials' = [agentCredentials EXCEPT ![id] = 0]
    /\ proofExpiresAt' = [proofExpiresAt EXCEPT ![id] = 0]
    /\ agentConfigId' = [agentConfigId EXCEPT ![id] = NoConfig]

RevokeAgent(id) ==
    /\ RevokeSucceeds(id)
    /\ ReleaseKey(id)
    /\ UnlistAgent(id)
    /\ ClearProof(id)
    /\ agentMetadata' = [agentMetadata EXCEPT ![id] = NoText]
    /\ agentURIs' = [agentURIs EXCEPT ![id] = NoText]
    /\ owner' = [owner EXCEPT ![id] = ZeroAddress]
    /\ UNCHANGED <<adminVars, nextAgentId, agentRegisteredAt, walletVars,
                   nonceVars, outsideVars, consentOf>>

\* 'D' names the agent by the human's address, 'X' by any address in the payload.
HubDeregister(n, key) ==
    LET id == agentKeyToAgentId[key] IN
    /\ id # 0
    /\ agentNullifier[id] = n
    /\ RevokeAgent(id)

\* Slip: a refresh under another config adopts it.
RefreshAnyConfig(id, n, config, doc) ==
    /\ agentHasHumanProof[id]
    /\ agentNullifier[id] = n
    /\ agentConfigId' = [agentConfigId EXCEPT ![id] = config]
    /\ agentCredentials' = [agentCredentials EXCEPT ![id] = doc]
    /\ proofExpiresAt' = [proofExpiresAt EXCEPT ![id] = DisclosedExpiry(doc)]
    /\ UNCHANGED <<adminVars, tokenVars, agentHasHumanProof, agentNullifier,
                   agentProofProvider, agentRegisteredAt, agentGuardian, lookupVars,
                   textVars, walletVars, nonceVars, outsideVars, consentOf>>

\* 'F': only with the config of the registration, only by the same human.
HubRefresh(id, n, config, doc) ==
    /\ agentHasHumanProof[id]
    /\ agentConfigId[id] # NoConfig
    /\ agentConfigId[id] = config
    /\ agentNullifier[id] = n
    /\ agentCredentials' = [agentCredentials EXCEPT ![id] = doc]
    /\ proofExpiresAt' = [proofExpiresAt EXCEPT ![id] = DisclosedExpiry(doc)]
    /\ UNCHANGED <<adminVars, tokenVars, proofVars, lookupVars, textVars,
                   walletVars, nonceVars, outsideVars, consentOf>>

HubCallback ==
    \E n \in Nullifiers :
       \/ \E key \in Addresses \cup {ZeroKey} : HubDeregister(n, key)
       \/ \E config \in Configs, doc \in DocExpiries :
             \/ \E id \in AgentIds : HubRefresh(id, n, config, doc)
             \/ \E human \in Addresses :
                   \/ HubRegister(n, human, config, doc)
                   \/ \E agent \in Addresses : HubRegisterAdvanced(n, human, agent, config, doc)
                   \/ \E guardian \in Addresses \cup {ZeroAddress} :
                         \/ \E agent \in Addresses :
                               HubRegisterWalletFree(n, human, agent, guardian, config, doc)
                         \/ \E key \in Ed25519Keys :
                               HubRegisterEd25519(n, human, key, guardian, config, doc)

-----------------------------------------------------------------------------
(* Calls anyone may send; what the sender must be is a guard.              *)

\* The register overloads: a token without a human proof, revertible only by
\* requireHumanProof.  The metadata entries may set "agentWallet".
BaseRegister(sender, uri, wallet) ==
    LET id == nextAgentId IN
    /\ ~ requireHumanProof
    /\ id \in AgentIds
    /\ nextAgentId' = id + 1
    /\ owner' = [owner EXCEPT ![id] = sender]
    /\ agentURIs' = [agentURIs EXCEPT ![id] = uri]
    /\ agentWallet' = [agentWallet EXCEPT ![id] = wallet]
    /\ UNCHANGED <<adminVars, proofVars, expiryVars, lookupVars, agentMetadata,
                   walletSetNonces, nonceVars, outsideVars, consentOf>>

\* verifyHumanProof of the provider returned the nullifier n; the agent key is
\* the first word of the provider's data, whatever it is.
RegisterWithHumanProof(sender, provider, n, key, uri) ==
    /\ provider \in approvedProviders \ HubProviders
    /\ MintAgent(n, key, provider, sender, uri, NoConfig, ZeroAddress, 0, AgeExpiry)
    /\ NoSignature

RevokeHumanProof(id, provider, n) ==
    /\ provider \in approvedProviders \ HubProviders
    /\ agentHasHumanProof[id]
    /\ n = agentNullifier[id]
    /\ RevokeAgent(id)

GuardianRevoke(sender, id) ==
    /\ agentGuardian[id] # ZeroAddress
    /\ sender = agentGuardian[id]
    /\ RevokeAgent(id)

SelfDeregister(sender, id) ==
    /\ sender = owner[id]
    /\ RevokeAgent(id)

UpdateAgentMetadata(sender, id, text) ==
    /\ sender = owner[id]
    /\ agentMetadata' = [agentMetadata EXCEPT ![id] = text]
    /\ UNCHANGED <<agentURIs, walletVars>>

SetAgentURI(sender, id, uri) ==
    /\ sender = owner[id]
    /\ agentURIs' = [agentURIs EXCEPT ![id] = uri]
    /\ UNCHANGED <<agentMetadata, walletVars>>

\* Slip: the nonce that was signed for is not spent.
SetAgentWalletUnspent(sender, id, wallet, deadline) ==
    /\ sender = owner[id]
    /\ now <= deadline
    /\ [agentId |-> id, wallet |-> wallet, owner |-> sender,
        nonce |-> walletSetNonces[id], deadline |-> deadline] \in walletSigned
    /\ agentWallet' = [agentWallet EXCEPT ![id] = wallet]
    /\ UNCHANGED <<textVars, walletSetNonces>>

\* The consent names agent, wallet, owner, the agent's nonce and a deadline.
SetAgentWallet(sender, id, wallet, deadline) ==
    /\ sender = owner[id]
    /\ now <= deadline
    /\ [agentId |-> id, wallet |-> wallet, owner |-> sender,
        nonce |-> walletSetNonces[id], deadline |-> deadline] \in walletSigned
    /\ walletSetNonces' = [walletSetNonces EXCEPT ![id] = @ + 1]
    /\ agentWallet' = [agentWallet EXCEPT ![id] = wallet]
    /\ UNCHANGED textVars

UnsetAgentWallet(sender, id) ==
    /\ sender = owner[id]
    /\ agentWallet' = [agentWallet EXCEPT ![id] = ZeroAddress]
    /\ UNCHANGED <<textVars, walletSetNonces>>

ProfileCall ==
    /\ \E sender \in Addresses, id \in AgentIds :
          \/ \E text \in Texts : \/ UpdateAgentMetadata(sender, id, text)
                                 \/ SetAgentURI(sender, id, text)
          \/ \E wallet \in Wallets, deadline \in 1 .. MaxTime :
                SetAgentWallet(sender, id, wallet, deadline)
          \/ UnsetAgentWallet(sender, id)
    /\ UNCHANGED <<adminVars, tokenVars, proofVars, expiryVars, lookupVars,
                   nonceVars, outsideVars, consentOf>>

PublicCall ==
    \E sender \in Addresses :
       \/ \E uri \in Texts \cup {NoText}, wallet \in Wallets \cup {ZeroAddress} :
             BaseRegister(sender, uri, wallet)
       \/ \E provider \in Providers, n \in Nullifiers, key \in Keys,
             uri \in Texts \cup {NoText} :
             RegisterWithHumanProof(sender, provider, n, key, uri)
       \/ \E id \in AgentIds :
             \/ GuardianRevoke(sender, id)
             \/ SelfDeregister(sender, id)
             \/ \E provider \in Providers, n \in Nullifiers : RevokeHumanProof(id, provider, n)

-----------------------------------------------------------------------------
(* Outside the contract.                                                   *)

\* An agent signs the challenge for the nonce it reads from the contract.
SignChallenge(signer, human) ==
    LET nonce == IF signer \in Ed25519Keys THEN ed25519Nonces[signer]
                 ELSE agentNonces[signer] IN
    /\ Cardinality(signed) < MaxSignatures
    /\ signed' = signed \cup {[signer |-> signer, human |-> human, nonce |-> nonce]}
    /\ UNCHANGED <<walletSigned, now>>

\* A wallet consents to serve an agent.
SignWalletConsent(id, wallet, deadline) ==
    /\ owner[id] # ZeroAddress
    /\ Cardinality(walletSigned) < MaxSignatures
    /\ walletSigned' = walletSigned \cup
          {[agentId |-> id, wallet |-> wallet, owner |-> owner[id],
            nonce |-> walletSetNonces[id], deadline |-> deadline]}
    /\ UNCHANGED <<signed, now>>

\* The next block: block.timestamp and block.number advance together.
Tick ==
    /\ now < MaxTime
    /\ now' = now + 1
    /\ UNCHANGED <<signed, walletSigned>>

OutsideStep ==
    /\ \/ \E signer \in AgentKeys, human \in Addresses : SignChallenge(signer, human)
       \/ \E id \in AgentIds, wallet \in Wallets, deadline \in 1 .. MaxTime :
             SignWalletConsent(id, wallet, deadline)
       \/ Tick
    /\ UNCHANGED <<adminVars, tokenVars, proofVars, expiryVars, lookupVars,
                   textVars, walletVars, nonceVars, consentOf>>

Next == AdminStep \/ HubCallback \/ PublicCall \/ ProfileCall \/ OutsideStep

Spec == Init /\ [][Next]_vars

-----------------------------------------------------------------------------
(* Views.                                                                  *)

\* isProofFresh
IsProofFresh(id) == agentHasHumanProof[id] /\ now < proofExpiresAt[id]

\* isVerifiedAgent
IsVerifiedAgent(key) ==
    LET id == agentKeyToAgentId[key] IN id # 0 /\ agentHasHumanProof[id]

AgentsOf(n) == {id \in AgentIds : agentHasHumanProof[id] /\ agentNullifier[id] = n}

-----------------------------------------------------------------------------
(* Properties.                                                             *)

SettingsTypeOK ==
    /\ approvedProviders \subseteq Providers
    /\ selfProofProvider \in Providers \cup {ZeroAddress}
    /\ maxAgentsPerHuman \in Nat
    /\ maxProofAge \in Nat
    /\ requireHumanProof \in BOOLEAN

ProofTypeOK ==
    /\ owner \in [AgentIds -> Owners \cup {ZeroAddress}]
    /\ nextAgentId \in 1 .. MaxAgentId + 1
    /\ agentHasHumanProof \in [AgentIds -> BOOLEAN]
    /\ agentNullifier \in [AgentIds -> Nullifiers \cup {ZeroNullifier}]
    /\ agentProofProvider \in [AgentIds -> Providers \cup {ZeroAddress}]
    /\ agentConfigId \in [AgentIds -> Configs \cup {NoConfig}]
    /\ agentRegisteredAt \in [AgentIds -> Nat]
    /\ agentCredentials \in [AgentIds -> Nat]
    /\ proofExpiresAt \in [AgentIds -> Nat]
    /\ agentGuardian \in [AgentIds -> Addresses \cup {ZeroAddress}]

LookupTypeOK ==
    /\ agentKeyToAgentId \in [Keys -> AgentIds \cup {0}]
    /\ agentIdToAgentKey \in [AgentIds -> Keys]
    /\ activeAgentCount \in [Nullifiers \cup {ZeroNullifier} -> Nat]
    /\ agentsByNullifier \in [Nullifiers \cup {ZeroNullifier} -> Seq(AgentIds)]
    /\ agentIndexInNullifier \in [AgentIds -> Nat]

ProfileTypeOK ==
    /\ agentURIs \in [AgentIds -> Texts \cup {NoText}]
    /\ agentMetadata \in [AgentIds -> Texts \cup {NoText}]
    /\ agentWallet \in [AgentIds -> Wallets \cup {ZeroAddress}]
    /\ walletSetNonces \in [AgentIds -> Nat]

ConsentTypeOK ==
    /\ agentNonces \in [Addresses -> Nat]
    /\ ed25519Nonces \in [Ed25519Keys -> Nat]
    /\ signed \subseteq Challenges
    /\ walletSigned \subseteq WalletConsents
    /\ now \in Nat
    /\ consentOf \in [AgentIds -> Consents]

\* Every storage slot holds a value of its type.
TypeOK ==
    /\ SettingsTypeOK
    /\ ProofTypeOK
    /\ LookupTypeOK
    /\ ProfileTypeOK
    /\ ConsentTypeOK

\* The three records of a human's agents agree whatever registrations and
\* swap-and-pop removals came before: the array lists exactly the agents that
\* carry the human's proof, each at the position the index map gives it, and
\* the counter that the limit is checked against is the array's length.
NullifierIndexExact ==
    \A n \in Nullifiers :
       LET listed == agentsByNullifier[n] IN
       /\ activeAgentCount[n] = Len(listed)
       /\ \A j \in 1 .. Len(listed) :
             /\ listed[j] \in AgentsOf(n)
             /\ agentIndexInNullifier[listed[j]] = j - 1
       /\ \A id \in AgentsOf(n) :
             /\ agentIndexInNullifier[id] < Len(listed)
             /\ listed[agentIndexInNullifier[id] + 1] = id

\* Looking an agent up by key and by number gives the same agent, and only an
\* agent with a human proof is found: isVerifiedAgent answers for the agent
\* that holds the key, never for one revoked before.
KeysIdentifyAgents ==
    /\ \A k \in AgentKeys : agentKeyToAgentId[k] # 0 =>
          /\ agentIdToAgentKey[agentKeyToAgentId[k]] = k
          /\ IsVerifiedAgent(k)
    /\ \A id \in AgentIds : agentHasHumanProof[id] =>
          agentKeyToAgentId[agentIdToAgentKey[id]] = id

\* A revoked agent leaves nothing another contract could act on: without a
\* human proof there is no provider, nullifier, guardian, config, expiry or
\* key, and without a token no URI and no metadata document; with a human
\* proof there is a token and a provider.
NoResidue ==
    \A id \in AgentIds :
       /\ agentHasHumanProof[id] =>
             /\ owner[id] # ZeroAddress
             /\ agentNullifier[id] # ZeroNullifier
             /\ agentProofProvider[id] # ZeroAddress
       /\ ~ agentHasHumanProof[id] =>
             /\ agentNullifier[id] = ZeroNullifier
             /\ agentProofProvider[id] = ZeroAddress
             /\ agentGuardian[id] = ZeroAddress
             /\ agentConfigId[id] = NoConfig
             /\ proofExpiresAt[id] = 0
             /\ agentCredentials[id] = 0
             /\ agentIdToAgentKey[id] = ZeroKey
       /\ owner[id] = ZeroAddress =>
             /\ agentURIs[id] = NoText
             /\ agentMetadata[id] = NoText

\* A proof never outlives the document it was read from, through registration
\* and any number of refreshes with other documents and other proof ages.
FreshOnlyWhileDocumentValid ==
    \A id \in AgentIds :
       IsProofFresh(id) /\ agentCredentials[id] # 0 => now < agentCredentials[id]

\* A key is registered once per nonce: the callback that carries a signed
\* challenge, delivered again after the agent was revoked, is refused, and of
\* two humans that hold a challenge for one nonce only one gets the key.  Only
\* under Ed25519 keys does one signed challenge register several agents, each
\* under another public key: nothing ties the public key to the key that signed.
ChallengeSpentPerKey ==
    \A a, b \in AgentIds : a # b /\ consentOf[a] # NoConsent =>
       /\ consentOf[a].key = consentOf[b].key =>
             consentOf[a].challenge.nonce # consentOf[b].challenge.nonce
       /\ consentOf[a].challenge = consentOf[b].challenge => consentOf[a].key \in Ed25519Keys

\* An agent with a human proof is paid only at a wallet that signed for it: for
\* this agent, this owner and a nonce that is spent.
WalletConsented ==
    \A id \in AgentIds :
       agentHasHumanProof[id] /\ agentWallet[id] # ZeroAddress =>
          \E consent \in walletSigned :
             /\ consent.agentId = id
             /\ consent.wallet = agentWallet[id]
             /\ consent.owner = owner[id]
             /\ consent.nonce < walletSetNonces[id]

KeepsIdentity ==
    /\ \A id \in AgentIds :
          /\ owner[id] # ZeroAddress /\ owner'[id] # ZeroAddress =>
                UNCHANGED <<owner[id], agentNullifier[id], agentIdToAgentKey[id],
                            agentProofProvider[id], agentConfigId[id],
                            agentRegisteredAt[id]>>
          /\ owner[id] = ZeroAddress /\ owner'[id] # ZeroAddress => id = nextAgentId
    /\ nextAgentId <= nextAgentId'

\* From its mint to its burn a token keeps its owner, and its agent the human,
\* key, provider, config and registration block; a number is not minted twice.
IdentityFixedForLife == [][KeepsIdentity]_vars

AdmitsBelowLimit ==
    \A n \in Nullifiers :
       Cardinality(AgentsOf(n)') > Cardinality(AgentsOf(n)) =>
          \/ maxAgentsPerHuman = 0
          \/ Cardinality(AgentsOf(n)') <= maxAgentsPerHuman

\* A human gains an agent only while below the limit in force, counted over the
\* agents that carry the proof, not by the counter.
RegistrationRespectsLimit == [][AdmitsBelowLimit]_vars

\* An agent as the ledger records it.
Entry(id) == [number |-> id, human |-> agentNullifier[id], key |-> agentIdToAgentKey[id]]

LiveIds == {id \in AgentIds : agentHasHumanProof[id]}

LiveEntries == {Entry(id) : id \in LiveIds}

Ledger == INSTANCE AgentLedger WITH
    Humans <- Nullifiers,
    AgentKeySet <- Keys,
    MaxIssued <- MaxAgentId,
    LimitValues <- Limits,
    ledger <- LiveEntries,
    issued <- nextAgentId - 1,
    limit <- maxAgentsPerHuman

\* The registry implements the ledger whose live agents are those with a human
\* proof: whatever its mappings go through, a registration admits a new number
\* under a free key to a human below the limit, a revocation removes one agent.
ImplementsLedger == Ledger!Spec
=============================================================================
