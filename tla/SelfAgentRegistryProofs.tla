------------------------ MODULE SelfAgentRegistryProofs ------------------------
(***************************************************************************)
(* Proofs about the registry for every value of its constants: the         *)
(* inductive invariant, what it gives (identity that lasts from mint to    *)
(* burn, challenges that register once, wallets that consented, proofs     *)
(* that end with their document), and that the registry implements         *)
(* AgentLedger: the limit is checked against a counter, and the invariant  *)
(* makes it the number of the human's live agents.                         *)
(***************************************************************************)
EXTENDS SelfAgentRegistry, SequenceTheorems, FiniteSetTheorems, FunctionTheorems, TLAPS

USE DEF AgentIds

-----------------------------------------------------------------------------
(* Type correctness.                                                       *)

\* Initially every mapping holds its default.
LEMMA InitTypeOK == Init => TypeOK
<1> SUFFICES ASSUME Init PROVE TypeOK
  OBVIOUS
<1> USE BoundsAssumption
<1>1. SettingsTypeOK
  BY DEF Init, SettingsTypeOK
<1>2. ProofTypeOK
  BY DEF Init, ProofTypeOK
<1>3. LookupTypeOK
  BY DEF Init, LookupTypeOK, Keys
<1>4. ProfileTypeOK
  BY DEF Init, ProfileTypeOK
<1>5. ConsentTypeOK
  BY DEF Init, ConsentTypeOK, NoConsent, Consents, Keys
<1> QED
  BY <1>1, <1>2, <1>3, <1>4, <1>5 DEF TypeOK

\* Minting, from any of the five registration paths, writes values of the
\* right types.
LEMMA MintTypeOK ==
  ASSUME TypeOK,
         NEW n \in Nullifiers, NEW key \in Keys,
         NEW provider \in Providers \cup {ZeroAddress},
         NEW to \in Owners, NEW uri \in Texts \cup {NoText},
         NEW config \in Configs \cup {NoConfig},
         NEW guardian \in Addresses \cup {ZeroAddress},
         NEW doc \in Nat, NEW expiry \in Nat,
         MintAgent(n, key, provider, to, uri, config, guardian, doc, expiry)
  PROVE  SettingsTypeOK' /\ ProofTypeOK' /\ LookupTypeOK' /\ ProfileTypeOK'
<1> USE BoundsAssumption
<1>1. SettingsTypeOK'
  BY DEF MintAgent, adminVars, TypeOK, SettingsTypeOK
<1>2. ProofTypeOK'
  BY DEF MintAgent, TypeOK, ProofTypeOK, ConsentTypeOK
<1>3. LookupTypeOK'
  <2>1. nextAgentId \in AgentIds /\ n \in Nullifiers \cup {ZeroNullifier}
    BY DEF MintAgent
  <2>2. agentKeyToAgentId' \in [Keys -> AgentIds \cup {0}]
    BY <2>1 DEF MintAgent, TypeOK, LookupTypeOK
  <2>3. agentIdToAgentKey' \in [AgentIds -> Keys]
    BY <2>1 DEF MintAgent, TypeOK, LookupTypeOK
  <2>4. activeAgentCount' \in [Nullifiers \cup {ZeroNullifier} -> Nat]
    BY <2>1 DEF MintAgent, TypeOK, LookupTypeOK
  <2>5. agentsByNullifier' \in [Nullifiers \cup {ZeroNullifier} -> Seq(AgentIds)]
    BY <2>1 DEF MintAgent, TypeOK, LookupTypeOK
  <2>6. agentIndexInNullifier' \in [AgentIds -> Nat]
    BY <2>1 DEF MintAgent, TypeOK, LookupTypeOK
  <2> QED
    BY <2>2, <2>3, <2>4, <2>5, <2>6 DEF LookupTypeOK
<1>4. ProfileTypeOK'
  BY DEF MintAgent, walletVars, TypeOK, ProfileTypeOK
<1> QED
  BY <1>1, <1>2, <1>3, <1>4

\* The expiry a registration or refresh writes is a time.
LEMMA ExpiryType ==
  ASSUME TypeOK, NEW doc \in Nat
  PROVE  AgeExpiry \in Nat /\ DisclosedExpiry(doc) \in Nat
  BY DEF AgeExpiry, DisclosedExpiry, TypeOK, SettingsTypeOK, ConsentTypeOK

\* A registration without a signature, or with one of either kind, leaves the
\* challenge nonces and the signatures well typed.
LEMMA ConsentStepTypeOK ==
  ASSUME TypeOK, nextAgentId \in AgentIds, UNCHANGED outsideVars,
         \/ NoSignature
         \/ \E agent \in Addresses, human \in Addresses : ConsumeAgentSignature(agent, human)
         \/ \E key \in Ed25519Keys, human \in Addresses : ConsumeEd25519Signature(key, human)
  PROVE  ConsentTypeOK'
<1> USE DEF TypeOK, ConsentTypeOK, nonceVars, outsideVars
<1>1. CASE NoSignature
  BY <1>1 DEF NoSignature
<1>2. ASSUME NEW agent \in Addresses, NEW human \in Addresses,
             ConsumeAgentSignature(agent, human)
      PROVE  ConsentTypeOK'
  <2>1. PICK made \in signed :
           consentOf' = [consentOf EXCEPT ![nextAgentId] = [key |-> agent, challenge |-> made]]
    BY <1>2 DEF ConsumeAgentSignature, ConsentGiven
  <2>2. [key |-> agent, challenge |-> made] \in Consents
    BY DEF Consents, Keys, AgentKeys
  <2> QED
    BY <1>2, <2>1, <2>2 DEF ConsumeAgentSignature
<1>3. ASSUME NEW key \in Ed25519Keys, NEW human \in Addresses,
             ConsumeEd25519Signature(key, human)
      PROVE  ConsentTypeOK'
  <2>1. PICK made \in signed :
           consentOf' = [consentOf EXCEPT ![nextAgentId] = [key |-> key, challenge |-> made]]
    BY <1>3 DEF ConsumeEd25519Signature, ConsentGiven
  <2>2. [key |-> key, challenge |-> made] \in Consents
    BY DEF Consents, Keys, AgentKeys
  <2> QED
    BY <1>3, <2>1, <2>2 DEF ConsumeEd25519Signature
<1> QED
  BY <1>1, <1>2, <1>3

\* Removing an entry leaves a sequence of the same elements, one shorter.
LEMMA SwapAndPopType ==
  ASSUME NEW S, NEW list \in Seq(S), list # << >>, NEW idx \in Nat
  PROVE  /\ SwapAndPop(list, idx) \in Seq(S)
         /\ Len(SwapAndPop(list, idx)) = Len(list) - 1
  BY DEF SwapAndPop

\* Revoking resets slots to defaults and shortens one array.
LEMMA RevokeTypeOK ==
  ASSUME TypeOK, NEW id \in AgentIds, RevokeAgent(id)
  PROVE  TypeOK'
<1> USE BoundsAssumption
<1> DEFINE n == agentNullifier[id]
           list == agentsByNullifier[n]
           idx == agentIndexInNullifier[id]
<1>1. n \in Nullifiers \cup {ZeroNullifier} /\ list \in Seq(AgentIds) /\ list # << >> /\ idx \in Nat
  BY DEF TypeOK, ProofTypeOK, LookupTypeOK, RevokeAgent, RevokeSucceeds
<1>2. SwapAndPop(list, idx) \in Seq(AgentIds)
  BY <1>1, SwapAndPopType
<1>3. SettingsTypeOK'
  BY DEF RevokeAgent, adminVars, TypeOK, SettingsTypeOK
<1>4. ProofTypeOK'
  BY DEF RevokeAgent, ClearProof, TypeOK, ProofTypeOK
<1>5. LookupTypeOK'
  <2>1. agentKeyToAgentId' \in [Keys -> AgentIds \cup {0}]
    BY DEF RevokeAgent, ReleaseKey, TypeOK, LookupTypeOK
  <2>2. agentIdToAgentKey' \in [AgentIds -> Keys]
    BY DEF RevokeAgent, ReleaseKey, TypeOK, LookupTypeOK, Keys
  <2>3. activeAgentCount' \in [Nullifiers \cup {ZeroNullifier} -> Nat]
    BY <1>1 DEF RevokeAgent, UnlistAgent, TypeOK, LookupTypeOK
  <2>4. agentsByNullifier' \in [Nullifiers \cup {ZeroNullifier} -> Seq(AgentIds)]
    BY <1>1, <1>2 DEF RevokeAgent, UnlistAgent, TypeOK, LookupTypeOK
  <2>5. agentIndexInNullifier' \in [AgentIds -> Nat]
    BY <1>1 DEF RevokeAgent, UnlistAgent, TypeOK, LookupTypeOK
  <2> QED
    BY <2>1, <2>2, <2>3, <2>4, <2>5 DEF LookupTypeOK
<1>6. ProfileTypeOK'
  BY DEF RevokeAgent, walletVars, TypeOK, ProfileTypeOK
<1>7. ConsentTypeOK'
  BY DEF RevokeAgent, nonceVars, outsideVars, TypeOK, ConsentTypeOK
<1> QED
  BY <1>3, <1>4, <1>5, <1>6, <1>7 DEF TypeOK

-----------------------------------------------------------------------------
(* The shapes of a step.  However it was called, a step that touches the   *)
(* identity of agents mints one, revokes one, refreshes one, or mints a    *)
(* token without a proof.                                                  *)

Consented ==
    \/ NoSignature
    \/ \E agent \in Addresses, human \in Addresses : ConsumeAgentSignature(agent, human)
    \/ \E key \in Ed25519Keys, human \in Addresses : ConsumeEd25519Signature(key, human)

Minting(n, key, provider, to, uri, config, guardian, doc, expiry) ==
    /\ MintAgent(n, key, provider, to, uri, config, guardian, doc, expiry)
    /\ doc > 0 => expiry <= doc
    /\ Consented

MintStep ==
    \E n \in Nullifiers, key \in Keys, provider \in Providers \cup {ZeroAddress},
       to \in Owners, uri \in Texts \cup {NoText}, config \in Configs \cup {NoConfig},
       guardian \in Addresses \cup {ZeroAddress}, doc \in Nat, expiry \in Nat :
       Minting(n, key, provider, to, uri, config, guardian, doc, expiry)

RevokeStep == \E id \in AgentIds : RevokeAgent(id)

RefreshStep ==
    \E id \in AgentIds, n \in Nullifiers, config \in Configs, doc \in DocExpiries :
       HubRefresh(id, n, config, doc)

BaseStep ==
    \E sender \in Addresses, uri \in Texts \cup {NoText}, wallet \in Wallets \cup {ZeroAddress} :
       BaseRegister(sender, uri, wallet)

\* Every way to register through the Hub is a mint.
LEMMA HubMintIsMint ==
  ASSUME TypeOK, NEW n \in Nullifiers, NEW key \in Keys, NEW to \in Owners,
         NEW config \in Configs, NEW guardian \in Addresses \cup {ZeroAddress},
         NEW doc \in DocExpiries, HubMint(n, key, to, config, guardian, doc), Consented
  PROVE  MintStep
<1>1. doc \in Nat /\ DisclosedExpiry(doc) \in Nat
  BY ExpiryType, BoundsAssumption
<1>2. selfProofProvider \in Providers \cup {ZeroAddress}
  BY DEF TypeOK, SettingsTypeOK
<1>3. MintAgent(n, key, selfProofProvider, to, NoText, config, guardian, doc, DisclosedExpiry(doc))
  BY DEF HubMint
<1>4. doc > 0 => DisclosedExpiry(doc) <= doc
  BY <1>1, ExpiryType DEF DisclosedExpiry
<1>5. Minting(n, key, selfProofProvider, to, NoText, config, guardian, doc, DisclosedExpiry(doc))
  BY <1>3, <1>4 DEF Minting
<1> QED
  BY <1>1, <1>2, <1>5 DEF MintStep

\* A callback of the Hub mints, revokes or refreshes.
LEMMA HubCallbackShape ==
  ASSUME TypeOK, HubCallback
  PROVE  MintStep \/ RevokeStep \/ RefreshStep
<1>1. PICK n \in Nullifiers :
         \/ \E key \in Addresses \cup {ZeroKey} : HubDeregister(n, key)
         \/ \E config \in Configs, doc \in DocExpiries :
               \/ \E id \in AgentIds : HubRefresh(id, n, config, doc)
               \/ \E human \in Addresses :
                     \/ HubRegister(n, human, config, doc)
                     \/ \E agent \in Addresses : HubRegisterAdvanced(n, human, agent, config, doc)
                     \/ \E guardian \in Addresses \cup {ZeroAddress} :
                           \/ \E agent \in Addresses :
                                 HubRegisterWalletFree(n, human, agent, guardian, config, doc)
                           \/ \E key \in Ed25519Keys :
                                 HubRegisterEd25519(n, human, key, guardian, config, doc)
  BY DEF HubCallback
<1>2. CASE \E key \in Addresses \cup {ZeroKey} : HubDeregister(n, key)
  BY <1>2 DEF HubDeregister, RevokeStep, TypeOK, LookupTypeOK, Keys, AgentKeys
<1>3. ASSUME NEW config \in Configs, NEW doc \in DocExpiries,
             \E id \in AgentIds : HubRefresh(id, n, config, doc)
      PROVE  RefreshStep
  BY <1>3 DEF RefreshStep
<1>4. ASSUME NEW config \in Configs, NEW doc \in DocExpiries, NEW human \in Addresses,
             HubRegister(n, human, config, doc)
      PROVE  MintStep
  BY <1>4, HubMintIsMint DEF HubRegister, Consented, Keys, AgentKeys, Owners
<1>5. ASSUME NEW config \in Configs, NEW doc \in DocExpiries, NEW human \in Addresses,
             NEW agent \in Addresses, HubRegisterAdvanced(n, human, agent, config, doc)
      PROVE  MintStep
  BY <1>5, HubMintIsMint DEF HubRegisterAdvanced, Consented, Keys, AgentKeys, Owners
<1>6. ASSUME NEW config \in Configs, NEW doc \in DocExpiries, NEW human \in Addresses,
             NEW guardian \in Addresses \cup {ZeroAddress}, NEW agent \in Addresses,
             HubRegisterWalletFree(n, human, agent, guardian, config, doc)
      PROVE  MintStep
  BY <1>6, HubMintIsMint DEF HubRegisterWalletFree, Consented, Keys, AgentKeys, Owners
<1>7. ASSUME NEW config \in Configs, NEW doc \in DocExpiries, NEW human \in Addresses,
             NEW guardian \in Addresses \cup {ZeroAddress}, NEW key \in Ed25519Keys,
             HubRegisterEd25519(n, human, key, guardian, config, doc)
      PROVE  MintStep
  <2>1. DerivedAddress[key] \in Owners
    BY DEF Owners, VirtualAddresses
  <2> QED
    BY <1>7, <2>1, HubMintIsMint DEF HubRegisterEd25519, Consented, Keys, AgentKeys
<1> QED
  BY <1>1, <1>2, <1>3, <1>4, <1>5, <1>6, <1>7

\* A public call mints with a proof, mints without one, or revokes.
LEMMA PublicCallShape ==
  ASSUME TypeOK, PublicCall
  PROVE  MintStep \/ RevokeStep \/ BaseStep
<1>1. PICK sender \in Addresses :
         \/ \E uri \in Texts \cup {NoText}, wallet \in Wallets \cup {ZeroAddress} :
               BaseRegister(sender, uri, wallet)
         \/ \E provider \in Providers, n \in Nullifiers, key \in Keys, uri \in Texts \cup {NoText} :
               RegisterWithHumanProof(sender, provider, n, key, uri)
         \/ \E id \in AgentIds :
               \/ GuardianRevoke(sender, id)
               \/ SelfDeregister(sender, id)
               \/ \E provider \in Providers, n \in Nullifiers : RevokeHumanProof(id, provider, n)
  BY DEF PublicCall
<1>2. ASSUME NEW provider \in Providers, NEW n \in Nullifiers, NEW key \in Keys,
             NEW uri \in Texts \cup {NoText},
             RegisterWithHumanProof(sender, provider, n, key, uri)
      PROVE  MintStep
  <2>1. AgeExpiry \in Nat
    BY ExpiryType
  <2>2. MintAgent(n, key, provider, sender, uri, NoConfig, ZeroAddress, 0, AgeExpiry) /\ NoSignature
    BY <1>2 DEF RegisterWithHumanProof
  <2>3. sender \in Owners
    BY DEF Owners
  <2>4. Minting(n, key, provider, sender, uri, NoConfig, ZeroAddress, 0, AgeExpiry)
    BY <2>2 DEF Minting, Consented
  <2> QED
    BY <2>1, <2>3, <2>4 DEF MintStep
<1> QED
  BY <1>1, <1>2 DEF BaseStep, RevokeStep, GuardianRevoke, SelfDeregister, RevokeHumanProof

\* Settings, profiles, signatures and time leave agents and lookups alone.
QuietStep == AdminStep \/ ProfileCall \/ OutsideStep

\* Every step has one of five shapes.
LEMMA NextShape ==
  ASSUME TypeOK, Next
  PROVE  MintStep \/ RevokeStep \/ RefreshStep \/ BaseStep \/ QuietStep
  BY HubCallbackShape, PublicCallShape DEF Next, QuietStep

\* They leave tokens, proofs, lookups and challenge nonces as they are.
LEMMA QuietStepUnchanged ==
  ASSUME QuietStep
  PROVE  UNCHANGED <<tokenVars, proofVars, expiryVars, lookupVars, nonceVars, consentOf>>
  BY DEF QuietStep, AdminStep, ProfileCall, OutsideStep

\* A new setting is of its type.
LEMMA AdminTypeOK ==
  ASSUME TypeOK, AdminStep
  PROVE  TypeOK'
<1>1. SettingsTypeOK'
  BY BoundsAssumption DEF AdminStep, SetRequireHumanProof, SetSelfProofProvider, AddProofProvider,
         RemoveProofProvider, SetMaxAgentsPerHuman, SetMaxProofAge, TypeOK, SettingsTypeOK
<1>2. UNCHANGED <<tokenVars, proofVars, expiryVars, lookupVars, textVars, walletVars,
                  nonceVars, outsideVars, consentOf>>
  BY DEF AdminStep
<1>3. ProofTypeOK' /\ LookupTypeOK'
  BY <1>2 DEF TypeOK, ProofTypeOK, LookupTypeOK, tokenVars, proofVars, expiryVars, lookupVars
<1>4. ProfileTypeOK' /\ ConsentTypeOK'
  BY <1>2 DEF TypeOK, ProfileTypeOK, ConsentTypeOK, textVars, walletVars, nonceVars, outsideVars
<1> QED
  BY <1>1, <1>3, <1>4 DEF TypeOK

\* So is what the owner of an agent writes to its profile.
LEMMA ProfileCallTypeOK ==
  ASSUME TypeOK, ProfileCall
  PROVE  TypeOK'
<1>1. ProfileTypeOK'
  <2> USE DEF TypeOK, ProfileTypeOK, textVars, walletVars
  <2>1. ASSUME NEW sender \in Addresses, NEW id \in AgentIds, NEW text \in Texts,
               UpdateAgentMetadata(sender, id, text) \/ SetAgentURI(sender, id, text)
        PROVE  ProfileTypeOK'
    BY <2>1 DEF UpdateAgentMetadata, SetAgentURI
  <2>2. ASSUME NEW sender \in Addresses, NEW id \in AgentIds, NEW wallet \in Wallets,
               NEW deadline \in 1 .. MaxTime, SetAgentWallet(sender, id, wallet, deadline)
        PROVE  ProfileTypeOK'
    BY <2>2 DEF SetAgentWallet
  <2>3. ASSUME NEW sender \in Addresses, NEW id \in AgentIds, UnsetAgentWallet(sender, id)
        PROVE  ProfileTypeOK'
    BY <2>3 DEF UnsetAgentWallet
  <2> QED
    BY <2>1, <2>2, <2>3 DEF ProfileCall
<1>2. UNCHANGED <<adminVars, tokenVars, proofVars, expiryVars, lookupVars, nonceVars,
                  outsideVars, consentOf>>
  BY DEF ProfileCall
<1>3. SettingsTypeOK' /\ ProofTypeOK' /\ LookupTypeOK'
  BY <1>2 DEF TypeOK, SettingsTypeOK, ProofTypeOK, LookupTypeOK, adminVars, tokenVars, proofVars,
              expiryVars, lookupVars
<1>4. ConsentTypeOK'
  BY <1>2 DEF TypeOK, ConsentTypeOK, nonceVars, outsideVars
<1> QED
  BY <1>1, <1>3, <1>4 DEF TypeOK

\* Signatures carry nonces of their signers.
LEMMA OutsideTypeOK ==
  ASSUME TypeOK, OutsideStep
  PROVE  TypeOK'
<1>1. UNCHANGED <<adminVars, tokenVars, proofVars, expiryVars, lookupVars, textVars,
                  walletVars, nonceVars, consentOf>>
  BY DEF OutsideStep
<1>2. ConsentTypeOK'
  <2>1. ASSUME NEW signer \in AgentKeys, NEW human \in Addresses, SignChallenge(signer, human)
        PROVE  ConsentTypeOK'
    BY <2>1, <1>1 DEF SignChallenge, TypeOK, ConsentTypeOK, Challenges, AgentKeys, nonceVars
  <2>2. ASSUME NEW id \in AgentIds, NEW wallet \in Wallets, NEW deadline \in 1 .. MaxTime,
               SignWalletConsent(id, wallet, deadline)
        PROVE  ConsentTypeOK'
    <3>1. owner[id] \in Owners /\ walletSetNonces[id] \in Nat /\ deadline \in Nat
      BY <2>2, BoundsAssumption DEF SignWalletConsent, TypeOK, ProofTypeOK, ProfileTypeOK
    <3> QED
      BY <3>1, <2>2, <1>1 DEF SignWalletConsent, TypeOK, ConsentTypeOK, WalletConsents, nonceVars
  <2>3. CASE Tick
    BY <2>3, <1>1 DEF Tick, TypeOK, ConsentTypeOK, nonceVars
  <2> QED
    BY <2>1, <2>2, <2>3 DEF OutsideStep
<1>3. SettingsTypeOK' /\ ProofTypeOK' /\ LookupTypeOK'
  BY <1>1 DEF TypeOK, SettingsTypeOK, ProofTypeOK, LookupTypeOK, adminVars, tokenVars, proofVars,
              expiryVars, lookupVars
<1>4. ProfileTypeOK'
  BY <1>1 DEF TypeOK, ProfileTypeOK, textVars, walletVars
<1> QED
  BY <1>2, <1>3, <1>4 DEF TypeOK

\* A refresh writes a document expiry and a proof expiry.
LEMMA RefreshTypeOK ==
  ASSUME TypeOK, RefreshStep
  PROVE  TypeOK'
<1>1. PICK id \in AgentIds, n \in Nullifiers, config \in Configs, doc \in DocExpiries :
         HubRefresh(id, n, config, doc)
  BY DEF RefreshStep
<1>2. doc \in Nat /\ DisclosedExpiry(doc) \in Nat
  BY ExpiryType, BoundsAssumption
<1>3. ProofTypeOK'
  BY <1>1, <1>2 DEF HubRefresh, TypeOK, ProofTypeOK, tokenVars, proofVars
<1>4. SettingsTypeOK' /\ LookupTypeOK'
  BY <1>1 DEF HubRefresh, TypeOK, SettingsTypeOK, LookupTypeOK, adminVars, lookupVars
<1>5. ProfileTypeOK' /\ ConsentTypeOK'
  BY <1>1 DEF HubRefresh, TypeOK, ProfileTypeOK, ConsentTypeOK, textVars, walletVars,
              nonceVars, outsideVars
<1> QED
  BY <1>3, <1>4, <1>5 DEF TypeOK

\* A token without a proof has an owner and a profile.
LEMMA BaseTypeOK ==
  ASSUME TypeOK, BaseStep
  PROVE  TypeOK'
<1>1. PICK sender \in Addresses, uri \in Texts \cup {NoText}, wallet \in Wallets \cup {ZeroAddress} :
         BaseRegister(sender, uri, wallet)
  BY DEF BaseStep
<1>2. ProofTypeOK'
  BY <1>1, BoundsAssumption DEF BaseRegister, TypeOK, ProofTypeOK, proofVars, expiryVars, Owners
<1>3. SettingsTypeOK' /\ LookupTypeOK'
  BY <1>1 DEF BaseRegister, TypeOK, SettingsTypeOK, LookupTypeOK, adminVars, lookupVars
<1>4. ProfileTypeOK'
  BY <1>1 DEF BaseRegister, TypeOK, ProfileTypeOK
<1>5. ConsentTypeOK'
  BY <1>1 DEF BaseRegister, TypeOK, ConsentTypeOK, nonceVars, outsideVars
<1> QED
  BY <1>2, <1>3, <1>4, <1>5 DEF TypeOK

\* A mint is a MintAgent with some parameters.
LEMMA MintShape ==
  ASSUME MintStep
  PROVE  /\ Consented
         /\ \E n \in Nullifiers, key \in Keys, provider \in Providers \cup {ZeroAddress},
               to \in Owners, uri \in Texts \cup {NoText}, config \in Configs \cup {NoConfig},
               guardian \in Addresses \cup {ZeroAddress}, doc \in Nat, expiry \in Nat :
               MintAgent(n, key, provider, to, uri, config, guardian, doc, expiry)
<1>1. PICK n \in Nullifiers, key \in Keys, provider \in Providers \cup {ZeroAddress},
           to \in Owners, uri \in Texts \cup {NoText}, config \in Configs \cup {NoConfig},
           guardian \in Addresses \cup {ZeroAddress}, doc \in Nat, expiry \in Nat :
         Minting(n, key, provider, to, uri, config, guardian, doc, expiry)
  BY Zenon DEF MintStep
<1>2. Consented /\ MintAgent(n, key, provider, to, uri, config, guardian, doc, expiry)
  BY <1>1 DEF Minting
<1> QED
  BY <1>2, Zenon

\* A mint with its signature, whatever the path, keeps every type.
LEMMA MintStepTypeOK ==
  ASSUME TypeOK, MintStep
  PROVE  TypeOK'
<1>1. PICK n \in Nullifiers, key \in Keys, provider \in Providers \cup {ZeroAddress},
           to \in Owners, uri \in Texts \cup {NoText}, config \in Configs \cup {NoConfig},
           guardian \in Addresses \cup {ZeroAddress}, doc \in Nat, expiry \in Nat :
         MintAgent(n, key, provider, to, uri, config, guardian, doc, expiry)
  BY MintShape
<1>2. SettingsTypeOK' /\ ProofTypeOK' /\ LookupTypeOK' /\ ProfileTypeOK'
  BY <1>1, MintTypeOK
<1>3. nextAgentId \in AgentIds /\ UNCHANGED outsideVars
  BY <1>1 DEF MintAgent
<1>4. ConsentTypeOK'
  BY <1>3, MintShape, ConsentStepTypeOK DEF Consented
<1> QED
  BY <1>2, <1>4 DEF TypeOK

\* A step of the environment that changes no variable keeps every type.
LEMMA StutterTypeOK ==
  ASSUME TypeOK, UNCHANGED vars
  PROVE  TypeOK'
<1>1. SettingsTypeOK' /\ ProofTypeOK' /\ LookupTypeOK'
  BY DEF vars, TypeOK, SettingsTypeOK, ProofTypeOK, LookupTypeOK, adminVars, tokenVars, proofVars,
         expiryVars, lookupVars
<1>2. ProfileTypeOK' /\ ConsentTypeOK'
  BY DEF vars, TypeOK, ProfileTypeOK, ConsentTypeOK, textVars, walletVars, nonceVars, outsideVars
<1> QED
  BY <1>1, <1>2 DEF TypeOK

\* Every slot of the registry's storage always holds a value of its type.
THEOREM TypeCorrect == Spec => []TypeOK
<1>1. TypeOK /\ [Next]_vars => TypeOK'
  BY NextShape, MintStepTypeOK, RevokeTypeOK, RefreshTypeOK, BaseTypeOK, AdminTypeOK,
     ProfileCallTypeOK, OutsideTypeOK, StutterTypeOK DEF RevokeStep, QuietStep
<1> QED
  BY <1>1, InitTypeOK, PTL DEF Spec

-----------------------------------------------------------------------------
(* The inductive invariant.  The three properties about lookups, keys and  *)
(* residue lean on one another: an agent is revoked through the array of   *)
(* its nullifier, so a revocation is of a proven agent only because tokens *)
(* without a proof sit under the zero nullifier, whose array stays empty;  *)
(* and a minted number is new only because no slot above the counter is    *)
(* used.                                                                   *)

UnissuedUnused ==
    \A id \in AgentIds : id >= nextAgentId => owner[id] = ZeroAddress /\ ~ agentHasHumanProof[id]

UnprovenUnlisted == agentsByNullifier[ZeroNullifier] = << >>

RegistryInv ==
    /\ TypeOK
    /\ UnissuedUnused
    /\ UnprovenUnlisted
    /\ NullifierIndexExact
    /\ KeysIdentifyAgents
    /\ NoResidue

\* The invariant holds of the freshly deployed contract.
LEMMA InitRegistryInv == Init => RegistryInv
<1> SUFFICES ASSUME Init PROVE RegistryInv
  OBVIOUS
<1>1. TypeOK
  BY InitTypeOK
<1>2. NullifierIndexExact
  BY DEF Init, NullifierIndexExact, AgentsOf
<1>3. KeysIdentifyAgents
  BY DEF Init, KeysIdentifyAgents, IsVerifiedAgent, Keys
<1>4. UnissuedUnused /\ UnprovenUnlisted /\ NoResidue
  BY DEF Init, UnissuedUnused, UnprovenUnlisted, NoResidue
<1> QED
  BY <1>1, <1>2, <1>3, <1>4 DEF RegistryInv

-----------------------------------------------------------------------------
(* Minting.                                                                *)

\* The number minted was never used, and the agent of no array or key.
LEMMA MintedIsNew ==
  ASSUME RegistryInv, MintStep
  PROVE  /\ nextAgentId \in AgentIds
         /\ owner[nextAgentId] = ZeroAddress
         /\ ~ agentHasHumanProof[nextAgentId]
         /\ UnissuedUnused'
<1>1. nextAgentId \in AgentIds
  BY DEF MintStep, Minting, MintAgent
<1>2. UnissuedUnused'
  BY <1>1 DEF MintStep, Minting, MintAgent, RegistryInv, UnissuedUnused, TypeOK, ProofTypeOK
<1> QED
  BY <1>1, <1>2 DEF RegistryInv, UnissuedUnused

\* The new agent is appended to its human's array and to no other.
LEMMA MintKeepsIndex ==
  ASSUME RegistryInv, MintStep
  PROVE  NullifierIndexExact' /\ UnprovenUnlisted'
<1>1. PICK n \in Nullifiers, key \in Keys, provider \in Providers \cup {ZeroAddress},
           to \in Owners, uri \in Texts \cup {NoText}, config \in Configs \cup {NoConfig},
           guardian \in Addresses \cup {ZeroAddress}, doc \in Nat, expiry \in Nat :
         MintAgent(n, key, provider, to, uri, config, guardian, doc, expiry)
  BY MintShape
<1> DEFINE id == nextAgentId
           listed == agentsByNullifier[n]
<1>2. /\ id \in AgentIds
      /\ ~ agentHasHumanProof[id]
      /\ listed \in Seq(AgentIds)
      /\ n # ZeroNullifier
  BY MintedIsNew, ZeroAssumption DEF RegistryInv, TypeOK, LookupTypeOK
<1>3. /\ agentHasHumanProof' = [agentHasHumanProof EXCEPT ![id] = TRUE]
      /\ agentNullifier' = [agentNullifier EXCEPT ![id] = n]
      /\ activeAgentCount' = [activeAgentCount EXCEPT ![n] = @ + 1]
      /\ agentIndexInNullifier' = [agentIndexInNullifier EXCEPT ![id] = Len(listed)]
      /\ agentsByNullifier' = [agentsByNullifier EXCEPT ![n] = Append(@, id)]
  BY <1>1 DEF MintAgent
<1> USE DEF RegistryInv, TypeOK, ProofTypeOK, LookupTypeOK
<1>4. ASSUME NEW m \in Nullifiers
      PROVE  AgentsOf(m)' = IF m = n THEN AgentsOf(m) \cup {id} ELSE AgentsOf(m)
  BY <1>2, <1>3 DEF AgentsOf
<1>5. ASSUME NEW m \in Nullifiers
      PROVE  /\ activeAgentCount'[m] = Len(agentsByNullifier'[m])
             /\ \A j \in 1 .. Len(agentsByNullifier'[m]) :
                   /\ agentsByNullifier'[m][j] \in AgentsOf(m)'
                   /\ agentIndexInNullifier'[agentsByNullifier'[m][j]] = j - 1
             /\ \A a \in AgentsOf(m)' :
                   /\ agentIndexInNullifier'[a] < Len(agentsByNullifier'[m])
                   /\ agentsByNullifier'[m][agentIndexInNullifier'[a] + 1] = a
  <2>1. id \notin AgentsOf(m)
    BY <1>2 DEF AgentsOf
  <2>2. CASE m # n
    BY <2>1, <2>2, <1>2, <1>3, <1>4 DEF NullifierIndexExact, AgentsOf
  <2>3. CASE m = n
    <3> DEFINE new == Append(listed, id)
    <3>1. /\ agentsByNullifier'[m] = new
          /\ activeAgentCount'[m] = activeAgentCount[m] + 1
          /\ AgentsOf(m)' = AgentsOf(m) \cup {id}
      BY <2>3, <1>3, <1>4
    <3>2. /\ Len(new) = Len(listed) + 1
          /\ new[Len(new)] = id
          /\ \A j \in 1 .. Len(listed) : new[j] = listed[j]
      BY <1>2
    <3>3. /\ activeAgentCount[m] = Len(listed)
          /\ \A j \in 1 .. Len(listed) :
                listed[j] \in AgentsOf(m) /\ agentIndexInNullifier[listed[j]] = j - 1
          /\ \A a \in AgentsOf(m) :
                /\ agentIndexInNullifier[a] < Len(listed)
                /\ listed[agentIndexInNullifier[a] + 1] = a
      BY <2>3 DEF NullifierIndexExact
    <3>4. /\ agentIndexInNullifier'[id] = Len(listed)
          /\ \A a \in AgentsOf(m) :
                agentIndexInNullifier'[a] = agentIndexInNullifier[a] /\ a \in AgentIds
      BY <2>1, <1>2, <1>3 DEF AgentsOf
    <3>5. Len(listed) \in Nat
      BY <1>2
    <3>6. ASSUME NEW j \in 1 .. Len(new)
          PROVE  new[j] \in AgentsOf(m)' /\ agentIndexInNullifier'[new[j]] = j - 1
      <4>1. CASE j = Len(new)
        BY <4>1, <3>1, <3>2, <3>4, <3>5
      <4>2. CASE j \in 1 .. Len(listed)
        BY <4>2, <3>1, <3>2, <3>3, <3>4
      <4> QED
        BY <4>1, <4>2, <3>2, <3>5
    <3>7. ASSUME NEW a \in AgentsOf(m)'
          PROVE  /\ agentIndexInNullifier'[a] < Len(new)
                 /\ new[agentIndexInNullifier'[a] + 1] = a
      <4>1. CASE a = id
        BY <4>1, <3>2, <3>4, <3>5
      <4>2. CASE a \in AgentsOf(m)
        <5>1. agentIndexInNullifier[a] + 1 \in 1 .. Len(listed)
          BY <4>2, <3>3, <3>5 DEF AgentsOf
        <5> QED
          BY <5>1, <4>2, <3>2, <3>3, <3>4, <3>5
      <4> QED
        BY <4>1, <4>2, <3>1
    <3> QED
      BY <3>1, <3>2, <3>3, <3>6, <3>7
  <2> QED
    BY <2>2, <2>3
<1>6. NullifierIndexExact'
  BY <1>5 DEF NullifierIndexExact
<1>7. UnprovenUnlisted'
  BY <1>2, <1>3 DEF UnprovenUnlisted
<1> QED
  BY <1>6, <1>7

\* Its key was free, so every other key still names its agent.
LEMMA MintKeepsKeys ==
  ASSUME RegistryInv, MintStep
  PROVE  KeysIdentifyAgents'
<1>1. PICK n \in Nullifiers, key \in Keys, provider \in Providers \cup {ZeroAddress},
           to \in Owners, uri \in Texts \cup {NoText}, config \in Configs \cup {NoConfig},
           guardian \in Addresses \cup {ZeroAddress}, doc \in Nat, expiry \in Nat :
         MintAgent(n, key, provider, to, uri, config, guardian, doc, expiry)
  BY MintShape
<1> DEFINE id == nextAgentId
<1>2. id \in AgentIds /\ ~ agentHasHumanProof[id]
  BY MintedIsNew
<1>3. /\ agentKeyToAgentId[key] = 0
      /\ agentHasHumanProof' = [agentHasHumanProof EXCEPT ![id] = TRUE]
      /\ agentKeyToAgentId' = [agentKeyToAgentId EXCEPT ![key] = id]
      /\ agentIdToAgentKey' = [agentIdToAgentKey EXCEPT ![id] = key]
  BY <1>1 DEF MintAgent
<1> USE DEF RegistryInv, TypeOK, ProofTypeOK, LookupTypeOK
<1>4. ASSUME NEW k \in AgentKeys, agentKeyToAgentId'[k] # 0
      PROVE  agentIdToAgentKey'[agentKeyToAgentId'[k]] = k /\ IsVerifiedAgent(k)'
  BY <1>2, <1>3, <1>4 DEF KeysIdentifyAgents, IsVerifiedAgent, Keys
<1>5. ASSUME NEW a \in AgentIds, agentHasHumanProof'[a]
      PROVE  agentKeyToAgentId'[agentIdToAgentKey'[a]] = a
  BY <1>2, <1>3, <1>5 DEF KeysIdentifyAgents, Keys
<1> QED
  BY <1>4, <1>5 DEF KeysIdentifyAgents

\* The new agent has all that a proof brings.
LEMMA MintKeepsNoResidue ==
  ASSUME RegistryInv, MintStep
  PROVE  NoResidue'
<1>1. PICK n \in Nullifiers, key \in Keys, provider \in Providers \cup {ZeroAddress},
           to \in Owners, uri \in Texts \cup {NoText}, config \in Configs \cup {NoConfig},
           guardian \in Addresses \cup {ZeroAddress}, doc \in Nat, expiry \in Nat :
         MintAgent(n, key, provider, to, uri, config, guardian, doc, expiry)
  BY MintShape
<1>2. nextAgentId \in AgentIds
  BY MintedIsNew
<1> QED
  BY <1>1, <1>2, ZeroAssumption
  DEF MintAgent, NoResidue, RegistryInv, TypeOK, ProofTypeOK, LookupTypeOK, ProfileTypeOK

-----------------------------------------------------------------------------
(* Revoking.                                                               *)

\* Only an agent with a proof is ever revoked: a token without one is under
\* the zero nullifier, whose array is empty.
LEMMA RevokedHasProof ==
  ASSUME RegistryInv, NEW id \in AgentIds, RevokeAgent(id)
  PROVE  agentHasHumanProof[id] /\ agentNullifier[id] \in Nullifiers
<1>1. agentNullifier[id] # ZeroNullifier
  BY DEF RevokeAgent, RevokeSucceeds, RegistryInv, UnprovenUnlisted
<1> QED
  BY <1>1 DEF RegistryInv, NoResidue, TypeOK, ProofTypeOK

\* Swap-and-pop takes the agent out of the array of its human, moves at most
\* the last entry, and no other array changes.
LEMMA RevokeKeepsIndex ==
  ASSUME RegistryInv, NEW id \in AgentIds, RevokeAgent(id)
  PROVE  NullifierIndexExact' /\ UnprovenUnlisted'
<1>0. PICK n \in Nullifiers : n = agentNullifier[id]
  BY RevokedHasProof
<1> DEFINE listed == agentsByNullifier[n]
           last == listed[Len(listed)]
           idx == agentIndexInNullifier[id]
           rest == SwapAndPop(listed, idx)
<1>1. /\ agentHasHumanProof[id]
      /\ n # ZeroNullifier
      /\ id \in AgentsOf(n)
  BY <1>0, RevokedHasProof, ZeroAssumption DEF AgentsOf
<1>2. /\ listed \in Seq(AgentIds)
      /\ Len(listed) \in Nat
      /\ idx \in Nat
  <2>1. agentsByNullifier \in [Nullifiers \cup {ZeroNullifier} -> Seq(AgentIds)]
    BY DEF RegistryInv, TypeOK, LookupTypeOK
  <2>2. agentIndexInNullifier \in [AgentIds -> Nat]
    BY DEF RegistryInv, TypeOK, LookupTypeOK
  <2>3. listed \in Seq(AgentIds)
    BY <2>1
  <2>4. Len(listed) \in Nat
    BY <2>3
  <2> QED
    BY <2>2, <2>3, <2>4
<1>3. listed # << >>
  BY <1>0 DEF RevokeAgent, RevokeSucceeds
<1>4. Len(listed) > 0
  BY <1>2, <1>3
<1>5. /\ agentHasHumanProof' = [agentHasHumanProof EXCEPT ![id] = FALSE]
      /\ activeAgentCount' = [activeAgentCount EXCEPT ![n] = IF @ > 0 THEN @ - 1 ELSE @]
      /\ agentsByNullifier' = [agentsByNullifier EXCEPT ![n] = rest]
      /\ agentIndexInNullifier' = [agentIndexInNullifier EXCEPT ![last] = idx, ![id] = 0]
      /\ agentNullifier' = [agentNullifier EXCEPT ![id] = ZeroNullifier]
  BY <1>0 DEF RevokeAgent, UnlistAgent, ClearProof
<1>6. /\ activeAgentCount[n] = Len(listed)
      /\ \A j \in 1 .. Len(listed) :
            listed[j] \in AgentsOf(n) /\ agentIndexInNullifier[listed[j]] = j - 1
      /\ \A a \in AgentsOf(n) :
            /\ agentIndexInNullifier[a] < Len(listed)
            /\ listed[agentIndexInNullifier[a] + 1] = a
  BY <1>1 DEF RegistryInv, NullifierIndexExact
<1>7. /\ Len(rest) = Len(listed) - 1
      /\ \A j \in 1 .. Len(listed) - 1 : rest[j] = IF j = idx + 1 THEN last ELSE listed[j]
  BY <1>2, <1>4 DEF SwapAndPop
<1>8. /\ agentIndexInNullifier \in [AgentIds -> Nat]
      /\ agentHasHumanProof \in [AgentIds -> BOOLEAN]
      /\ agentNullifier \in [AgentIds -> Nullifiers \cup {ZeroNullifier}]
      /\ activeAgentCount \in [Nullifiers \cup {ZeroNullifier} -> Nat]
      /\ agentsByNullifier \in [Nullifiers \cup {ZeroNullifier} -> Seq(AgentIds)]
  BY DEF RegistryInv, TypeOK, ProofTypeOK, LookupTypeOK
<1>9. \A m \in Nullifiers : AgentsOf(m)' = AgentsOf(m) \ {id}
  BY <1>1, <1>5, <1>8, ZeroAssumption DEF AgentsOf
<1>10. activeAgentCount'[n] = Len(rest) /\ agentsByNullifier'[n] = rest
  BY <1>1, <1>2, <1>4, <1>5, <1>6, <1>7, <1>8
<1>11. \A m \in Nullifiers : m # n =>
          /\ activeAgentCount'[m] = activeAgentCount[m]
          /\ agentsByNullifier'[m] = agentsByNullifier[m]
          /\ AgentsOf(m)' = AgentsOf(m)
  <2>1. \A m \in Nullifiers : m # n => id \notin AgentsOf(m)
    BY <1>0 DEF AgentsOf
  <2> QED
    BY <2>1, <1>5, <1>8, <1>9
<1>12. /\ last \in AgentsOf(n)
       /\ agentIndexInNullifier[last] = Len(listed) - 1
  BY <1>2, <1>4, <1>6
<1>13. idx < Len(listed) /\ listed[idx + 1] = id
  BY <1>1, <1>6
<1>14. \A m \in Nullifiers : \A a \in AgentsOf(m) : a \in AgentIds /\ agentNullifier[a] = m
  BY DEF AgentsOf
<1>15. \A a \in AgentIds \ {id} :
          agentIndexInNullifier'[a] = IF a = last THEN idx ELSE agentIndexInNullifier[a]
  BY <1>5, <1>8
<1>16. UnprovenUnlisted'
  BY <1>1, <1>5, <1>8 DEF RegistryInv, UnprovenUnlisted
<1> HIDE DEF listed, last, idx, rest
<1>17. ASSUME NEW j \in 1 .. Len(rest)
       PROVE  rest[j] \in AgentsOf(n)' /\ agentIndexInNullifier'[rest[j]] = j - 1
  <2>1. j \in 1 .. Len(listed) - 1 /\ j \in 1 .. Len(listed) /\ j # Len(listed)
    BY <1>2, <1>7
  <2>2. CASE j = idx + 1
    <3>1. rest[j] = last
      BY <2>1, <2>2, <1>7
    <3>2. last # id
      BY <2>1, <2>2, <1>2, <1>12, <1>13, <1>15, <1>6
    <3> QED
      BY <3>1, <3>2, <2>2, <1>1, <1>2, <1>9, <1>12, <1>14, <1>15
  <2>3. CASE j # idx + 1
    <3>1. /\ rest[j] = listed[j]
          /\ listed[j] \in AgentsOf(n)
          /\ agentIndexInNullifier[listed[j]] = j - 1
      BY <2>1, <2>3, <1>6, <1>7
    <3>2. listed[j] # last
      BY <3>1, <2>1, <1>2, <1>12
    <3>3. listed[j] # id
      <4>1. agentIndexInNullifier[id] = idx
        BY DEF idx
      <4> QED
        BY <4>1, <3>1, <2>1, <2>3, <1>2
    <3>4. listed[j] \in AgentIds
      BY <3>1, <1>14
    <3>5. agentIndexInNullifier'[listed[j]] = j - 1
      BY <3>1, <3>2, <3>3, <3>4, <1>15
    <3>6. listed[j] \in AgentsOf(n)'
      BY <3>1, <3>3, <1>9
    <3> QED
      BY <3>1, <3>5, <3>6
  <2> QED
    BY <2>2, <2>3
<1>18. ASSUME NEW a \in AgentsOf(n)'
       PROVE  /\ agentIndexInNullifier'[a] < Len(rest)
              /\ rest[agentIndexInNullifier'[a] + 1] = a
  <2>1. a \in AgentsOf(n) /\ a # id /\ a \in AgentIds
    <3>1. a \in AgentsOf(n) \ {id}
      BY <1>9
    <3> QED
      BY <3>1, <1>14
  <2>2. CASE a = last
    <3>1. agentIndexInNullifier'[a] = idx
      BY <2>1, <2>2, <1>15
    <3>2. listed[Len(listed)] = last
      BY Zenon DEF last
    <3>3. idx + 1 # Len(listed)
      BY <3>2, <2>1, <2>2, <1>13
    <3>4. idx + 1 \in 1 .. Len(listed) - 1
      BY <3>3, <1>2, <1>13
    <3> QED
      BY <3>1, <3>4, <2>2, <1>2, <1>7
  <2>3. CASE a # last
    <3> DEFINE i == agentIndexInNullifier[a]
    <3>1. i \in Nat /\ i < Len(listed) /\ listed[i + 1] = a
      BY <2>1, <1>6, <1>8
    <3>2. listed[Len(listed)] = last
      BY DEF last
    <3>3. i + 1 # Len(listed) /\ i # idx
      BY <3>1, <3>2, <2>1, <2>3, <1>13
    <3>4. i + 1 \in 1 .. Len(listed) - 1 /\ i + 1 # idx + 1
      BY <3>1, <3>3, <1>2
    <3>5. agentIndexInNullifier'[a] = i
      BY <2>1, <2>3, <1>15
    <3> QED
      BY <3>1, <3>4, <3>5, <1>2, <1>7
  <2> QED
    BY <2>2, <2>3
<1>19. ASSUME NEW m \in Nullifiers, m # n
       PROVE  /\ activeAgentCount'[m] = Len(agentsByNullifier'[m])
              /\ \A j \in 1 .. Len(agentsByNullifier'[m]) :
                    /\ agentsByNullifier'[m][j] \in AgentsOf(m)'
                    /\ agentIndexInNullifier'[agentsByNullifier'[m][j]] = j - 1
              /\ \A a \in AgentsOf(m)' :
                    /\ agentIndexInNullifier'[a] < Len(agentsByNullifier'[m])
                    /\ agentsByNullifier'[m][agentIndexInNullifier'[a] + 1] = a
  <2>1. \A a \in AgentsOf(m) : a \in AgentIds \ {id} /\ a # last
    BY <1>1, <1>12, <1>14, <1>0, <1>19
  <2>2. \A a \in AgentsOf(m) : agentIndexInNullifier'[a] = agentIndexInNullifier[a]
    BY <2>1, <1>15
  <2>3. /\ activeAgentCount[m] = Len(agentsByNullifier[m])
        /\ \A j \in 1 .. Len(agentsByNullifier[m]) :
              /\ agentsByNullifier[m][j] \in AgentsOf(m)
              /\ agentIndexInNullifier[agentsByNullifier[m][j]] = j - 1
        /\ \A a \in AgentsOf(m) :
              /\ agentIndexInNullifier[a] < Len(agentsByNullifier[m])
              /\ agentsByNullifier[m][agentIndexInNullifier[a] + 1] = a
    BY DEF RegistryInv, NullifierIndexExact
  <2> QED
    BY <2>2, <2>3, <1>11, <1>19
<1>20. NullifierIndexExact'
  <2> SUFFICES ASSUME NEW m \in Nullifiers
               PROVE  /\ activeAgentCount'[m] = Len(agentsByNullifier'[m])
                      /\ \A j \in 1 .. Len(agentsByNullifier'[m]) :
                            /\ agentsByNullifier'[m][j] \in AgentsOf(m)'
                            /\ agentIndexInNullifier'[agentsByNullifier'[m][j]] = j - 1
                      /\ \A a \in AgentsOf(m)' :
                            /\ agentIndexInNullifier'[a] < Len(agentsByNullifier'[m])
                            /\ agentsByNullifier'[m][agentIndexInNullifier'[a] + 1] = a
    BY DEF NullifierIndexExact
  <2>1. CASE m = n
    BY <2>1, <1>10, <1>17, <1>18
  <2>2. CASE m # n
    BY <2>2, <1>19
  <2> QED
    BY <2>1, <2>2
<1> QED
  BY <1>16, <1>20

\* The key of the agent is freed, the keys of others stay.
LEMMA RevokeKeepsKeys ==
  ASSUME RegistryInv, NEW id \in AgentIds, RevokeAgent(id)
  PROVE  KeysIdentifyAgents'
<1> DEFINE key == agentIdToAgentKey[id]
<1> USE DEF RegistryInv, TypeOK, ProofTypeOK, LookupTypeOK
<1>1. /\ agentHasHumanProof[id]
      /\ agentHasHumanProof' = [agentHasHumanProof EXCEPT ![id] = FALSE]
      /\ agentKeyToAgentId' = IF key = ZeroKey THEN agentKeyToAgentId
                              ELSE [agentKeyToAgentId EXCEPT ![key] = 0]
      /\ agentIdToAgentKey' = [agentIdToAgentKey EXCEPT ![id] = ZeroKey]
  BY RevokedHasProof DEF RevokeAgent, ReleaseKey, ClearProof
<1>2. agentKeyToAgentId[key] = id
  BY <1>1 DEF KeysIdentifyAgents
<1>3. ASSUME NEW k \in AgentKeys, agentKeyToAgentId'[k] # 0
      PROVE  agentIdToAgentKey'[agentKeyToAgentId'[k]] = k /\ IsVerifiedAgent(k)'
  <2>1. k # key /\ agentKeyToAgentId'[k] = agentKeyToAgentId[k]
    BY <1>1, <1>3, ZeroAssumption DEF Keys
  <2>2. agentKeyToAgentId[k] # id
    BY <2>1, <1>3 DEF KeysIdentifyAgents, Keys
  <2> QED
    BY <2>1, <2>2, <1>1, <1>3 DEF KeysIdentifyAgents, IsVerifiedAgent, Keys
<1>4. ASSUME NEW a \in AgentIds, agentHasHumanProof'[a]
      PROVE  agentKeyToAgentId'[agentIdToAgentKey'[a]] = a
  <2>1. a # id /\ agentHasHumanProof[a] /\ agentIdToAgentKey'[a] = agentIdToAgentKey[a]
    BY <1>1, <1>4
  <2>2. agentKeyToAgentId[agentIdToAgentKey[a]] = a
    BY <2>1 DEF KeysIdentifyAgents
  <2> QED
    BY <2>1, <2>2, <1>1, <1>2
<1> QED
  BY <1>3, <1>4 DEF KeysIdentifyAgents

\* No number above the counter comes into use, and the slots are reset.
LEMMA RevokeKeepsRest ==
  ASSUME RegistryInv, NEW id \in AgentIds, RevokeAgent(id)
  PROVE  UnissuedUnused' /\ NoResidue'
<1> USE DEF RegistryInv, TypeOK, ProofTypeOK, LookupTypeOK
<1>1. UnissuedUnused'
  BY DEF RevokeAgent, ClearProof, UnissuedUnused
<1>2. NoResidue'
  BY DEF RevokeAgent, ReleaseKey, ClearProof, NoResidue, ProfileTypeOK
<1> QED
  BY <1>1, <1>2

-----------------------------------------------------------------------------
(* The other steps.                                                        *)

\* A refresh writes no lookup, and only where there is a proof.
LEMMA RefreshKeepsInv ==
  ASSUME RegistryInv, RefreshStep
  PROVE  RegistryInv'
<1>1. PICK id \in AgentIds, n \in Nullifiers, config \in Configs, doc \in DocExpiries :
         HubRefresh(id, n, config, doc)
  BY DEF RefreshStep
<1>2. /\ UNCHANGED <<tokenVars, proofVars, lookupVars, textVars>>
      /\ agentHasHumanProof[id]
  BY <1>1 DEF HubRefresh
<1>3. TypeOK'
  BY RefreshTypeOK DEF RegistryInv
<1>4. UnissuedUnused' /\ UnprovenUnlisted'
  BY <1>2 DEF RegistryInv, UnissuedUnused, UnprovenUnlisted, tokenVars, proofVars, lookupVars
<1>5. NullifierIndexExact' /\ KeysIdentifyAgents'
  BY <1>2 DEF RegistryInv, NullifierIndexExact, KeysIdentifyAgents, AgentsOf, IsVerifiedAgent,
              tokenVars, proofVars, lookupVars
<1>6. NoResidue'
  BY <1>1, <1>2 DEF HubRefresh, RegistryInv, NoResidue, TypeOK, ProofTypeOK, tokenVars, proofVars,
              lookupVars, textVars
<1> QED
  BY <1>3, <1>4, <1>5, <1>6 DEF RegistryInv

\* A token without a proof gets a number and an owner, nothing else.
LEMMA BaseKeepsInv ==
  ASSUME RegistryInv, BaseStep
  PROVE  RegistryInv'
<1>1. PICK sender \in Addresses, uri \in Texts \cup {NoText}, wallet \in Wallets \cup {ZeroAddress} :
         BaseRegister(sender, uri, wallet)
  BY DEF BaseStep
<1>2. /\ UNCHANGED <<proofVars, expiryVars, lookupVars, agentMetadata>>
      /\ nextAgentId \in AgentIds
      /\ nextAgentId' = nextAgentId + 1
      /\ owner' = [owner EXCEPT ![nextAgentId] = sender]
      /\ agentURIs' = [agentURIs EXCEPT ![nextAgentId] = uri]
  BY <1>1 DEF BaseRegister
<1>3. TypeOK'
  BY BaseTypeOK DEF RegistryInv
<1>4. UnissuedUnused' /\ UnprovenUnlisted'
  BY <1>2 DEF RegistryInv, UnissuedUnused, UnprovenUnlisted, TypeOK, ProofTypeOK, proofVars, lookupVars
<1>5. NullifierIndexExact' /\ KeysIdentifyAgents'
  BY <1>2 DEF RegistryInv, NullifierIndexExact, KeysIdentifyAgents, AgentsOf, IsVerifiedAgent,
              proofVars, lookupVars
<1>6. NoResidue'
  <2>1. sender # ZeroAddress
    BY ZeroAssumption DEF Owners
  <2> QED
    BY <2>1, <1>2 DEF RegistryInv, NoResidue, TypeOK, ProofTypeOK, ProfileTypeOK, proofVars, expiryVars,
                lookupVars
<1> QED
  BY <1>3, <1>4, <1>5, <1>6 DEF RegistryInv

\* What touches neither token, proof nor lookup leaves the invariant alone,
\* given that a document belongs to a token.
LEMMA QuietKeepsInv ==
  ASSUME RegistryInv, QuietStep
  PROVE  RegistryInv'
<1>1. UNCHANGED <<tokenVars, proofVars, expiryVars, lookupVars>>
  BY QuietStepUnchanged
<1>2. TypeOK'
  BY AdminTypeOK, ProfileCallTypeOK, OutsideTypeOK DEF QuietStep, RegistryInv
<1>3. UnissuedUnused' /\ UnprovenUnlisted'
  BY <1>1 DEF RegistryInv, UnissuedUnused, UnprovenUnlisted, tokenVars, proofVars, lookupVars
<1>4. NullifierIndexExact' /\ KeysIdentifyAgents'
  BY <1>1 DEF RegistryInv, NullifierIndexExact, KeysIdentifyAgents, AgentsOf, IsVerifiedAgent,
              tokenVars, proofVars, lookupVars
<1>5. ASSUME NEW id \in AgentIds, owner[id] = ZeroAddress
      PROVE  agentURIs'[id] = NoText /\ agentMetadata'[id] = NoText
  <2>1. CASE ProfileCall
    <3>1. ZeroAddress \notin Addresses
      BY ZeroAssumption DEF Owners
    <3>2. PICK sender \in Addresses, target \in AgentIds :
             /\ sender = owner[target]
             /\ \/ \E text \in Texts : \/ UpdateAgentMetadata(sender, target, text)
                                      \/ SetAgentURI(sender, target, text)
                \/ UNCHANGED textVars
      BY <2>1 DEF ProfileCall, UpdateAgentMetadata, SetAgentURI, SetAgentWallet,
           UnsetAgentWallet
    <3>3. target # id
      BY <3>1, <3>2, <1>5
    <3>4. agentURIs[id] = NoText /\ agentMetadata[id] = NoText
      BY <1>5 DEF RegistryInv, NoResidue
    <3>5. /\ agentURIs \in [AgentIds -> Texts \cup {NoText}]
          /\ agentMetadata \in [AgentIds -> Texts \cup {NoText}]
      BY DEF RegistryInv, TypeOK, ProfileTypeOK
    <3> QED
      BY <3>2, <3>3, <3>4, <3>5 DEF UpdateAgentMetadata, SetAgentURI, textVars
  <2>2. CASE AdminStep \/ OutsideStep
    BY <2>2, <1>5 DEF AdminStep, OutsideStep, textVars, RegistryInv, NoResidue
  <2> QED
    BY <2>1, <2>2 DEF QuietStep
<1>6. NoResidue'
  BY <1>1, <1>5 DEF RegistryInv, NoResidue, tokenVars, proofVars, expiryVars, lookupVars
<1> QED
  BY <1>2, <1>3, <1>4, <1>6 DEF RegistryInv

\* A step that changes no variable keeps the invariant.
LEMMA StutterKeepsInv ==
  ASSUME RegistryInv, UNCHANGED vars
  PROVE  RegistryInv'
<1>1. TypeOK'
  BY StutterTypeOK DEF RegistryInv
<1> QED
  BY <1>1 DEF vars, RegistryInv, UnissuedUnused, UnprovenUnlisted, NullifierIndexExact,
     KeysIdentifyAgents, NoResidue, AgentsOf, IsVerifiedAgent, tokenVars, proofVars, expiryVars,
     lookupVars, textVars

\* Every step keeps the invariant.
LEMMA StepKeepsInv == RegistryInv /\ [Next]_vars => RegistryInv'
<1> SUFFICES ASSUME RegistryInv, [Next]_vars PROVE RegistryInv'
  OBVIOUS
<1>1. CASE MintStep
  BY <1>1, MintStepTypeOK, MintedIsNew, MintKeepsIndex, MintKeepsKeys, MintKeepsNoResidue
  DEF RegistryInv
<1>2. CASE RevokeStep
  BY <1>2, RevokeTypeOK, RevokeKeepsIndex, RevokeKeepsKeys, RevokeKeepsRest
  DEF RegistryInv, RevokeStep
<1> QED
  BY <1>1, <1>2, NextShape, RefreshKeepsInv, BaseKeepsInv, QuietKeepsInv, StutterKeepsInv
  DEF RegistryInv

\* The inductive invariant holds throughout.
THEOREM RegistryCorrect == Spec => []RegistryInv
  BY InitRegistryInv, StepKeepsInv, PTL DEF Spec

\* The array, the index map and the counter of a human always agree.
THEOREM IndexCorrect == Spec => []NullifierIndexExact
  BY RegistryCorrect, PTL DEF RegistryInv

\* Keys and numbers always name the same live agents.
THEOREM KeysCorrect == Spec => []KeysIdentifyAgents
  BY RegistryCorrect, PTL DEF RegistryInv

\* A revoked agent leaves nothing behind that another contract reads.
THEOREM ResidueCorrect == Spec => []NoResidue
  BY RegistryCorrect, PTL DEF RegistryInv

-----------------------------------------------------------------------------
(* Identity.                                                               *)

\* A mint or a base registration gives an owner to the next number only and
\* writes the slots of no other.
LEMMA NewTokenKeepsIdentity ==
  ASSUME RegistryInv, MintStep \/ BaseStep
  PROVE  KeepsIdentity
<1>1. /\ nextAgentId \in Nat
      /\ owner[nextAgentId] = ZeroAddress
      /\ nextAgentId' = nextAgentId + 1
  <2>1. nextAgentId \in AgentIds /\ nextAgentId' = nextAgentId + 1
    BY DEF MintStep, Minting, MintAgent, BaseStep, BaseRegister
  <2> QED
    BY <2>1, BoundsAssumption DEF RegistryInv, UnissuedUnused
<1>2. \A id \in AgentIds : id # nextAgentId =>
         /\ owner'[id] = owner[id]
         /\ UNCHANGED <<agentNullifier[id], agentIdToAgentKey[id], agentProofProvider[id],
                        agentConfigId[id], agentRegisteredAt[id]>>
  <2> USE DEF RegistryInv, TypeOK, ProofTypeOK, LookupTypeOK
  <2>1. CASE MintStep
    BY <2>1 DEF MintStep, Minting, MintAgent
  <2>2. CASE BaseStep
    BY <2>2 DEF BaseStep, BaseRegister, proofVars, lookupVars
  <2> QED
    BY <2>1, <2>2
<1> QED
  BY <1>1, <1>2 DEF KeepsIdentity

\* A revocation burns one token; the slots of the others stay.
LEMMA RevokeKeepsIdentity ==
  ASSUME RegistryInv, RevokeStep
  PROVE  KeepsIdentity
<1>1. PICK id \in AgentIds : RevokeAgent(id)
  BY DEF RevokeStep
<1>2. owner' = [owner EXCEPT ![id] = ZeroAddress] /\ nextAgentId' = nextAgentId
  BY <1>1 DEF RevokeAgent
<1>3. \A a \in AgentIds : a # id =>
         UNCHANGED <<owner[a], agentNullifier[a], agentIdToAgentKey[a], agentProofProvider[a],
                     agentConfigId[a], agentRegisteredAt[a]>>
  BY <1>1 DEF RevokeAgent, ReleaseKey, ClearProof, RegistryInv, TypeOK, ProofTypeOK, LookupTypeOK
<1> QED
  BY <1>2, <1>3 DEF KeepsIdentity, RegistryInv, TypeOK, ProofTypeOK

\* Every step keeps the identity of every agent that lives on.
LEMMA StepKeepsIdentity ==
  ASSUME RegistryInv, Next
  PROVE  KeepsIdentity
<1>1. CASE RefreshStep \/ QuietStep
  <2>1. UNCHANGED <<tokenVars, proofVars, lookupVars>>
    BY <1>1, QuietStepUnchanged DEF RefreshStep, HubRefresh
  <2> QED
    BY <2>1 DEF KeepsIdentity, tokenVars, proofVars, lookupVars, RegistryInv, TypeOK, ProofTypeOK
<1> QED
  BY <1>1, NextShape, NewTokenKeepsIdentity, RevokeKeepsIdentity DEF RegistryInv

\* An agent keeps owner, human, key, provider, config and registration block
\* until it is revoked, and no number is given out twice.
THEOREM IdentityCorrect == Spec => IdentityFixedForLife
<1>1. RegistryInv /\ [Next]_vars => [KeepsIdentity]_vars
  BY StepKeepsIdentity
<1> QED
  BY <1>1, RegistryCorrect, PTL DEF Spec, IdentityFixedForLife

-----------------------------------------------------------------------------
(* Challenges.  A consumed nonce stays below the key's current nonce, so   *)
(* the next registration of the key consumes another; an ECDSA agent has   *)
(* signed its challenge itself, an Ed25519 one with some Ed25519 key.      *)

ConsentSpentBy(id) ==
    /\ id >= nextAgentId => consentOf[id] = NoConsent
    /\ consentOf[id].key \in Addresses =>
          /\ consentOf[id].challenge.nonce < agentNonces[consentOf[id].key]
          /\ consentOf[id].challenge.signer = consentOf[id].key
    /\ consentOf[id].key \in Ed25519Keys =>
          /\ consentOf[id].challenge.nonce < ed25519Nonces[consentOf[id].key]
          /\ consentOf[id].challenge.signer \in Ed25519Keys
    /\ consentOf[id].key = ZeroKey => consentOf[id] = NoConsent

ConsentSpent == \A id \in AgentIds : ConsentSpentBy(id)

ConsentInv == ConsentSpent /\ ChallengeSpentPerKey

\* Initially no challenge was consumed.
LEMMA InitConsentInv == Init => ConsentInv
  BY ZeroAssumption
  DEF Init, ConsentInv, ConsentSpent, ConsentSpentBy, ChallengeSpentPerKey, NoConsent, Challenge, AgentKeys

\* A consent that no other agent's is like: of a nonce that no agent of the key
\* has consumed, and, of an ECDSA key, of a challenge that no agent has.
LEMMA NewConsentKeepsProperty ==
  ASSUME TypeOK, ConsentInv, nextAgentId \in AgentIds,
         NEW agentKey \in AgentKeys, NEW made \in Challenges,
         consentOf' = [consentOf EXCEPT ![nextAgentId] = [key |-> agentKey, challenge |-> made]],
         \A id \in AgentIds :
            consentOf[id].key = agentKey => consentOf[id].challenge.nonce # made.nonce,
         agentKey \notin Ed25519Keys =>
            \A id \in AgentIds : consentOf[id].challenge # made,
         agentKey \in Ed25519Keys =>
            \A id \in AgentIds : consentOf[id].challenge = made => consentOf[id].key \in Ed25519Keys
  PROVE  ChallengeSpentPerKey'
<1>1. consentOf \in [AgentIds -> Consents]
  BY DEF TypeOK, ConsentTypeOK
<1>2. SUFFICES ASSUME NEW a \in AgentIds, NEW b \in AgentIds, a # b, consentOf'[a] # NoConsent
               PROVE  /\ consentOf'[a].key = consentOf'[b].key =>
                            consentOf'[a].challenge.nonce # consentOf'[b].challenge.nonce
                      /\ consentOf'[a].challenge = consentOf'[b].challenge =>
                            consentOf'[a].key \in Ed25519Keys
  BY DEF ChallengeSpentPerKey
<1>3. CASE a # nextAgentId /\ b # nextAgentId
  <2>1. consentOf'[a] = consentOf[a] /\ consentOf'[b] = consentOf[b]
    BY <1>1, <1>3
  <2> QED
    BY <1>2, <2>1 DEF ConsentInv, ChallengeSpentPerKey
<1>4. CASE a = nextAgentId
  <2>1. /\ consentOf'[a].key = agentKey /\ consentOf'[a].challenge = made
        /\ consentOf'[b] = consentOf[b]
    BY <1>1, <1>2, <1>4
  <2> QED
    BY <2>1
<1>5. CASE b = nextAgentId
  <2>1. /\ consentOf'[b].key = agentKey /\ consentOf'[b].challenge = made
        /\ consentOf'[a] = consentOf[a]
    BY <1>1, <1>2, <1>5
  <2> QED
    BY <2>1
<1> QED
  BY <1>3, <1>4, <1>5

\* A registration by an ECDSA agent consumes a nonce above all those consumed
\* for the same agent.
LEMMA AgentSignatureKeepsConsent ==
  ASSUME TypeOK, ConsentInv, nextAgentId \in AgentIds, nextAgentId' = nextAgentId + 1,
         NEW agent \in Addresses, NEW human \in Addresses, ConsumeAgentSignature(agent, human)
  PROVE  ConsentInv'
<1> DEFINE made == Challenge(agent, human, agentNonces[agent])
           new == [key |-> agent, challenge |-> made]
<1>1. /\ agentNonces' = [agentNonces EXCEPT ![agent] = @ + 1]
      /\ consentOf' = [consentOf EXCEPT ![nextAgentId] = new]
      /\ ed25519Nonces' = ed25519Nonces
      /\ made \in signed
  BY DEF ConsumeAgentSignature, ConsentGiven
<1>2. /\ agentNonces \in [Addresses -> Nat]
      /\ consentOf \in [AgentIds -> Consents]
      /\ agent \notin Ed25519Keys /\ agent \in AgentKeys /\ agent # ZeroKey
      /\ nextAgentId \in Int
      /\ made \in Challenges
  BY <1>1, KeyAssumption, ZeroAssumption DEF TypeOK, ConsentTypeOK, ProofTypeOK, AgentKeys
<1>3. made.signer = agent /\ made.nonce = agentNonces[agent]
  BY DEF Challenge
<1> HIDE DEF made
<1>4. \A id \in AgentIds : consentOf[id].key = agent => consentOf[id].challenge.nonce # made.nonce
  BY <1>2, <1>3 DEF ConsentInv, ConsentSpent, ConsentSpentBy
<1>5. \A id \in AgentIds : consentOf[id].challenge # made
  <2> SUFFICES ASSUME NEW id \in AgentIds, consentOf[id].challenge = made
               PROVE  FALSE
    OBVIOUS
  <2>1. consentOf[id].key \in Keys
    BY <1>2 DEF Consents
  <2>2. CASE consentOf[id].key \in Addresses
    BY <1>2, <1>3, <1>4, <2>2 DEF ConsentInv, ConsentSpent, ConsentSpentBy
  <2>3. CASE consentOf[id].key \in Ed25519Keys
    BY <1>2, <1>3, <2>3 DEF ConsentInv, ConsentSpent, ConsentSpentBy
  <2>4. CASE consentOf[id].key = ZeroKey
    BY <1>2, <1>3, <2>4 DEF ConsentInv, ConsentSpent, ConsentSpentBy, NoConsent, Challenge
  <2> QED
    BY <2>1, <2>2, <2>3, <2>4 DEF Keys, AgentKeys
<1>6. ChallengeSpentPerKey'
  BY <1>1, <1>2, <1>4, <1>5, NewConsentKeepsProperty
<1>7. ConsentSpent'
  <2>1. /\ agentNonces'[agent] = agentNonces[agent] + 1
        /\ \A x \in DOMAIN agentNonces : x # agent => agentNonces'[x] = agentNonces[x]
    BY <1>1, <1>2
  <2>2. ASSUME NEW id \in AgentIds
        PROVE  ConsentSpentBy(id)'
    <3>1. CASE id = nextAgentId
      <4>1. consentOf'[id].key = agent /\ consentOf'[id].challenge = made
        BY <1>1, <1>2, <3>1
      <4>2. ~ (id >= nextAgentId')
        BY <1>2, <3>1
      <4> QED
        BY <1>2, <1>3, <2>1, <4>1, <4>2 DEF ConsentSpentBy
    <3>2. CASE id # nextAgentId
      <4>1. consentOf'[id] = consentOf[id] /\ ConsentSpentBy(id)
        BY <1>1, <1>2, <3>2 DEF ConsentInv, ConsentSpent
      <4>2. id >= nextAgentId' => id >= nextAgentId
        BY <1>2 DEF AgentIds
      <4>3. consentOf[id].challenge.nonce \in Nat /\ agentNonces[agent] \in Nat
        BY <1>2 DEF Consents, Challenges, Challenge
      <4>4. consentOf[id].key \in Addresses =>
               consentOf[id].challenge.nonce < agentNonces'[consentOf[id].key]
        BY <1>2, <2>1, <4>1, <4>3 DEF ConsentSpentBy
      <4> QED
        BY <1>1, <4>1, <4>2, <4>4 DEF ConsentSpentBy
    <3> QED
      BY <3>1, <3>2
  <2> QED
    BY <2>2 DEF ConsentSpent
<1> QED
  BY <1>6, <1>7 DEF ConsentInv

\* So does a registration by an Ed25519 agent, whatever Ed25519 key signed.
LEMMA Ed25519SignatureKeepsConsent ==
  ASSUME TypeOK, ConsentInv, nextAgentId \in AgentIds, nextAgentId' = nextAgentId + 1,
         NEW key \in Ed25519Keys, NEW human \in Addresses, ConsumeEd25519Signature(key, human)
  PROVE  ConsentInv'
<1>0. PICK signer \in Ed25519Keys :
         ConsentGiven(key, Challenge(signer, human, ed25519Nonces[key]))
  BY DEF ConsumeEd25519Signature
<1> DEFINE made == Challenge(signer, human, ed25519Nonces[key])
           new == [key |-> key, challenge |-> made]
<1>1. /\ ed25519Nonces' = [ed25519Nonces EXCEPT ![key] = @ + 1]
      /\ consentOf' = [consentOf EXCEPT ![nextAgentId] = new]
      /\ agentNonces' = agentNonces
      /\ made \in signed
  BY <1>0 DEF ConsumeEd25519Signature, ConsentGiven
<1>2. /\ ed25519Nonces \in [Ed25519Keys -> Nat]
      /\ consentOf \in [AgentIds -> Consents]
      /\ key \notin Addresses /\ key \in AgentKeys /\ key # ZeroKey
      /\ signer \notin Addresses /\ signer # ZeroKey
      /\ nextAgentId \in Int
      /\ made \in Challenges
  BY <1>1, KeyAssumption, ZeroAssumption DEF TypeOK, ConsentTypeOK, ProofTypeOK, AgentKeys
<1>3. made.signer = signer /\ made.nonce = ed25519Nonces[key]
  BY DEF Challenge
<1> HIDE DEF made
<1>4. \A id \in AgentIds : consentOf[id].key = key => consentOf[id].challenge.nonce # made.nonce
  BY <1>2, <1>3 DEF ConsentInv, ConsentSpent, ConsentSpentBy
<1>5. \A id \in AgentIds : consentOf[id].challenge = made => consentOf[id].key \in Ed25519Keys
  <2> SUFFICES ASSUME NEW id \in AgentIds, consentOf[id].challenge = made
               PROVE  consentOf[id].key \in Ed25519Keys
    OBVIOUS
  <2>1. consentOf[id].key \in Keys
    BY <1>2 DEF Consents
  <2>2. consentOf[id].key \notin Addresses
    BY <1>2, <1>3 DEF ConsentInv, ConsentSpent, ConsentSpentBy
  <2>3. consentOf[id].key # ZeroKey
    BY <1>2, <1>3 DEF ConsentInv, ConsentSpent, ConsentSpentBy, NoConsent, Challenge
  <2> QED
    BY <2>1, <2>2, <2>3 DEF Keys, AgentKeys
<1>6. ChallengeSpentPerKey'
  BY <1>1, <1>2, <1>4, <1>5, NewConsentKeepsProperty
<1>7. ConsentSpent'
  <2>1. /\ ed25519Nonces'[key] = ed25519Nonces[key] + 1
        /\ \A x \in DOMAIN ed25519Nonces : x # key => ed25519Nonces'[x] = ed25519Nonces[x]
    BY <1>1, <1>2
  <2>2. ASSUME NEW id \in AgentIds
        PROVE  ConsentSpentBy(id)'
    <3>1. CASE id = nextAgentId
      <4>1. consentOf'[id].key = key /\ consentOf'[id].challenge = made
        BY <1>1, <1>2, <3>1
      <4>2. ~ (id >= nextAgentId')
        BY <1>2, <3>1
      <4> QED
        BY <1>2, <1>3, <2>1, <4>1, <4>2 DEF ConsentSpentBy
    <3>2. CASE id # nextAgentId
      <4>1. consentOf'[id] = consentOf[id] /\ ConsentSpentBy(id)
        BY <1>1, <1>2, <3>2 DEF ConsentInv, ConsentSpent
      <4>2. id >= nextAgentId' => id >= nextAgentId
        BY <1>2 DEF AgentIds
      <4>3. consentOf[id].challenge.nonce \in Nat /\ ed25519Nonces[key] \in Nat
        BY <1>2 DEF Consents, Challenges, Challenge
      <4>4. consentOf[id].key \in Ed25519Keys =>
               consentOf[id].challenge.nonce < ed25519Nonces'[consentOf[id].key]
        BY <1>2, <2>1, <4>1, <4>3 DEF ConsentSpentBy
      <4> QED
        BY <1>1, <4>1, <4>2, <4>4 DEF ConsentSpentBy
    <3> QED
      BY <3>1, <3>2
  <2> QED
    BY <2>2 DEF ConsentSpent
<1> QED
  BY <1>6, <1>7 DEF ConsentInv

\* Every step keeps consumed nonces in the past.
LEMMA StepKeepsConsent == RegistryInv /\ ConsentInv /\ [Next]_vars => ConsentInv'
<1> SUFFICES ASSUME RegistryInv, ConsentInv, [Next]_vars
             PROVE  ConsentInv'
  OBVIOUS
<1>1. nextAgentId \in Int /\ TypeOK
  BY DEF RegistryInv, TypeOK, ProofTypeOK
<1>2. ASSUME nextAgentId' \in Int, nextAgentId <= nextAgentId', UNCHANGED <<nonceVars, consentOf>>
      PROVE  ConsentInv'
  <2>1. \A id \in AgentIds : id >= nextAgentId' => id >= nextAgentId
    BY <1>1, <1>2
  <2>2. ConsentSpent'
    BY <2>1, <1>2 DEF ConsentInv, ConsentSpent, ConsentSpentBy, nonceVars
  <2>3. ChallengeSpentPerKey'
    BY <1>2 DEF ConsentInv, ChallengeSpentPerKey
  <2> QED
    BY <2>2, <2>3 DEF ConsentInv
<1>3. CASE MintStep
  <2>1. nextAgentId \in AgentIds /\ nextAgentId' = nextAgentId + 1 /\ Consented
    BY <1>3 DEF MintStep, Minting, MintAgent
  <2> QED
    BY <2>1, <1>1, <1>2, AgentSignatureKeepsConsent, Ed25519SignatureKeepsConsent
    DEF Consented, NoSignature
<1>4. CASE RevokeStep \/ RefreshStep \/ QuietStep \/ UNCHANGED vars
  <2>1. nextAgentId' = nextAgentId /\ UNCHANGED <<nonceVars, consentOf>>
    BY <1>4, QuietStepUnchanged DEF RevokeStep, RevokeAgent, RefreshStep, HubRefresh, vars, tokenVars
  <2> QED
    BY <2>1, <1>1, <1>2
<1>5. CASE BaseStep
  <2>1. nextAgentId' = nextAgentId + 1 /\ UNCHANGED <<nonceVars, consentOf>>
    BY <1>5 DEF BaseStep, BaseRegister
  <2> QED
    BY <2>1, <1>1, <1>2
<1> QED
  BY <1>1, <1>3, <1>4, <1>5, NextShape

\* A key is registered once per nonce, and a signed challenge of an ECDSA agent
\* registers one agent, ever; that of an Ed25519 agent, one per public key.
THEOREM ConsentCorrect == Spec => []ChallengeSpentPerKey
<1>1. RegistryInv /\ ConsentInv /\ [Next]_vars => ConsentInv'
  BY StepKeepsConsent
<1>2. Init => ConsentInv
  BY InitConsentInv
<1>3. ConsentInv => ChallengeSpentPerKey
  BY DEF ConsentInv
<1> QED
  BY <1>1, <1>2, <1>3, RegistryCorrect, PTL DEF Spec

-----------------------------------------------------------------------------
(* Wallets.  A number not yet given out has no wallet, so an agent with a  *)
(* proof has the one its owner set last.                                   *)

ConsentTo(id) ==
    \E consent \in walletSigned :
       /\ consent.agentId = id
       /\ consent.wallet = agentWallet[id]
       /\ consent.owner = owner[id]
       /\ consent.nonce < walletSetNonces[id]

WalletInv ==
    \A id \in AgentIds :
       /\ id >= nextAgentId => agentWallet[id] = ZeroAddress
       /\ agentHasHumanProof[id] /\ agentWallet[id] # ZeroAddress => ConsentTo(id)

\* An agent whose owner, wallet and wallet nonce stay keeps its consent, for
\* signatures are never forgotten.
LEMMA ConsentLasts ==
  ASSUME NEW id \in AgentIds, ConsentTo(id), walletSigned \subseteq walletSigned',
         UNCHANGED <<agentWallet[id], owner[id], walletSetNonces[id]>>
  PROVE  ConsentTo(id)'
  BY DEF ConsentTo

\* Registering writes the owner of the next number, which has no wallet, and
\* a wallet only where there is no proof.
LEMMA NewTokenKeepsWallets ==
  ASSUME RegistryInv, WalletInv, MintStep \/ BaseStep
  PROVE  WalletInv'
<1>1. /\ nextAgentId \in AgentIds
      /\ ~ agentHasHumanProof[nextAgentId]
      /\ nextAgentId' = nextAgentId + 1
      /\ walletSigned' = walletSigned
  <2>1. nextAgentId \in AgentIds /\ nextAgentId' = nextAgentId + 1 /\ walletSigned' = walletSigned
    BY DEF MintStep, Minting, MintAgent, BaseStep, BaseRegister, outsideVars
  <2> QED
    BY <2>1, BoundsAssumption DEF RegistryInv, UnissuedUnused
<1>2. \A id \in AgentIds : id # nextAgentId =>
         UNCHANGED <<agentWallet[id], owner[id], walletSetNonces[id], agentHasHumanProof[id]>>
  <2> USE DEF RegistryInv, TypeOK, ProofTypeOK, ProfileTypeOK
  <2>1. CASE MintStep
    BY <2>1 DEF MintStep, Minting, MintAgent, walletVars
  <2>2. CASE BaseStep
    BY <2>2 DEF BaseStep, BaseRegister, proofVars
  <2> QED
    BY <2>1, <2>2
<1>3. agentHasHumanProof'[nextAgentId] => agentWallet'[nextAgentId] = ZeroAddress
  <2>1. CASE MintStep
    <3>1. agentWallet' = agentWallet
      BY <2>1 DEF MintStep, Minting, MintAgent, walletVars
    <3> QED
      BY <3>1, <1>1, BoundsAssumption DEF WalletInv
  <2>2. CASE BaseStep
    BY <2>2, <1>1 DEF BaseStep, BaseRegister, proofVars
  <2> QED
    BY <2>1, <2>2
<1>4. ASSUME NEW id \in AgentIds
      PROVE  /\ id >= nextAgentId' => agentWallet'[id] = ZeroAddress
             /\ agentHasHumanProof'[id] /\ agentWallet'[id] # ZeroAddress => ConsentTo(id)'
  <2>1. CASE id = nextAgentId
    BY <2>1, <1>1, <1>3, BoundsAssumption
  <2>2. CASE id # nextAgentId
    BY <2>2, <1>1, <1>2, ConsentLasts, BoundsAssumption DEF WalletInv
  <2> QED
    BY <2>1, <2>2
<1> QED
  BY <1>4 DEF WalletInv

\* The owner of an agent sets the wallet that signed for it and spends the
\* nonce signed for, or removes the wallet.
LEMMA ProfileCallKeepsWallets ==
  ASSUME RegistryInv, WalletInv, ProfileCall
  PROVE  WalletInv'
<1>1. UNCHANGED <<tokenVars, proofVars, walletSigned>>
  BY DEF ProfileCall, outsideVars
<1>2. PICK sender \in Addresses, id \in AgentIds :
         \/ \E text \in Texts : UpdateAgentMetadata(sender, id, text) \/ SetAgentURI(sender, id, text)
         \/ \E wallet \in Wallets, deadline \in 1 .. MaxTime :
               SetAgentWallet(sender, id, wallet, deadline)
         \/ UnsetAgentWallet(sender, id)
  BY DEF ProfileCall
<1>3. owner[id] # ZeroAddress /\ sender = owner[id]
  BY <1>2, ZeroAssumption DEF UpdateAgentMetadata, SetAgentURI, SetAgentWallet, UnsetAgentWallet, Owners
<1>4. ~ (id >= nextAgentId)
  BY <1>3 DEF RegistryInv, UnissuedUnused
<1>5. \A a \in AgentIds : a # id => UNCHANGED <<agentWallet[a], walletSetNonces[a]>>
  BY <1>2 DEF UpdateAgentMetadata, SetAgentURI, SetAgentWallet, UnsetAgentWallet, walletVars,
     RegistryInv, TypeOK, ProfileTypeOK
<1>6. agentHasHumanProof[id] /\ agentWallet'[id] # ZeroAddress => ConsentTo(id)'
  <2>1. ASSUME NEW wallet \in Wallets, NEW deadline \in 1 .. MaxTime,
               SetAgentWallet(sender, id, wallet, deadline)
        PROVE  ConsentTo(id)'
    <3> DEFINE consent == [agentId |-> id, wallet |-> wallet, owner |-> sender,
                           nonce |-> walletSetNonces[id], deadline |-> deadline]
    <3>1. /\ consent \in walletSigned'
          /\ agentWallet'[id] = wallet
          /\ walletSetNonces'[id] = walletSetNonces[id] + 1
          /\ walletSetNonces[id] \in Nat
          /\ owner'[id] = sender
      BY <2>1, <1>1, <1>3 DEF SetAgentWallet, tokenVars, RegistryInv, TypeOK, ProfileTypeOK
    <3>2. consent.nonce < walletSetNonces'[id]
      BY <3>1
    <3> QED
      BY <3>1, <3>2 DEF ConsentTo
  <2>2. ASSUME UNCHANGED walletVars, agentHasHumanProof[id], agentWallet'[id] # ZeroAddress
        PROVE  ConsentTo(id)'
    BY <2>2, <1>1, ConsentLasts DEF walletVars, tokenVars, WalletInv
  <2>3. CASE UnsetAgentWallet(sender, id)
    BY <2>3 DEF UnsetAgentWallet, RegistryInv, TypeOK, ProfileTypeOK
  <2> QED
    BY <1>2, <2>1, <2>2, <2>3 DEF UpdateAgentMetadata, SetAgentURI
<1>7. ASSUME NEW a \in AgentIds, a # id
      PROVE  /\ a >= nextAgentId' => agentWallet'[a] = ZeroAddress
             /\ agentHasHumanProof'[a] /\ agentWallet'[a] # ZeroAddress => ConsentTo(a)'
  BY <1>1, <1>5, <1>7, ConsentLasts DEF WalletInv, tokenVars, proofVars
<1> QED
  BY <1>1, <1>4, <1>6, <1>7 DEF WalletInv, tokenVars, proofVars

\* Every step keeps wallets consented.
LEMMA StepKeepsWallets == RegistryInv /\ WalletInv /\ [Next]_vars => WalletInv'
<1> SUFFICES ASSUME RegistryInv, WalletInv, [Next]_vars
             PROVE  WalletInv'
  OBVIOUS
<1>1. CASE RevokeStep
  <2>1. PICK id \in AgentIds : RevokeAgent(id)
    BY <1>1 DEF RevokeStep
  <2>2. /\ UNCHANGED <<nextAgentId, walletVars, walletSigned>>
        /\ agentHasHumanProof' = [agentHasHumanProof EXCEPT ![id] = FALSE]
        /\ owner' = [owner EXCEPT ![id] = ZeroAddress]
    BY <2>1 DEF RevokeAgent, ClearProof, outsideVars
  <2>3. ASSUME NEW a \in AgentIds
        PROVE  /\ a >= nextAgentId' => agentWallet'[a] = ZeroAddress
               /\ agentHasHumanProof'[a] /\ agentWallet'[a] # ZeroAddress => ConsentTo(a)'
    <3>1. CASE a = id
      BY <3>1, <2>2 DEF WalletInv, walletVars, RegistryInv, TypeOK, ProofTypeOK
    <3>2. CASE a # id
      BY <3>2, <2>2, ConsentLasts DEF WalletInv, walletVars, RegistryInv, TypeOK, ProofTypeOK
    <3> QED
      BY <3>1, <3>2
  <2> QED
    BY <2>3 DEF WalletInv
<1>2. CASE RefreshStep \/ AdminStep \/ OutsideStep \/ UNCHANGED vars
  <2>1. UNCHANGED <<tokenVars, agentHasHumanProof, walletVars>> /\ walletSigned \subseteq walletSigned'
    BY <1>2 DEF RefreshStep, HubRefresh, AdminStep, OutsideStep, SignChallenge, SignWalletConsent,
       Tick, vars, proofVars, outsideVars
  <2> QED
    BY <2>1, ConsentLasts DEF WalletInv, tokenVars, walletVars
<1> QED
  BY <1>1, <1>2, NextShape, NewTokenKeepsWallets, ProfileCallKeepsWallets DEF RegistryInv, QuietStep

\* No agent with a human proof is paid at a wallet that did not sign for it.
THEOREM WalletCorrect == Spec => []WalletConsented
<1>1. Init => WalletInv
  BY DEF Init, WalletInv
<1>2. RegistryInv /\ WalletInv /\ [Next]_vars => WalletInv'
  BY StepKeepsWallets
<1>3. WalletInv => WalletConsented
  BY DEF WalletInv, WalletConsented, ConsentTo
<1> QED
  BY <1>1, <1>2, <1>3, RegistryCorrect, PTL DEF Spec

-----------------------------------------------------------------------------
(* Freshness.                                                              *)

ExpiryCapped ==
    \A id \in AgentIds : agentCredentials[id] # 0 => proofExpiresAt[id] <= agentCredentials[id]

\* Registrations and refreshes write an expiry that the document caps, a
\* revocation clears both.
LEMMA StepKeepsExpiryCapped == TypeOK /\ ExpiryCapped /\ [Next]_vars => ExpiryCapped'
<1> SUFFICES ASSUME TypeOK, ExpiryCapped, [Next]_vars
             PROVE  ExpiryCapped'
  OBVIOUS
<1> USE DEF TypeOK, ProofTypeOK, ExpiryCapped
<1>1. CASE MintStep
  BY <1>1 DEF MintStep, Minting, MintAgent
<1>2. CASE RevokeStep
  BY <1>2 DEF RevokeStep, RevokeAgent, ClearProof
<1>3. CASE RefreshStep
  <2>1. PICK id \in AgentIds, doc \in DocExpiries :
           /\ agentCredentials' = [agentCredentials EXCEPT ![id] = doc]
           /\ proofExpiresAt' = [proofExpiresAt EXCEPT ![id] = DisclosedExpiry(doc)]
    BY <1>3 DEF RefreshStep, HubRefresh
  <2>2. doc \in Nat /\ (doc # 0 => DisclosedExpiry(doc) <= doc)
    BY ExpiryType, BoundsAssumption DEF DisclosedExpiry
  <2> QED
    BY <2>1, <2>2
<1>4. CASE BaseStep \/ QuietStep \/ UNCHANGED vars
  BY <1>4, QuietStepUnchanged DEF BaseStep, BaseRegister, vars, expiryVars
<1> QED
  BY <1>1, <1>2, <1>3, <1>4, NextShape

\* A fresh proof rests on a document that has not expired.
THEOREM FreshnessCorrect == Spec => []FreshOnlyWhileDocumentValid
<1>1. Init => ExpiryCapped
  BY DEF Init, ExpiryCapped
<1>2. TypeOK /\ ExpiryCapped /\ [Next]_vars => ExpiryCapped'
  BY StepKeepsExpiryCapped
<1>3. TypeOK /\ ExpiryCapped => FreshOnlyWhileDocumentValid
  BY SMTT(20) DEF ExpiryCapped, FreshOnlyWhileDocumentValid, IsProofFresh, TypeOK, ProofTypeOK,
                  ConsentTypeOK
<1> QED
  BY <1>1, <1>2, <1>3, TypeCorrect, PTL DEF Spec

-----------------------------------------------------------------------------
(* Counting.                                                               *)

\* A sequence without repetition has as many entries as elements.
LEMMA ListCardinality ==
  ASSUME NEW A, NEW list \in Seq(A),
         \A j, k \in 1 .. Len(list) : list[j] = list[k] => j = k,
         \A a \in A : \E j \in 1 .. Len(list) : list[j] = a
  PROVE  IsFiniteSet(A) /\ Cardinality(A) = Len(list)
<1>1. Len(list) \in Nat
  OBVIOUS
<1>2. list \in [1 .. Len(list) -> A]
  OBVIOUS
<1>3. list \in Bijection(1 .. Len(list), A)
  BY <1>2, Fun_IsBij
<1>4. ExistsBijection(1 .. Len(list), A)
  BY <1>3 DEF ExistsBijection
<1> QED
  BY <1>1, <1>4, FS_CountingElements, FS_NatBijection

\* The counter of a human is the number of agents that carry its proof.
LEMMA CountIsAgents ==
  ASSUME RegistryInv, NEW n \in Nullifiers
  PROVE  /\ IsFiniteSet(AgentsOf(n))
         /\ Cardinality(AgentsOf(n)) = activeAgentCount[n]
<1> DEFINE listed == agentsByNullifier[n]
<1>1. /\ listed \in Seq(AgentIds)
      /\ Len(listed) \in Nat
      /\ agentIndexInNullifier \in [AgentIds -> Nat]
  BY DEF RegistryInv, TypeOK, LookupTypeOK
<1>2. /\ activeAgentCount[n] = Len(listed)
      /\ \A j \in 1 .. Len(listed) :
            listed[j] \in AgentsOf(n) /\ agentIndexInNullifier[listed[j]] = j - 1
      /\ \A id \in AgentsOf(n) :
            /\ agentIndexInNullifier[id] < Len(listed)
            /\ listed[agentIndexInNullifier[id] + 1] = id
  BY DEF RegistryInv, NullifierIndexExact
<1>3. \A id \in AgentsOf(n) : id \in AgentIds
  BY DEF AgentsOf
<1> HIDE DEF listed
<1>4. listed \in Seq(AgentsOf(n))
  BY <1>1, <1>2
<1>5. \A j, k \in 1 .. Len(listed) : listed[j] = listed[k] => j = k
  BY <1>1, <1>2
<1>6. \A id \in AgentsOf(n) : \E j \in 1 .. Len(listed) : listed[j] = id
  <2> SUFFICES ASSUME NEW id \in AgentsOf(n)
               PROVE  \E j \in 1 .. Len(listed) : listed[j] = id
    OBVIOUS
  <2>1. agentIndexInNullifier[id] + 1 \in 1 .. Len(listed)
    BY <1>1, <1>2, <1>3
  <2> QED
    BY <2>1, <1>2
<1> QED
  BY <1>2, <1>4, <1>5, <1>6, ListCardinality

\* A mint gives one human one more agent, found below the limit, and changes
\* the agents of no other.
LEMMA MintAddsOne ==
  ASSUME RegistryInv, NEW n \in Nullifiers, NEW key \in Keys,
         NEW provider, NEW to, NEW uri, NEW config, NEW guardian, NEW doc, NEW expiry,
         MintAgent(n, key, provider, to, uri, config, guardian, doc, expiry)
  PROVE  /\ AgentsOf(n)' = AgentsOf(n) \cup {nextAgentId}
         /\ nextAgentId \notin AgentsOf(n)
         /\ \A m \in Nullifiers : m # n => AgentsOf(m)' = AgentsOf(m)
         /\ maxAgentsPerHuman > 0 => Cardinality(AgentsOf(n)) < maxAgentsPerHuman
<1> DEFINE id == nextAgentId
<1>1. /\ id \in AgentIds
      /\ agentHasHumanProof' = [agentHasHumanProof EXCEPT ![id] = TRUE]
      /\ agentNullifier' = [agentNullifier EXCEPT ![id] = n]
      /\ BelowLimit(n)
  BY DEF MintAgent
<1>2. ~ agentHasHumanProof[id]
  BY <1>1, BoundsAssumption DEF RegistryInv, UnissuedUnused
<1>3. ASSUME NEW m \in Nullifiers
      PROVE  AgentsOf(m)' = IF m = n THEN AgentsOf(m) \cup {id} ELSE AgentsOf(m)
  BY <1>1, <1>2 DEF AgentsOf, RegistryInv, TypeOK, ProofTypeOK
<1> QED
  BY <1>1, <1>2, <1>3, CountIsAgents DEF BelowLimit, AgentsOf

\* What does not mint gives no human a further agent.
LEMMA OthersAddNone ==
  ASSUME RegistryInv, RevokeStep \/ RefreshStep \/ BaseStep \/ QuietStep, NEW n \in Nullifiers
  PROVE  AgentsOf(n)' \subseteq AgentsOf(n)
<1>1. CASE RevokeStep
  <2>1. PICK id \in AgentIds :
           /\ agentHasHumanProof' = [agentHasHumanProof EXCEPT ![id] = FALSE]
           /\ agentNullifier' = [agentNullifier EXCEPT ![id] = ZeroNullifier]
    BY <1>1 DEF RevokeStep, RevokeAgent, ClearProof
  <2> QED
    BY <2>1 DEF AgentsOf, RegistryInv, TypeOK, ProofTypeOK
<1>2. CASE RefreshStep \/ BaseStep \/ QuietStep
  BY <1>2, QuietStepUnchanged DEF RefreshStep, HubRefresh, BaseStep, BaseRegister, proofVars, AgentsOf
<1> QED
  BY <1>1, <1>2

\* A human's agents grow only up to the limit in force.
LEMMA StepAdmitsBelowLimit ==
  ASSUME RegistryInv, Next
  PROVE  AdmitsBelowLimit
<1> SUFFICES ASSUME NEW n \in Nullifiers,
                    Cardinality(AgentsOf(n)') > Cardinality(AgentsOf(n)),
                    maxAgentsPerHuman # 0
             PROVE  Cardinality(AgentsOf(n)') <= maxAgentsPerHuman
  BY DEF AdmitsBelowLimit
<1>1. IsFiniteSet(AgentsOf(n)) /\ Cardinality(AgentsOf(n)) \in Nat
  BY CountIsAgents, FS_CardinalityType
<1>2. maxAgentsPerHuman \in Nat
  BY DEF RegistryInv, TypeOK, SettingsTypeOK
<1>3. AgentsOf(n)' # AgentsOf(n)
  BY <1>1
<1>4. ASSUME AgentsOf(n)' \subseteq AgentsOf(n)
      PROVE  FALSE
  <2>1. Cardinality(AgentsOf(n)') <= Cardinality(AgentsOf(n)) /\ Cardinality(AgentsOf(n)') \in Nat
    BY <1>1, <1>4, FS_Subset, FS_CardinalityType
  <2> QED
    BY <2>1, <1>1
<1>5. CASE MintStep
  <2>1. PICK m \in Nullifiers, key \in Keys, provider \in Providers \cup {ZeroAddress},
             to \in Owners, uri \in Texts \cup {NoText}, config \in Configs \cup {NoConfig},
             guardian \in Addresses \cup {ZeroAddress}, doc \in Nat, expiry \in Nat :
           MintAgent(m, key, provider, to, uri, config, guardian, doc, expiry)
    BY <1>5, MintShape
  <2>2. m = n
    BY <2>1, <1>3, MintAddsOne
  <2>3. /\ AgentsOf(n)' = AgentsOf(n) \cup {nextAgentId}
        /\ nextAgentId \notin AgentsOf(n)
        /\ Cardinality(AgentsOf(n)) < maxAgentsPerHuman
    BY <2>1, <2>2, <1>2, MintAddsOne
  <2>4. Cardinality(AgentsOf(n)') = Cardinality(AgentsOf(n)) + 1
    BY <2>3, <1>1, FS_AddElement
  <2> QED
    BY <2>3, <2>4, <1>1, <1>2
<1> QED
  BY <1>4, <1>5, OthersAddNone, NextShape DEF RegistryInv

\* No registration takes a human above the limit that was in force.
THEOREM LimitCorrect == Spec => RegistrationRespectsLimit
<1>1. RegistryInv /\ [Next]_vars => [AdmitsBelowLimit]_vars
  BY StepAdmitsBelowLimit
<1> QED
  BY <1>1, RegistryCorrect, PTL DEF Spec, RegistrationRespectsLimit

-----------------------------------------------------------------------------
(* Refinement.                                                             *)

EntriesOf(n) == {a \in LiveEntries : a.human = n}

\* The ledger holds an entry for each agent of a human.
LEMMA EntriesAreAgents ==
  ASSUME RegistryInv, NEW n \in Nullifiers
  PROVE  /\ IsFiniteSet(EntriesOf(n))
         /\ Cardinality(EntriesOf(n)) = Cardinality(AgentsOf(n))
<1> DEFINE f == [id \in AgentsOf(n) |-> Entry(id)]
<1>1. IsFiniteSet(AgentsOf(n))
  BY CountIsAgents
<1>2. \A a : a \in EntriesOf(n) <=> \E id \in AgentsOf(n) : a = Entry(id)
  BY DEF EntriesOf, LiveEntries, LiveIds, AgentsOf, Entry
<1>3. f \in [AgentsOf(n) -> EntriesOf(n)]
  BY <1>2
<1>4. \A x, y \in AgentsOf(n) : f[x] = f[y] => x = y
  BY DEF Entry
<1>5. \A a \in EntriesOf(n) : \E x \in AgentsOf(n) : f[x] = a
  BY <1>2
<1>6. f \in Bijection(AgentsOf(n), EntriesOf(n))
  BY <1>3, <1>4, <1>5, Fun_IsBij
<1> QED
  BY <1>1, <1>6, FS_Bijection DEF ExistsBijection

\* A mint admits an entry with the next number under a free key.
LEMMA MintAdmits ==
  ASSUME RegistryInv, MintStep
  PROVE  \E n \in Nullifiers, key \in Keys : Ledger!Admit(n, key)
<1>1. PICK n \in Nullifiers, key \in Keys, provider \in Providers \cup {ZeroAddress},
           to \in Owners, uri \in Texts \cup {NoText}, config \in Configs \cup {NoConfig},
           guardian \in Addresses \cup {ZeroAddress}, doc \in Nat, expiry \in Nat :
         MintAgent(n, key, provider, to, uri, config, guardian, doc, expiry)
  BY MintShape
<1>2. PICK id \in AgentIds : id = nextAgentId
  BY <1>1 DEF MintAgent
<1>3. /\ nextAgentId' = id + 1
      /\ agentHasHumanProof' = [agentHasHumanProof EXCEPT ![id] = TRUE]
      /\ agentNullifier' = [agentNullifier EXCEPT ![id] = n]
      /\ agentIdToAgentKey' = [agentIdToAgentKey EXCEPT ![id] = key]
      /\ agentKeyToAgentId[key] = 0
      /\ maxAgentsPerHuman' = maxAgentsPerHuman
  BY <1>1, <1>2 DEF MintAgent, adminVars
<1>4. ~ agentHasHumanProof[id]
  BY <1>2, BoundsAssumption DEF RegistryInv, UnissuedUnused
<1>5. /\ agentHasHumanProof \in [AgentIds -> BOOLEAN]
      /\ agentNullifier \in [AgentIds -> Nullifiers \cup {ZeroNullifier}]
      /\ agentIdToAgentKey \in [AgentIds -> Keys]
  BY DEF RegistryInv, TypeOK, ProofTypeOK, LookupTypeOK
<1>6. LiveIds' = LiveIds \cup {id}
  BY <1>3, <1>5 DEF LiveIds
<1>7. /\ Entry(id)' = [number |-> id, human |-> n, key |-> key]
      /\ \A a \in LiveIds : Entry(a)' = Entry(a)
  BY <1>3, <1>4, <1>5 DEF Entry, LiveIds
<1>8. LiveEntries' = LiveEntries \cup {[number |-> id, human |-> n, key |-> key]}
  BY <1>6, <1>7 DEF LiveEntries
<1>9. \A a \in LiveEntries : a.key # key
  <2>1. \A a \in LiveIds : agentKeyToAgentId[agentIdToAgentKey[a]] = a
    BY DEF RegistryInv, KeysIdentifyAgents, LiveIds
  <2>2. \A a \in LiveIds : agentIdToAgentKey[a] # key
    BY <2>1, <1>3 DEF LiveIds
  <2> QED
    BY <2>2 DEF LiveEntries, Entry
<1>10. maxAgentsPerHuman > 0 => Cardinality(EntriesOf(n)) < maxAgentsPerHuman
  <2>1. maxAgentsPerHuman > 0 => Cardinality(AgentsOf(n)) < maxAgentsPerHuman
    BY <1>1, MintAddsOne
  <2> QED
    BY <2>1, EntriesAreAgents
<1>11. nextAgentId - 1 < MaxAgentId /\ (nextAgentId - 1) + 1 = id /\ nextAgentId' - 1 = (nextAgentId - 1) + 1
  BY <1>2, <1>3, BoundsAssumption
<1> QED
  <2>1. Ledger!Cardinality(EntriesOf(n)) = Cardinality(EntriesOf(n))
    BY DEF Ledger!Cardinality, Cardinality
  <2>2. Ledger!HeldBy(n) = EntriesOf(n)
    BY DEF Ledger!HeldBy, EntriesOf
  <2>3. Ledger!Admit(n, key)
    BY <2>1, <2>2, <1>3, <1>8, <1>9, <1>10, <1>11 DEF Ledger!Admit
  <2> QED
    BY <2>3

\* A revocation removes one entry.
LEMMA RevokeRemoves ==
  ASSUME RegistryInv, RevokeStep
  PROVE  \E a \in LiveEntries : Ledger!Remove(a)
<1>1. PICK id \in AgentIds : RevokeAgent(id)
  BY DEF RevokeStep
<1>2. id \in LiveIds
  BY <1>1, RevokedHasProof DEF LiveIds
<1>3. /\ UNCHANGED <<nextAgentId, maxAgentsPerHuman>>
      /\ agentHasHumanProof' = [agentHasHumanProof EXCEPT ![id] = FALSE]
      /\ agentNullifier' = [agentNullifier EXCEPT ![id] = ZeroNullifier]
      /\ agentIdToAgentKey' = [agentIdToAgentKey EXCEPT ![id] = ZeroKey]
  BY <1>1 DEF RevokeAgent, ReleaseKey, ClearProof, adminVars
<1>4. /\ agentHasHumanProof \in [AgentIds -> BOOLEAN]
      /\ agentNullifier \in [AgentIds -> Nullifiers \cup {ZeroNullifier}]
      /\ agentIdToAgentKey \in [AgentIds -> Keys]
  BY DEF RegistryInv, TypeOK, ProofTypeOK, LookupTypeOK
<1>5. LiveIds' = LiveIds \ {id}
  BY <1>3, <1>4 DEF LiveIds
<1>6. \A a \in LiveIds \ {id} : Entry(a)' = Entry(a)
  BY <1>3, <1>4 DEF Entry, LiveIds
<1>7. PICK gone \in LiveEntries : gone = Entry(id)
  BY <1>2 DEF LiveEntries
<1>8. \A a \in LiveIds : Entry(a) = gone => a = id
  BY <1>7 DEF Entry
<1>9. LiveEntries' = LiveEntries \ {gone}
  BY <1>2, <1>5, <1>6, <1>7, <1>8 DEF LiveEntries
<1> QED
  BY <1>3, <1>9 DEF Ledger!Remove

\* Every step of the registry is a step of the ledger or leaves it alone.
LEMMA StepRefines ==
  ASSUME RegistryInv, [Next]_vars
  PROVE  Ledger!Next \/ UNCHANGED <<LiveEntries, nextAgentId - 1, maxAgentsPerHuman>>
<1>1. CASE MintStep
  BY <1>1, MintAdmits DEF Ledger!Next
<1>2. CASE RevokeStep
  BY <1>2, RevokeRemoves DEF Ledger!Next
<1>3. ASSUME UNCHANGED <<agentHasHumanProof, agentNullifier, agentIdToAgentKey>>
      PROVE  LiveEntries' = LiveEntries
  BY <1>3 DEF LiveEntries, LiveIds, Entry
<1>4. CASE BaseStep
  <2>1. /\ UNCHANGED <<agentHasHumanProof, agentNullifier, agentIdToAgentKey, maxAgentsPerHuman>>
        /\ nextAgentId \in AgentIds
        /\ nextAgentId' = nextAgentId + 1
    BY <1>4 DEF BaseStep, BaseRegister, proofVars, lookupVars, adminVars
  <2>2. nextAgentId' - 1 = (nextAgentId - 1) + 1 /\ nextAgentId - 1 < MaxAgentId
    BY <2>1, BoundsAssumption
  <2>3. Ledger!Skip
    BY <2>1, <2>2, <1>3 DEF Ledger!Skip
  <2> QED
    BY <2>3 DEF Ledger!Next
<1>5. CASE AdminStep
  <2>1. UNCHANGED <<agentHasHumanProof, agentNullifier, agentIdToAgentKey, nextAgentId>>
    BY <1>5 DEF AdminStep, proofVars, lookupVars, tokenVars
  <2>2. LiveEntries' = LiveEntries
    BY <2>1, <1>3
  <2>3. CASE maxAgentsPerHuman' = maxAgentsPerHuman
    BY <2>1, <2>2, <2>3
  <2>4. ASSUME NEW max \in Limits, SetMaxAgentsPerHuman(max)
        PROVE  Ledger!SetLimit(max)
    BY <2>1, <2>2, <2>4 DEF SetMaxAgentsPerHuman, Ledger!SetLimit
  <2> QED
    BY <1>5, <2>3, <2>4 DEF AdminStep, SetRequireHumanProof, SetSelfProofProvider,
       AddProofProvider, RemoveProofProvider, SetMaxProofAge, Ledger!Next
<1>6. CASE RefreshStep \/ ProfileCall \/ OutsideStep \/ UNCHANGED vars
  <2>1. UNCHANGED <<agentHasHumanProof, agentNullifier, agentIdToAgentKey, nextAgentId,
                    maxAgentsPerHuman>>
    BY <1>6 DEF RefreshStep, HubRefresh, ProfileCall, OutsideStep, vars, adminVars, tokenVars,
       proofVars, lookupVars
  <2> QED
    BY <2>1, <1>3
<1> QED
  BY <1>1, <1>2, <1>4, <1>5, <1>6, NextShape DEF RegistryInv, QuietStep

\* For any numbers of humans, keys and agents the registry implements the
\* ledger.
THEOREM RegistryRefinesLedger == Spec => ImplementsLedger
<1>1. Init => Ledger!Init
  BY DEF Init, Ledger!Init, LiveEntries, LiveIds
<1>2. RegistryInv /\ [Next]_vars => [Ledger!Next]_<<LiveEntries, nextAgentId - 1, maxAgentsPerHuman>>
  BY StepRefines
<1> QED
  BY <1>1, <1>2, RegistryCorrect, PTL
  DEF Spec, ImplementsLedger, Ledger!Spec
=============================================================================
