------------------------------ MODULE Attestations ------------------------------
(***************************************************************************)
(* What others say on chain about the agents of the registry:              *)
(* contracts/src/SelfReputationRegistry.sol (feedback and its summary) and *)
(* SelfValidationRegistry.sol (requests, responses and the daily record of *)
(* a proof's freshness), with the view SelfFreshnessChecker.sol.  The       *)
(* contracts read the agent registry, here the AgentLedger it implements,  *)
(* and the registry calls the first one in the transaction that mints an   *)
(* agent.                                                                  *)
(*                                                                         *)
(* A transaction is an atomic action, a revert a guard that does not hold. *)
(* Texts, URIs and hashes of documents are left out, but for the tag that  *)
(* a summary filters by.                                                   *)
(***************************************************************************)
EXTENDS Integers, Sequences, FiniteSets, SequencesExt

CONSTANTS
    Humans,           \* accounts: each owns the agents registered for it
    Clients,          \* accounts that own no agent
    Operators,        \* accounts that may be approved for another's agents
    Registry,         \* the agent registry's address, a client of its own
    Self,             \* the validation registry's address, a validator of its own
    NoOne,            \* the zero address
    AgentKeySet, MaxIssued, LimitValues,
    Documents,        \* attestation ids of documents
    NoDocument,       \* bytes32(0): a provider other than the Hub
    Weights,          \* weights given to documents
    Values, Decimals, \* values of feedback and their decimals, in range
    RequestHashes,    \* hashes that callers choose, freshness hashes among them
    Responses,        \* responses of validators, at most 100
    ProofAge,         \* time a proof lasts
    Day,              \* length of a day
    Thresholds,       \* values of freshnessThreshold
    MaxCalls,         \* bound on the transactions to the two contracts
    MaxTime           \* bound on the clock

AgentIds == 1 .. MaxIssued

Accounts == Humans \cup Clients

\* Nothing keeps the zero address from being named.
Validators == Accounts \cup {Self, NoOne}

ASSUME AttestationAssumption ==
    /\ {MaxIssued, ProofAge, MaxCalls} \subseteq Nat
    /\ {Day, MaxTime} \subseteq Nat \ {0}
    /\ LimitValues \cup Responses \cup Decimals \cup Thresholds \subseteq Nat
    /\ Weights \subseteq Nat \ {0}
    /\ Values \subseteq Int
    /\ Operators \subseteq Humans \cup Clients
    /\ NoDocument \notin Documents
    /\ Registry \notin Accounts /\ Self \notin Accounts /\ NoOne \notin Accounts \cup {Self}

VARIABLES
    \* the agent registry
    ledger, issued, limit, owner, expiresAt, agentRegisteredAt, reputationRegistry,
    approvals,        \* isApprovedForAll: pairs of an owner and its operator
    now,
    \* SelfReputationRegistry
    documentWeight, feedback, clients, clientExists,
    \* SelfValidationRegistry
    validations, agentValidations, validatorRequests, freshnessHashes,
    \* SelfFreshnessChecker
    freshnessThreshold,
    \* bound and history: calls so far; for each agent the weight its
    \* registration had to record; the times each agent was fresh
    calls, dueScore, freshAt

Chain == INSTANCE AgentLedger

chainVars == <<ledger, issued, limit, owner, expiresAt, agentRegisteredAt,
               reputationRegistry, approvals, now, dueScore, freshAt>>
reputationVars == <<documentWeight, feedback, clients, clientExists>>
validationVars == <<validations, agentValidations, validatorRequests, freshnessHashes>>
vars == <<chainVars, reputationVars, validationVars, freshnessThreshold, calls>>

\* The hash of an agent's freshness record of a day.
FreshnessHash(id, day) == [agent |-> id, day |-> day]

Today == now \div Day

FreshnessHashes == [agent : AgentIds, day : 0 .. MaxTime \div Day]

Hashes == RequestHashes \cup FreshnessHashes

NoStatus == [validatorAddress |-> NoOne, agentId |-> 0, response |-> 0,
             lastUpdate |-> 0, hasResponse |-> FALSE]

NoScore == -1

Init ==
    /\ Chain!Init
    /\ owner = [id \in AgentIds |-> NoOne]
    /\ expiresAt = [id \in AgentIds |-> 0]
    /\ agentRegisteredAt = [id \in AgentIds |-> 0]
    /\ reputationRegistry = FALSE
    /\ approvals = {}
    /\ now = 1
    /\ documentWeight = [d \in Documents |-> 0]
    /\ feedback = [id \in AgentIds |-> [c \in Accounts \cup {Registry} |-> << >>]]
    /\ clients = [id \in AgentIds |-> << >>]
    /\ clientExists = [id \in AgentIds |-> [c \in Accounts \cup {Registry} |-> FALSE]]
    /\ validations = [h \in Hashes |-> NoStatus]
    /\ agentValidations = [id \in AgentIds |-> << >>]
    /\ validatorRequests = [v \in Validators |-> << >>]
    /\ freshnessHashes = [id \in AgentIds |-> << >>]
    /\ freshnessThreshold \in Thresholds
    /\ calls = 0
    /\ dueScore = [id \in AgentIds |-> NoScore]
    /\ freshAt = [id \in AgentIds |-> {}]

-----------------------------------------------------------------------------
(* Views of the agent registry that the contracts read.                    *)

HasHumanProof(id) == \E a \in ledger : a.number = id

IsProofFresh(id) == HasHumanProof(id) /\ now < expiresAt[id]

\* ownerOf does not revert.
Minted(id) == owner[id] # NoOne

IsAuthorizedOrOwner(sender, id) == sender = owner[id] \/ <<owner[id], sender>> \in approvals

NoteFreshness == freshAt' = [id \in AgentIds |->
    IF IsProofFresh(id)' THEN freshAt[id] \cup {now'} ELSE freshAt[id]]

-----------------------------------------------------------------------------
(* SelfReputationRegistry.                                                 *)

Entry(value, decimals, tag) ==
    [value |-> value, valueDecimals |-> decimals, tag1 |-> tag,
     isRevoked |-> FALSE, responseCount |-> 0]

\* Slip: the client is listed again for every feedback.
RecordFeedbackListing(id, client, entry) ==
    /\ clients' = [clients EXCEPT ![id] = Append(@, client)]
    /\ clientExists' = [clientExists EXCEPT ![id][client] = TRUE]
    /\ feedback' = [feedback EXCEPT ![id][client] = Append(@, entry)]

\* _recordFeedback: lastIndex is the length of the sequence.
RecordFeedback(id, client, entry) ==
    /\ clients' = IF clientExists[id][client] THEN clients
                  ELSE [clients EXCEPT ![id] = Append(@, client)]
    /\ clientExists' = [clientExists EXCEPT ![id][client] = TRUE]
    /\ feedback' = [feedback EXCEPT ![id][client] = Append(@, entry)]

\* Slip: a document without a weight is passed over.
RecordHumanProofIfWeighted(id, document) ==
    \/ /\ document = NoDocument \/ documentWeight[document] = 0
       /\ UNCHANGED <<feedback, clients, clientExists>>
    \/ /\ document # NoDocument
       /\ documentWeight[document] > 0
       /\ RecordFeedback(id, Registry, Entry(documentWeight[document], 0, "proof-of-human"))

\* recordHumanProofFeedback: a document without a weight reverts the caller too.
RecordHumanProofFeedback(id, document) ==
    \/ /\ document = NoDocument
       /\ UNCHANGED <<feedback, clients, clientExists>>
    \/ /\ document # NoDocument
       /\ documentWeight[document] > 0
       /\ RecordFeedback(id, Registry, Entry(documentWeight[document], 0, "proof-of-human"))

SetDocumentWeight(document, weight) ==
    /\ documentWeight' = [documentWeight EXCEPT ![document] = weight]
    /\ UNCHANGED <<chainVars, feedback, clients, clientExists, validationVars,
                   freshnessThreshold, calls>>

\* Anyone but the agent's owner and operators; the tag is the client's choice.
GiveFeedback(client, id, value, decimals, tag) ==
    /\ calls < MaxCalls
    /\ Minted(id)
    /\ ~ IsAuthorizedOrOwner(client, id)
    /\ RecordFeedback(id, client, Entry(value, decimals, tag))
    /\ calls' = calls + 1
    /\ UNCHANGED <<chainVars, documentWeight, validationVars, freshnessThreshold>>

RevokeFeedback(client, id, index) ==
    /\ calls < MaxCalls
    /\ index \in 1 .. Len(feedback[id][client])
    /\ ~ feedback[id][client][index].isRevoked
    /\ feedback' = [feedback EXCEPT ![id][client][index].isRevoked = TRUE]
    /\ calls' = calls + 1
    /\ UNCHANGED <<chainVars, documentWeight, clients, clientExists, validationVars,
                   freshnessThreshold>>

AppendResponse(sender, id, client, index) ==
    /\ calls < MaxCalls
    /\ Minted(id)
    /\ IsAuthorizedOrOwner(sender, id)
    /\ index \in 1 .. Len(feedback[id][client])
    /\ ~ feedback[id][client][index].isRevoked
    /\ feedback' = [feedback EXCEPT ![id][client][index].responseCount = @ + 1]
    /\ calls' = calls + 1
    /\ UNCHANGED <<chainVars, documentWeight, clients, clientExists, validationVars,
                   freshnessThreshold>>

NoSummary == [count |-> 0, value |-> 0, decimals |-> 0]

\* The empty tag is no filter.
AnyTag == ""

\* _summariseClient
SummariseClient(id, client, tag) ==
    FoldLeft(LAMBDA sum, entry :
                IF entry.isRevoked \/ tag \notin {AnyTag, entry.tag1} THEN sum
                ELSE [count |-> sum.count + 1, value |-> sum.value + entry.value,
                      decimals |-> entry.valueDecimals],
             NoSummary, feedback[id][client])

\* getSummary, _summarise: the decimals are those of the last client with any.
GetSummary(id, clientAddresses, tag) ==
    FoldLeft(LAMBDA sum, client :
                LET own == SummariseClient(id, client, tag) IN
                [count |-> sum.count + own.count, value |-> sum.value + own.value,
                 decimals |-> IF own.count > 0 THEN own.decimals ELSE sum.decimals],
             NoSummary, clientAddresses)
-----------------------------------------------------------------------------
(* The agent registry, as far as the contracts can see it.                 *)

\* _mintAgent and the call it makes; all of it or nothing happens.
Register(human, key, document) ==
    /\ Chain!Admit(human, key)
    /\ owner' = [owner EXCEPT ![issued'] = human]
    /\ expiresAt' = [expiresAt EXCEPT ![issued'] = now + ProofAge]
    /\ agentRegisteredAt' = [agentRegisteredAt EXCEPT ![issued'] = now]
    /\ \/ /\ reputationRegistry
          /\ RecordHumanProofFeedback(issued', document)
       \/ /\ ~ reputationRegistry
          /\ UNCHANGED <<feedback, clients, clientExists>>
    /\ dueScore' = [dueScore EXCEPT ![issued'] =
          IF reputationRegistry /\ document # NoDocument THEN documentWeight[document] ELSE NoScore]
    /\ UNCHANGED <<reputationRegistry, approvals, now, documentWeight, validationVars,
                   freshnessThreshold, calls>>
    /\ NoteFreshness

\* register without a proof: a token, and no agentRegisteredAt.
RegisterBare(account) ==
    /\ Chain!Skip
    /\ owner' = [owner EXCEPT ![issued'] = account]
    /\ UNCHANGED <<expiresAt, agentRegisteredAt, reputationRegistry, approvals, now,
                   dueScore, freshAt, reputationVars, validationVars, freshnessThreshold, calls>>

\* _revokeAgent: agentRegisteredAt stays.
Revoke(a) ==
    /\ Chain!Remove(a)
    /\ owner' = [owner EXCEPT ![a.number] = NoOne]
    /\ expiresAt' = [expiresAt EXCEPT ![a.number] = 0]
    /\ UNCHANGED <<agentRegisteredAt, reputationRegistry, approvals, now, dueScore, freshAt,
                   reputationVars, validationVars, freshnessThreshold, calls>>

Refresh(a) ==
    /\ expiresAt' = [expiresAt EXCEPT ![a.number] = now + ProofAge]
    /\ UNCHANGED <<ledger, issued, limit, owner, agentRegisteredAt, reputationRegistry,
                   approvals, now, dueScore, reputationVars, validationVars,
                   freshnessThreshold, calls>>
    /\ NoteFreshness

SetReputationRegistry(linked) ==
    /\ reputationRegistry' = linked
    /\ UNCHANGED <<ledger, issued, limit, owner, expiresAt, agentRegisteredAt, approvals, now,
                   dueScore, freshAt, reputationVars, validationVars, freshnessThreshold, calls>>

SetApprovalForAll(account, operator, approved) ==
    /\ approvals' = IF approved THEN approvals \cup {<<account, operator>>}
                    ELSE approvals \ {<<account, operator>>}
    /\ UNCHANGED <<ledger, issued, limit, owner, expiresAt, agentRegisteredAt,
                   reputationRegistry, now, dueScore, freshAt, reputationVars,
                   validationVars, freshnessThreshold, calls>>

Tick ==
    /\ now < MaxTime
    /\ now' = now + 1
    /\ UNCHANGED <<ledger, issued, limit, owner, expiresAt, agentRegisteredAt,
                   reputationRegistry, approvals, dueScore, reputationVars, validationVars,
                   freshnessThreshold, calls>>
    /\ NoteFreshness

-----------------------------------------------------------------------------
(* SelfValidationRegistry.                                                 *)

Requested(validator, id) == [NoStatus EXCEPT !.validatorAddress = validator, !.agentId = id]

ValidationRequest(sender, validator, id, hash) ==
    /\ calls < MaxCalls
    /\ Minted(id)
    /\ IsAuthorizedOrOwner(sender, id)
    /\ validations[hash].validatorAddress = NoOne
    /\ validations' = [validations EXCEPT ![hash] = Requested(validator, id)]
    /\ agentValidations' = [agentValidations EXCEPT ![id] = Append(@, hash)]
    /\ validatorRequests' = [validatorRequests EXCEPT ![validator] = Append(@, hash)]
    /\ calls' = calls + 1
    /\ UNCHANGED <<chainVars, reputationVars, freshnessHashes, freshnessThreshold>>

\* The validator may answer again.
ValidationResponse(sender, hash, response) ==
    /\ calls < MaxCalls
    /\ validations[hash].validatorAddress = sender
    /\ validations' = [validations EXCEPT ![hash].response = response,
                                          ![hash].lastUpdate = now,
                                          ![hash].hasResponse = TRUE]
    /\ calls' = calls + 1
    /\ UNCHANGED <<chainVars, reputationVars, agentValidations, validatorRequests,
                   freshnessHashes, freshnessThreshold>>

\* The day's record is listed when it is made, unless its hash was taken.
ListFreshness(id, hash) ==
    IF validations[hash].validatorAddress = NoOne
    THEN /\ agentValidations' = [agentValidations EXCEPT ![id] = Append(@, hash)]
         /\ freshnessHashes' = [freshnessHashes EXCEPT ![id] = Append(@, hash)]
    ELSE UNCHANGED <<agentValidations, freshnessHashes>>

\* Slip: once fresh, fresh for the day.
KeepFreshResponse(id, hash) ==
    IF IsProofFresh(id) \/ validations[hash].response = 100 THEN 100 ELSE 0

FreshResponse(id, hash) == IF IsProofFresh(id) THEN 100 ELSE 0

\* Anyone may submit, for any agent there ever was.
SubmitFreshnessValidation(id) ==
    LET hash == FreshnessHash(id, Today)
        record == IF validations[hash].validatorAddress = NoOne THEN Requested(Self, id)
                  ELSE validations[hash]
    IN
    /\ calls < MaxCalls
    /\ agentRegisteredAt[id] # 0
    /\ validations' = [validations EXCEPT ![hash] =
          [record EXCEPT !.response = FreshResponse(id, hash), !.lastUpdate = now,
                         !.hasResponse = TRUE]]
    /\ ListFreshness(id, hash)
    /\ calls' = calls + 1
    /\ UNCHANGED <<chainVars, reputationVars, validatorRequests, freshnessThreshold>>

\* Today's record or else yesterday's.
LatestFreshnessHash(id) ==
    IF validations[FreshnessHash(id, Today)].hasResponse \/ Today = 0
    THEN FreshnessHash(id, Today)
    ELSE FreshnessHash(id, Today - 1)

GetLatestFreshness(id) ==
    LET record == validations[LatestFreshnessHash(id)] IN
    IF record.hasResponse
    THEN [fresh |-> record.response = 100, lastUpdated |-> record.lastUpdate]
    ELSE [fresh |-> FALSE, lastUpdated |-> 0]

\* getSummary, without the tag: the mean of what the validators answered.
ValidationSummary(id, validators) ==
    LET requests == FlattenSeq([i \in 1 .. Len(validators) |-> validatorRequests[validators[i]]])
        sum == FoldLeft(LAMBDA sum, h :
                   IF validations[h].agentId # id \/ ~ validations[h].hasResponse THEN sum
                   ELSE [count |-> sum.count + 1, total |-> sum.total + validations[h].response],
                   [count |-> 0, total |-> 0], requests)
    IN [count |-> sum.count,
        avgResponse |-> IF sum.count > 0 THEN sum.total \div sum.count ELSE 0]

-----------------------------------------------------------------------------
(* SelfFreshnessChecker.                                                   *)

SetFreshnessThreshold(blocks) ==
    /\ freshnessThreshold' = blocks
    /\ UNCHANGED <<chainVars, reputationVars, validationVars, calls>>

\* validateAgent
ValidateAgent(id) ==
    LET registeredAt == agentRegisteredAt[id]
        blockAge == IF registeredAt > 0 /\ registeredAt <= now THEN now - registeredAt ELSE 0
    IN /\ HasHumanProof(id)
       /\ registeredAt > 0
       /\ blockAge <= freshnessThreshold

-----------------------------------------------------------------------------

RegistryStep ==
    \/ \E h \in Humans, k \in AgentKeySet, d \in Documents \cup {NoDocument} : Register(h, k, d)
    \/ \E h \in Humans : RegisterBare(h)
    \/ \E a \in ledger : Revoke(a) \/ Refresh(a)
    \/ \E linked \in BOOLEAN : SetReputationRegistry(linked)
    \/ \E h \in Humans, o \in Operators, approved \in BOOLEAN : SetApprovalForAll(h, o, approved)
    \/ Tick

ReputationStep ==
    \/ \E d \in Documents, w \in Weights : SetDocumentWeight(d, w)
    \/ \E id \in AgentIds, c \in Accounts :
          \/ \E v \in Values, d \in Decimals, tag \in {"proof-of-human", "other"} :
                GiveFeedback(c, id, v, d, tag)
          \/ \E i \in 1 .. MaxCalls : RevokeFeedback(c, id, i)
    \/ \E id \in AgentIds, s \in Accounts, c \in Accounts \cup {Registry}, i \in 1 .. MaxCalls :
          AppendResponse(s, id, c, i)

ValidationStep ==
    \/ \E s \in Accounts, v \in Validators, id \in AgentIds, h \in RequestHashes :
          ValidationRequest(s, v, id, h)
    \/ \E s \in Accounts, h \in Hashes, r \in Responses : ValidationResponse(s, h, r)
    \/ \E id \in AgentIds : SubmitFreshnessValidation(id)

CheckerStep == \E blocks \in Thresholds : SetFreshnessThreshold(blocks)

Next == RegistryStep \/ ReputationStep \/ ValidationStep \/ CheckerStep

Spec == Init /\ [][Next]_vars

-----------------------------------------------------------------------------
(* Properties.                                                             *)

Tags == {"proof-of-human", "other"}

Entries ==
    [value : Values \cup Weights, valueDecimals : Decimals \cup {0}, tag1 : Tags,
     isRevoked : BOOLEAN, responseCount : 0 .. MaxCalls]

Statuses ==
    [validatorAddress : Validators, agentId : 0 .. MaxIssued,
     response : Responses \cup {0, 100}, lastUpdate : 0 .. MaxTime, hasResponse : BOOLEAN]

\* A registration and its proof feedback are one: an agent registered with a
\* document while the reputation registry was linked has one feedback of the
\* registry, with the weight the document had then and never none, and every
\* other agent has no feedback of the registry.
HumanProofRecorded ==
    \A id \in AgentIds :
       LET own == feedback[id][Registry] IN
       IF dueScore[id] = NoScore THEN own = << >>
       ELSE /\ Len(own) = 1
            /\ own[1].value = dueScore[id]
            /\ own[1].value > 0
            /\ own[1].tag1 = "proof-of-human"

ActiveFeedback(id, tag) ==
    {f \in (Accounts \cup {Registry}) \X (1 .. MaxCalls + 1) :
        LET given == feedback[id][f[1]] IN
        /\ f[2] <= Len(given)
        /\ ~ given[f[2]].isRevoked
        /\ tag \in {AnyTag, given[f[2]].tag1}}

\* The hashes that a validator has answered for an agent.
Answered(id, v) ==
    {h \in Hashes : /\ validations[h].validatorAddress = v
                    /\ validations[h].agentId = id
                    /\ validations[h].hasResponse}

TotalValue(id, active) == MapThenSumSet(LAMBDA f : feedback[id][f[1]][f[2]].value, active)

TotalResponse(answered) == MapThenSumSet(LAMBDA h : validations[h].response, answered)

\* A summary over all clients counts every active feedback of an agent once,
\* whatever was revoked in between, and reports the decimals of the values
\* when they agree on them; a summary of validators is the mean of their
\* answers, though records made by freshness submissions share the mapping.
SummariesExact ==
    /\ \A id \in AgentIds, tag \in Tags \cup {AnyTag} :
          LET active == ActiveFeedback(id, tag)
              summary == GetSummary(id, clients[id], tag)
              decimals == {feedback[id][f[1]][f[2]].valueDecimals : f \in active}
          IN /\ summary.count = Cardinality(active)
             /\ summary.value = TotalValue(id, active)
             /\ Cardinality(decimals) = 1 => summary.decimals \in decimals
    /\ \A id \in AgentIds, v \in Accounts :
          LET answered == Answered(id, v)
              summary == ValidationSummary(id, <<v>>)
          IN /\ summary.count = Cardinality(answered)
             /\ answered # {} =>
                   summary.avgResponse = TotalResponse(answered) \div Cardinality(answered)

\* An agent that getLatestFreshness calls fresh was so when the answer says, no
\* earlier than yesterday, if the record was made by a submission; the agent may
\* have been revoked since, and others may have used the record's hash.
LatestFreshnessWasTrue ==
    \A id \in AgentIds :
       LET latest == GetLatestFreshness(id) IN
       latest.fresh /\ validations[LatestFreshnessHash(id)].validatorAddress = Self =>
          /\ latest.lastUpdated \in freshAt[id]
          /\ latest.lastUpdated \div Day \in {Today - 1, Today}
=============================================================================
