--------------------------- MODULE AttestationsProofs ---------------------------
(***************************************************************************)
(* What is said on chain about the agents, for every number of accounts,   *)
(* agents, documents, values and calls, every weight and every length of a *)
(* day.                                                                    *)
(***************************************************************************)
EXTENDS Attestations, FiniteSetTheorems, TLAPS

Order == INSTANCE WellFoundedInduction

-----------------------------------------------------------------------------
(* The invariant.                                                          *)

FeedbackSet ==
    [value : Int, valueDecimals : Nat, tag1 : Tags, isRevoked : BOOLEAN, responseCount : Nat]

RecordSet ==
    [validatorAddress : Validators, agentId : Nat, response : Nat, lastUpdate : Nat,
     hasResponse : BOOLEAN]

\* Those who may give an agent feedback.
Givers == Accounts \cup {Registry}

AttestTypeOK ==
    /\ Chain!LedgerOK
    /\ now \in 1 .. MaxTime
    /\ expiresAt \in [AgentIds -> Nat]
    /\ documentWeight \in [Documents -> Nat]
    /\ feedback \in [AgentIds -> [Givers -> Seq(FeedbackSet)]]
    /\ validations \in [Hashes -> RecordSet]
    /\ dueScore \in [AgentIds -> Nat \cup {NoScore}]
    /\ freshAt \in [AgentIds -> SUBSET Nat]

\* The feedback of the registry to an agent with a score to record.
ProofEntryOK(score, own) ==
    IF score = NoScore THEN own = << >>
    ELSE /\ Len(own) = 1
         /\ own[1].value = score
         /\ own[1].value > 0
         /\ own[1].tag1 = "proof-of-human"

\* A number that is not given out yet has no score to record.
ScoresOK ==
    \A id \in AgentIds :
       /\ ProofEntryOK(dueScore[id], feedback[id][Registry])
       /\ id > issued => dueScore[id] = NoScore

\* The history has the present.
FreshOK == \A id \in AgentIds : IsProofFresh(id) => now \in freshAt[id]

\* A freshness record that only submissions answered is of its own day, and true.
TrueRecord(record, id, day) ==
    record.validatorAddress = Self /\ record.hasResponse =>
       /\ record.lastUpdate \div Day = day
       /\ record.response = 100 => record.lastUpdate \in freshAt[id]

RecordsOK ==
    \A id \in AgentIds, day \in 0 .. MaxTime \div Day :
       TrueRecord(validations[FreshnessHash(id, day)], id, day)

AttestInv == AttestTypeOK /\ ScoresOK /\ FreshOK /\ RecordsOK

\* What the summaries of an agent's feedback are about, one client after the other: every
\* client with feedback is listed, once.
Listing(list, exists, given) ==
    /\ list \in Seq(Givers)
    /\ \A i, j \in 1 .. Len(list) : list[i] = list[j] => i = j
    /\ exists \in [Givers -> BOOLEAN]
    /\ \A c \in Givers : exists[c] <=> \E i \in 1 .. Len(list) : list[i] = c
    /\ \A c \in Givers : given[c] # << >> => exists[c]

ListsOK ==
    /\ calls \in 0 .. MaxCalls
    /\ clients \in [AgentIds -> Seq(Givers)]
    /\ clientExists \in [AgentIds -> [Givers -> BOOLEAN]]
    /\ \A id \in AgentIds : Listing(clients[id], clientExists[id], feedback[id])
    /\ \A id \in AgentIds : \A c \in Accounts : Len(feedback[id][c]) <= calls

\* The requests of a validator are those that name it, each once.
RequestsOf(list, v) ==
    /\ \A i, j \in 1 .. Len(list) : list[i] = list[j] => i = j
    /\ \A h \in Hashes :
          validations[h].validatorAddress = v <=> \E i \in 1 .. Len(list) : list[i] = h

RequestsOK ==
    /\ validatorRequests \in [Validators -> Seq(Hashes)]
    /\ \A v \in Accounts : RequestsOf(validatorRequests[v], v)

SummaryInv == ListsOK /\ RequestsOK

-----------------------------------------------------------------------------
(* The ledger of the registry stays in order.                              *)

\* The empty ledger is in order.
LEMMA InitLedgerOK ==
  ASSUME MaxIssued \in Nat, Chain!Init
  PROVE  Chain!LedgerOK
BY DEF Chain!Init, Chain!LedgerOK

\* An agent is admitted under the next number and a key that no live agent has.
LEMMA AdmitLedgerOK ==
  ASSUME MaxIssued \in Nat, Chain!LedgerOK, NEW h \in Humans, NEW k \in AgentKeySet,
         Chain!Admit(h, k)
  PROVE  Chain!LedgerOK'
BY DEF Chain!Admit, Chain!LedgerOK, Chain!Entries

\* A removal leaves the rest as it is.
LEMMA RemoveLedgerOK ==
  ASSUME Chain!LedgerOK, NEW a, Chain!Remove(a)
  PROVE  Chain!LedgerOK'
BY DEF Chain!Remove, Chain!LedgerOK

\* What leaves the agents and the count alone leaves them in order.
LEMMA StutterLedgerOK ==
  ASSUME Chain!LedgerOK, UNCHANGED <<ledger, issued>>
  PROVE  Chain!LedgerOK'
BY DEF Chain!LedgerOK

-----------------------------------------------------------------------------
(* Days and entries.                                                       *)

\* The bounds are natural numbers, and the contracts' own addresses no accounts.
LEMMA Bounds ==
    /\ MaxIssued \in Nat /\ ProofAge \in Nat /\ MaxTime \in Nat \ {0}
    /\ Day \in Nat \ {0}
    /\ Responses \subseteq Nat /\ Decimals \subseteq Nat /\ Values \subseteq Int
    /\ Weights \subseteq Nat
    /\ Registry \notin Accounts /\ Self \notin Accounts
    /\ NoOne \notin Accounts /\ NoOne # Self
BY AttestationAssumption

\* A later time is of no earlier day.
LEMMA LaterDay ==
  ASSUME NEW day \in Nat \ {0}, NEW s \in Nat, NEW t \in Nat, s <= t
  PROVE  s \div day \in Nat /\ s \div day <= t \div day
<1> DEFINE q == s \div day
           r == t \div day
<1>1. /\ q \in Int /\ day * q <= s /\ s < day * q + day
  OBVIOUS
<1>2. /\ r \in Int /\ day * r <= t /\ t < day * r + day
  OBVIOUS
<1> HIDE DEF q, r
<1>3. q >= 0
  BY <1>1
<1>4. ~ q > r
  <2> SUFFICES ASSUME q >= r + 1
               PROVE  FALSE
    BY <1>1, <1>2
  <2>1. day * q >= day * (r + 1)
    BY <1>1, <1>2
  <2> QED
    BY <1>1, <1>2, <2>1
<1> QED
  BY <1>1, <1>2, <1>3, <1>4 DEF q, r

\* An entry that changes keeps what it is worth.
LEMMA EntryChange ==
  ASSUME NEW own \in Seq(FeedbackSet), NEW i \in 1 .. Len(own), NEW e \in FeedbackSet,
         e.value = own[i].value, e.tag1 = own[i].tag1, NEW new, new = [own EXCEPT ![i] = e]
  PROVE  /\ new \in Seq(FeedbackSet)
         /\ \A score : ProofEntryOK(score, own) => ProofEntryOK(score, new)
<1>1. /\ new \in Seq(FeedbackSet) /\ Len(new) = Len(own) /\ Len(own) \in Nat
      /\ \A j \in 1 .. Len(own) : new[j].value = own[j].value /\ new[j].tag1 = own[j].tag1
  OBVIOUS
<1>2. own # << >>
  OBVIOUS
<1> QED
  BY <1>1, <1>2 DEF ProofEntryOK

-----------------------------------------------------------------------------
(* What a step leaves as it is.                                            *)

\* Time and the agents stand still, and the history with them.
LEMMA FreshStays ==
  ASSUME AttestInv, UNCHANGED <<ledger, now, expiresAt, freshAt>>
  PROVE  FreshOK'
BY DEF AttestInv, FreshOK, IsProofFresh, HasHumanProof

\* The history of the agents' freshness is kept up with every step that may change it.
LEMMA FreshNoted ==
  ASSUME AttestInv, NoteFreshness, now' \in Nat
  PROVE  /\ freshAt' \in [AgentIds -> SUBSET Nat] /\ FreshOK'
         /\ \A id \in AgentIds : freshAt[id] \subseteq freshAt'[id]
<1>1. freshAt \in [AgentIds -> SUBSET Nat]
  BY DEF AttestInv, AttestTypeOK
<1>2. \A id \in AgentIds :
         freshAt'[id] = IF IsProofFresh(id)' THEN freshAt[id] \cup {now'} ELSE freshAt[id]
  BY DEF NoteFreshness
<1>3. freshAt' \in [AgentIds -> SUBSET Nat]
  BY <1>1 DEF NoteFreshness
<1>4. FreshOK'
  BY <1>2 DEF FreshOK
<1>5. \A id \in AgentIds : freshAt[id] \subseteq freshAt'[id]
  BY <1>2
<1> QED
  BY <1>3, <1>4, <1>5

\* A history that grows leaves the records true.
LEMMA RecordsStay ==
  ASSUME AttestInv, UNCHANGED validations,
         \A id \in AgentIds : freshAt[id] \subseteq freshAt'[id]
  PROVE  RecordsOK'
BY DEF AttestInv, RecordsOK, TrueRecord

\* What the reputation registry holds, while nothing but the rest changes.
LEMMA ScoresStay ==
  ASSUME AttestInv, UNCHANGED <<issued, feedback, dueScore>>
  PROVE  ScoresOK'
BY DEF AttestInv, ScoresOK

\* A step that changes nothing of what the invariant speaks of.
LEMMA QuietKeepsInv ==
  ASSUME AttestInv,
         UNCHANGED <<ledger, issued, now, expiresAt, dueScore, freshAt, documentWeight, feedback,
                     validations>>
  PROVE  AttestInv'
<1>1. Chain!LedgerOK'
  BY StutterLedgerOK DEF AttestInv, AttestTypeOK
<1>2. ScoresOK' /\ FreshOK' /\ RecordsOK'
  BY ScoresStay, FreshStays, RecordsStay
<1> QED
  BY <1>1, <1>2 DEF AttestInv, AttestTypeOK

-----------------------------------------------------------------------------
(* The reputation registry.                                                *)

\* A step of the reputation registry that changes one client's feedback.
LEMMA FeedbackKeepsInv ==
  ASSUME AttestInv, NEW id \in AgentIds, NEW c \in Givers, NEW new \in Seq(FeedbackSet),
         feedback' = [feedback EXCEPT ![id][c] = new],
         c = Registry =>
            \A score : ProofEntryOK(score, feedback[id][c]) => ProofEntryOK(score, new),
         UNCHANGED <<chainVars, documentWeight, validations>>
  PROVE  AttestInv'
<1>1. UNCHANGED <<ledger, issued, now, expiresAt, dueScore, freshAt, documentWeight, validations>>
  BY DEF chainVars
<1>2. /\ feedback \in [AgentIds -> [Givers -> Seq(FeedbackSet)]] /\ Registry \in Givers
  BY DEF AttestInv, AttestTypeOK, Givers
<1>3. feedback' \in [AgentIds -> [Givers -> Seq(FeedbackSet)]]
  BY <1>2
<1>4. Chain!LedgerOK'
  BY <1>1, StutterLedgerOK DEF AttestInv, AttestTypeOK
<1>5. ScoresOK'
  <2> SUFFICES ASSUME NEW i \in AgentIds
               PROVE  /\ ProofEntryOK(dueScore[i], feedback'[i][Registry])
                      /\ i > issued => dueScore[i] = NoScore
    BY <1>1 DEF ScoresOK, ProofEntryOK
  <2>1. /\ ProofEntryOK(dueScore[i], feedback[i][Registry])
        /\ i > issued => dueScore[i] = NoScore
    BY DEF AttestInv, ScoresOK
  <2>2. CASE i = id /\ c = Registry
    <3>1. feedback'[i][Registry] = new
      BY <1>2, <2>2
    <3> QED
      BY <2>1, <2>2, <3>1
  <2>3. CASE i # id \/ c # Registry
    <3>1. feedback'[i][Registry] = feedback[i][Registry]
      BY <1>2, <2>3
    <3> QED
      BY <2>1, <3>1
  <2> QED
    BY <2>2, <2>3
<1>6. FreshOK' /\ RecordsOK'
  BY <1>1, FreshStays, RecordsStay
<1> QED
  BY <1>1, <1>3, <1>4, <1>5, <1>6 DEF AttestInv, AttestTypeOK

\* Feedback is given, revoked or answered.
LEMMA ReputationKeepsInv ==
  ASSUME AttestInv, ReputationStep
  PROVE  AttestInv'
<1>1. /\ feedback \in [AgentIds -> [Givers -> Seq(FeedbackSet)]]
      /\ Accounts \subseteq Givers /\ Registry \in Givers /\ Registry \notin Accounts
  BY Bounds DEF AttestInv, AttestTypeOK, Givers
<1>2. ASSUME NEW d \in Documents, NEW w \in Weights, SetDocumentWeight(d, w)
      PROVE  AttestInv'
  <2>1. /\ UNCHANGED <<ledger, issued, now, expiresAt, dueScore, freshAt, feedback, validations>>
        /\ documentWeight' = [documentWeight EXCEPT ![d] = w]
    BY <1>2 DEF SetDocumentWeight, chainVars, validationVars
  <2>2. documentWeight' \in [Documents -> Nat]
    BY <2>1, Bounds DEF AttestInv, AttestTypeOK
  <2>3. Chain!LedgerOK'
    BY <2>1, StutterLedgerOK DEF AttestInv, AttestTypeOK
  <2>4. ScoresOK' /\ FreshOK' /\ RecordsOK'
    BY <2>1, ScoresStay, FreshStays, RecordsStay
  <2> QED
    BY <2>1, <2>2, <2>3, <2>4 DEF AttestInv, AttestTypeOK
<1>3. ASSUME NEW id \in AgentIds, NEW c \in Accounts, NEW v \in Values, NEW d \in Decimals,
             NEW tag \in {"proof-of-human", "other"}, GiveFeedback(c, id, v, d, tag)
      PROVE  AttestInv'
  <2>1. PICK e \in FeedbackSet : e = Entry(v, d, tag)
    BY Bounds DEF FeedbackSet, Entry, Tags
  <2>2. PICK own \in Seq(FeedbackSet) : own = feedback[id][c]
    BY <1>1
  <2>3. Append(own, e) \in Seq(FeedbackSet)
    OBVIOUS
  <2>4. /\ feedback' = [feedback EXCEPT ![id][c] = Append(own, e)]
        /\ UNCHANGED <<chainVars, documentWeight, validations>>
    BY <1>3, <2>1, <2>2 DEF GiveFeedback, RecordFeedback, validationVars
  <2> QED
    BY <1>1, <2>3, <2>4, FeedbackKeepsInv
<1>4. ASSUME NEW id \in AgentIds, NEW c \in Accounts, NEW i \in 1 .. MaxCalls,
             RevokeFeedback(c, id, i)
      PROVE  AttestInv'
  <2>1. PICK own \in Seq(FeedbackSet) : own = feedback[id][c] /\ i \in 1 .. Len(own)
    BY <1>1, <1>4 DEF RevokeFeedback
  <2>2. PICK old \in FeedbackSet : old = own[i]
    BY <2>1
  <2> DEFINE e == [old EXCEPT !.isRevoked = TRUE]
             new == [own EXCEPT ![i] = e]
  <2>3. e \in FeedbackSet /\ e.value = old.value /\ e.tag1 = old.tag1
    BY DEF FeedbackSet
  <2> HIDE DEF e
  <2>4. /\ new \in Seq(FeedbackSet)
        /\ \A score : ProofEntryOK(score, own) => ProofEntryOK(score, new)
    BY <2>1, <2>2, <2>3, EntryChange
  <2>5. /\ feedback' = [feedback EXCEPT ![id][c] = new]
        /\ UNCHANGED <<chainVars, documentWeight, validations>>
    BY <1>1, <1>4, <2>1, <2>2 DEF RevokeFeedback, validationVars, e
  <2> HIDE DEF new
  <2> QED
    BY <1>1, <2>1, <2>4, <2>5, FeedbackKeepsInv
<1>5. ASSUME NEW id \in AgentIds, NEW sender \in Accounts, NEW c \in Givers,
             NEW i \in 1 .. MaxCalls, AppendResponse(sender, id, c, i)
      PROVE  AttestInv'
  <2>1. PICK own \in Seq(FeedbackSet) : own = feedback[id][c] /\ i \in 1 .. Len(own)
    BY <1>1, <1>5 DEF AppendResponse
  <2>2. PICK old \in FeedbackSet : old = own[i]
    BY <2>1
  <2>3. PICK count \in Nat : count = old.responseCount + 1
    BY DEF FeedbackSet
  <2> DEFINE e == [old EXCEPT !.responseCount = count]
             new == [own EXCEPT ![i] = e]
  <2>4. e \in FeedbackSet /\ e.value = old.value /\ e.tag1 = old.tag1
    BY DEF FeedbackSet
  <2> HIDE DEF e
  <2>5. /\ new \in Seq(FeedbackSet)
        /\ \A score : ProofEntryOK(score, own) => ProofEntryOK(score, new)
    BY <2>1, <2>2, <2>4, EntryChange
  <2>6. /\ feedback' = [feedback EXCEPT ![id][c] = new]
        /\ UNCHANGED <<chainVars, documentWeight, validations>>
    BY <1>1, <1>5, <2>1, <2>2, <2>3 DEF AppendResponse, validationVars, e
  <2> HIDE DEF new
  <2> QED
    BY <1>1, <2>1, <2>5, <2>6, FeedbackKeepsInv
<1> QED
  BY <1>2, <1>3, <1>4, <1>5 DEF ReputationStep, Givers

-----------------------------------------------------------------------------
(* The validation registry.                                                *)

\* The present day is one of those that have records.
LEMMA DayShape ==
  ASSUME AttestInv
  PROVE  Today \in Nat /\ Today \in 0 .. MaxTime \div Day /\ MaxTime \div Day \in Nat
<1>1. now \in Nat /\ now <= MaxTime /\ MaxTime \in Nat /\ Day \in Nat \ {0}
  BY Bounds DEF AttestInv, AttestTypeOK
<1>2. now \div Day \in Nat /\ now \div Day <= MaxTime \div Day /\ MaxTime \div Day \in Nat
  BY <1>1, LaterDay
<1> QED
  BY <1>2 DEF Today

\* A step of the validation registry that changes one record.
LEMMA RecordKeepsInv ==
  ASSUME AttestInv, NEW hash \in Hashes, NEW new \in RecordSet,
         validations' = [validations EXCEPT ![hash] = new],
         \A id \in AgentIds, day \in 0 .. MaxTime \div Day :
            hash = FreshnessHash(id, day) => TrueRecord(new, id, day),
         UNCHANGED <<chainVars, documentWeight, feedback>>
  PROVE  AttestInv'
<1>1. UNCHANGED <<ledger, issued, now, expiresAt, dueScore, freshAt, documentWeight, feedback>>
  BY DEF chainVars
<1>2. validations \in [Hashes -> RecordSet]
  BY DEF AttestInv, AttestTypeOK
<1>3. validations' \in [Hashes -> RecordSet]
  BY <1>2
<1>4. Chain!LedgerOK'
  BY <1>1, StutterLedgerOK DEF AttestInv, AttestTypeOK
<1>5. ScoresOK' /\ FreshOK'
  BY <1>1, ScoresStay, FreshStays
<1>6. RecordsOK'
  <2> SUFFICES ASSUME NEW id \in AgentIds, NEW day \in 0 .. MaxTime \div Day
               PROVE  TrueRecord(validations'[FreshnessHash(id, day)], id, day)
    BY <1>1 DEF RecordsOK, TrueRecord
  <2>1. FreshnessHash(id, day) \in Hashes
    BY DEF Hashes, FreshnessHashes, FreshnessHash
  <2>2. CASE hash = FreshnessHash(id, day)
    BY <1>2, <2>2
  <2>3. CASE hash # FreshnessHash(id, day)
    BY <1>2, <2>1, <2>3 DEF AttestInv, RecordsOK
  <2> QED
    BY <2>2, <2>3
<1> QED
  BY <1>1, <1>3, <1>4, <1>5, <1>6 DEF AttestInv, AttestTypeOK

\* A record that is asked for has no answer yet.
LEMMA RequestKeepsInv ==
  ASSUME AttestInv, NEW sender \in Accounts, NEW v \in Validators, NEW id \in AgentIds,
         NEW hash \in RequestHashes, ValidationRequest(sender, v, id, hash)
  PROVE  AttestInv'
<1>1. id \in Nat
  BY Bounds DEF AgentIds
<1>2. PICK new \in RecordSet : new = Requested(v, id)
  BY <1>1 DEF RecordSet, Requested, NoStatus, Validators
<1>3. ~ new.hasResponse
  BY <1>2 DEF Requested, NoStatus
<1>4. /\ validations' = [validations EXCEPT ![hash] = new]
      /\ UNCHANGED <<chainVars, documentWeight, feedback>>
  BY <1>2 DEF ValidationRequest, reputationVars
<1> QED
  BY <1>3, <1>4, RecordKeepsInv DEF Hashes, TrueRecord

\* An answer that an account gives is to a record of its own.
LEMMA ResponseKeepsInv ==
  ASSUME AttestInv, NEW sender \in Accounts, NEW hash \in Hashes, NEW response \in Responses,
         ValidationResponse(sender, hash, response)
  PROVE  AttestInv'
<1>1. PICK old \in RecordSet : old = validations[hash] /\ old.validatorAddress = sender
  BY DEF ValidationResponse, AttestInv, AttestTypeOK
<1>2. response \in Nat /\ now \in Nat /\ sender # Self
  BY Bounds DEF AttestInv, AttestTypeOK
<1> DEFINE new == [old EXCEPT !.response = response, !.lastUpdate = now, !.hasResponse = TRUE]
<1>3. new \in RecordSet /\ new.validatorAddress = sender
  BY <1>1, <1>2 DEF RecordSet
<1>4. /\ validations' = [validations EXCEPT ![hash] = new]
      /\ UNCHANGED <<chainVars, documentWeight, feedback>>
  BY <1>1 DEF ValidationResponse, reputationVars, AttestInv, AttestTypeOK
<1> HIDE DEF new
<1> QED
  BY <1>2, <1>3, <1>4, RecordKeepsInv DEF TrueRecord

\* A submission says of the agent what is so, on the day it says it.
LEMMA SubmissionKeepsInv ==
  ASSUME AttestInv, NEW id \in AgentIds, SubmitFreshnessValidation(id)
  PROVE  AttestInv'
<1>1. PICK hash \in Hashes : hash = FreshnessHash(id, Today)
  BY DayShape DEF Hashes, FreshnessHashes, FreshnessHash
<1>2. id \in Nat /\ now \in Nat
  BY Bounds DEF AgentIds, AttestInv, AttestTypeOK
<1>3. PICK response \in Nat : response = FreshResponse(id, hash)
  BY DEF FreshResponse
<1>4. response = 100 => now \in freshAt[id]
  BY <1>3 DEF FreshResponse, AttestInv, FreshOK
<1>5. PICK old \in RecordSet :
         old = IF validations[hash].validatorAddress = NoOne THEN Requested(Self, id)
               ELSE validations[hash]
  <2>1. Requested(Self, id) \in RecordSet
    BY <1>2 DEF RecordSet, Requested, NoStatus, Validators
  <2> QED
    BY <2>1 DEF AttestInv, AttestTypeOK
<1> DEFINE new == [old EXCEPT !.response = response, !.lastUpdate = now, !.hasResponse = TRUE]
<1>6. /\ new \in RecordSet /\ new.response = response /\ new.lastUpdate = now
  BY <1>2 DEF RecordSet
<1>7. /\ validations' = [validations EXCEPT ![hash] = new]
      /\ UNCHANGED <<chainVars, documentWeight, feedback>>
  BY <1>1, <1>3, <1>5 DEF SubmitFreshnessValidation, reputationVars
<1> HIDE DEF new
<1>8. ASSUME NEW i \in AgentIds, NEW day \in 0 .. MaxTime \div Day, hash = FreshnessHash(i, day)
      PROVE  TrueRecord(new, i, day)
  <2>1. i = id /\ day = Today
    BY <1>1, <1>8 DEF FreshnessHash
  <2>2. new.lastUpdate \div Day = day
    BY <1>6, <2>1 DEF Today
  <2> QED
    BY <1>4, <1>6, <2>1, <2>2 DEF TrueRecord
<1> QED
  BY <1>6, <1>7, <1>8, RecordKeepsInv

-----------------------------------------------------------------------------
(* The agent registry.                                                     *)

\* An agent is registered, with the feedback that its document is worth.
LEMMA RegisterKeepsInv ==
  ASSUME AttestInv, NEW human \in Humans, NEW key \in AgentKeySet,
         NEW document \in Documents \cup {NoDocument}, Register(human, key, document)
  PROVE  AttestInv'
<1>0. now \in Nat /\ Registry \in Givers
  BY Bounds DEF AttestInv, AttestTypeOK, Givers
<1>1. /\ Chain!LedgerOK /\ now \in Nat /\ expiresAt \in [AgentIds -> Nat]
      /\ documentWeight \in [Documents -> Nat]
      /\ feedback \in [AgentIds -> [Givers -> Seq(FeedbackSet)]] /\ Registry \in Givers
      /\ dueScore \in [AgentIds -> Nat \cup {NoScore}]
  BY <1>0 DEF AttestInv, AttestTypeOK
<1>2. UNCHANGED <<now, documentWeight, validations>> /\ NoteFreshness
  BY DEF Register, validationVars
<1>3. Chain!LedgerOK'
  BY <1>1, Bounds, AdmitLedgerOK DEF Register
<1>4. PICK n \in AgentIds : n = issued' /\ n > issued /\ issued' = issued + 1 /\ issued \in Nat
  BY <1>1, Bounds DEF Register, Chain!Admit, Chain!LedgerOK, AgentIds
<1>5. PICK expiry \in Nat : expiry = now + ProofAge
  BY <1>1, Bounds
<1>6. expiresAt' \in [AgentIds -> Nat]
  <2>1. expiresAt' = [expiresAt EXCEPT ![n] = expiry]
    BY <1>4, <1>5 DEF Register
  <2> QED
    BY <1>1, <2>1
<1>7. dueScore[n] = NoScore /\ feedback[n][Registry] = << >>
  BY <1>4 DEF AttestInv, ScoresOK, ProofEntryOK
<1>8. PICK w \in Nat \cup {NoScore}, own \in Seq(FeedbackSet) :
         /\ feedback' = [feedback EXCEPT ![n][Registry] = own]
         /\ dueScore' = [dueScore EXCEPT ![n] = w]
         /\ ProofEntryOK(w, own)
  <2>1. CASE reputationRegistry /\ document # NoDocument
    <3>1. PICK w \in Nat : w = documentWeight[document] /\ w > 0
      BY <1>1, <1>4, <2>1 DEF Register, RecordHumanProofFeedback
    <3>2. PICK e \in FeedbackSet : /\ e = Entry(w, 0, "proof-of-human")
                                  /\ e.value = w /\ e.tag1 = "proof-of-human"
      <4>1. w \in Int
        OBVIOUS
      <4>2. Entry(w, 0, "proof-of-human") \in FeedbackSet
        BY <4>1 DEF FeedbackSet, Entry, Tags
      <4> QED
        BY <4>2 DEF Entry
    <3>3. << e >> \in Seq(FeedbackSet) /\ Append(feedback[n][Registry], e) = << e >>
      BY <1>7
    <3>4. ProofEntryOK(w, << e >>)
      BY <3>1, <3>2 DEF ProofEntryOK, NoScore
    <3>5. feedback' = [feedback EXCEPT ![n][Registry] = << e >>]
      <4>1. feedback' = [feedback EXCEPT ![n][Registry] = Append(@, e)]
        BY <1>4, <2>1, <3>1, <3>2 DEF Register, RecordHumanProofFeedback, RecordFeedback
      <4> QED
        BY <3>3, <4>1
    <3>6. dueScore' = [dueScore EXCEPT ![n] = w]
      BY <1>4, <2>1, <3>1 DEF Register
    <3> QED
      BY <3>3, <3>4, <3>5, <3>6
  <2>2. CASE ~ (reputationRegistry /\ document # NoDocument)
    <3>1. UNCHANGED feedback /\ dueScore' = [dueScore EXCEPT ![n] = NoScore]
      BY <1>4, <2>2 DEF Register, RecordHumanProofFeedback
    <3>2. << >> \in Seq(FeedbackSet) /\ ProofEntryOK(NoScore, << >>)
      BY DEF ProofEntryOK
    <3>3. feedback' = [feedback EXCEPT ![n][Registry] = << >>]
      BY <1>1, <1>7, <3>1
    <3> QED
      BY <3>1, <3>2, <3>3
  <2> QED
    BY <2>1, <2>2
<1>9. /\ feedback' \in [AgentIds -> [Givers -> Seq(FeedbackSet)]]
      /\ dueScore' \in [AgentIds -> Nat \cup {NoScore}]
  BY <1>1, <1>8
<1>10. ScoresOK'
  <2> SUFFICES ASSUME NEW i \in AgentIds
               PROVE  /\ ProofEntryOK(dueScore'[i], feedback'[i][Registry])
                      /\ i > issued' => dueScore'[i] = NoScore
    BY DEF ScoresOK, ProofEntryOK
  <2>1. i \in Nat
    BY Bounds DEF AgentIds
  <2>2. CASE i = n
    BY <1>1, <1>4, <1>8, <2>1, <2>2
  <2>3. CASE i # n
    <3>1. feedback'[i] = feedback[i] /\ dueScore'[i] = dueScore[i]
      BY <1>1, <1>8, <2>3
    <3>2. /\ ProofEntryOK(dueScore[i], feedback[i][Registry])
          /\ i > issued => dueScore[i] = NoScore
      BY DEF AttestInv, ScoresOK
    <3> QED
      BY <1>4, <2>1, <3>1, <3>2
  <2> QED
    BY <2>2, <2>3
<1>11. /\ freshAt' \in [AgentIds -> SUBSET Nat] /\ FreshOK' /\ RecordsOK'
  BY <1>1, <1>2, FreshNoted, RecordsStay
<1> QED
  BY <1>2, <1>3, <1>6, <1>9, <1>10, <1>11 DEF AttestInv, AttestTypeOK

\* The registry's other steps.
LEMMA RegistryKeepsInv ==
  ASSUME AttestInv, RegistryStep
  PROVE  AttestInv'
<1>1. /\ Chain!LedgerOK /\ now \in Nat /\ now \in 1 .. MaxTime /\ MaxTime \in Nat
      /\ expiresAt \in [AgentIds -> Nat]
  BY Bounds DEF AttestInv, AttestTypeOK
<1>2. ASSUME NEW h \in Humans, RegisterBare(h)
      PROVE  AttestInv'
  <2>1. /\ UNCHANGED <<ledger, now, expiresAt, dueScore, freshAt, documentWeight, feedback,
                       validations>>
        /\ issued' = issued + 1 /\ issued < MaxIssued
    BY <1>2 DEF RegisterBare, Chain!Skip, reputationVars, validationVars
  <2>2. Chain!LedgerOK'
    BY <1>1, <2>1, Bounds DEF Chain!LedgerOK, Chain!Entries
  <2>3. ScoresOK'
    BY <1>1, <2>1, Bounds DEF AttestInv, ScoresOK, Chain!LedgerOK, AgentIds
  <2>4. FreshOK' /\ RecordsOK'
    BY <2>1, FreshStays, RecordsStay
  <2> QED
    BY <2>1, <2>2, <2>3, <2>4 DEF AttestInv, AttestTypeOK
<1>3. ASSUME NEW a \in ledger, Revoke(a)
      PROVE  AttestInv'
  <2>1. /\ UNCHANGED <<issued, now, dueScore, freshAt, documentWeight, feedback, validations>>
        /\ ledger' = ledger \ {a} /\ expiresAt' = [expiresAt EXCEPT ![a.number] = 0]
    BY <1>3 DEF Revoke, Chain!Remove, reputationVars, validationVars
  <2>2. Chain!LedgerOK'
    BY <1>1, <1>3, RemoveLedgerOK DEF Revoke
  <2>3. expiresAt' \in [AgentIds -> Nat]
    BY <1>1, <2>1
  <2>4. FreshOK'
    <3> SUFFICES ASSUME NEW id \in AgentIds, IsProofFresh(id)'
                 PROVE  now \in freshAt[id]
      BY <2>1 DEF FreshOK
    <3>1. (\E b \in ledger : b.number = id) /\ now < expiresAt'[id]
      BY <2>1 DEF IsProofFresh, HasHumanProof
    <3>2. id # a.number
      BY <1>1, <2>1, <3>1
    <3>3. expiresAt'[id] = expiresAt[id]
      BY <1>1, <2>1, <3>2
    <3>4. IsProofFresh(id)
      BY <3>1, <3>3 DEF IsProofFresh, HasHumanProof
    <3> QED
      BY <3>4 DEF AttestInv, FreshOK
  <2>5. ScoresOK' /\ RecordsOK'
    BY <2>1, ScoresStay, RecordsStay
  <2> QED
    BY <2>1, <2>2, <2>3, <2>4, <2>5 DEF AttestInv, AttestTypeOK
<1>4. ASSUME NEW a \in ledger, Refresh(a)
      PROVE  AttestInv'
  <2>1. /\ UNCHANGED <<ledger, issued, now, dueScore, documentWeight, feedback, validations>>
        /\ NoteFreshness
    BY <1>4 DEF Refresh, reputationVars, validationVars
  <2>2. PICK expiry \in Nat : expiry = now + ProofAge
    BY <1>1, Bounds
  <2>3. expiresAt' = [expiresAt EXCEPT ![a.number] = expiry]
    BY <1>4, <2>2 DEF Refresh
  <2>4. expiresAt' \in [AgentIds -> Nat]
    BY <1>1, <2>3
  <2>5. Chain!LedgerOK'
    BY <1>1, <2>1, StutterLedgerOK
  <2>6. freshAt' \in [AgentIds -> SUBSET Nat] /\ FreshOK' /\ RecordsOK'
    BY <1>1, <2>1, FreshNoted, RecordsStay
  <2>7. ScoresOK'
    BY <2>1, ScoresStay
  <2> QED
    BY <2>1, <2>4, <2>5, <2>6, <2>7 DEF AttestInv, AttestTypeOK
<1>5. ASSUME Tick
      PROVE  AttestInv'
  <2>1. /\ UNCHANGED <<ledger, issued, expiresAt, dueScore, documentWeight, feedback, validations>>
        /\ NoteFreshness /\ now' = now + 1 /\ now < MaxTime
    BY <1>5 DEF Tick, reputationVars, validationVars
  <2>2. now' \in Nat /\ now' \in 1 .. MaxTime
    BY <1>1, <2>1
  <2>3. Chain!LedgerOK'
    BY <1>1, <2>1, StutterLedgerOK
  <2>4. freshAt' \in [AgentIds -> SUBSET Nat] /\ FreshOK' /\ RecordsOK'
    BY <2>1, <2>2, FreshNoted, RecordsStay
  <2>5. ScoresOK'
    BY <2>1, ScoresStay
  <2> QED
    BY <2>1, <2>2, <2>3, <2>4, <2>5 DEF AttestInv, AttestTypeOK
<1>6. ASSUME NEW h \in Humans, NEW o \in Operators, NEW approved \in BOOLEAN,
             SetApprovalForAll(h, o, approved)
      PROVE  AttestInv'
  <2>1. UNCHANGED <<ledger, issued, now, expiresAt, dueScore, freshAt, documentWeight, feedback,
                    validations>>
    BY <1>6 DEF SetApprovalForAll, reputationVars, validationVars
  <2> QED
    BY <2>1, QuietKeepsInv
<1>7. ASSUME NEW linked \in BOOLEAN, SetReputationRegistry(linked)
      PROVE  AttestInv'
  <2>1. UNCHANGED <<ledger, issued, now, expiresAt, dueScore, freshAt, documentWeight, feedback,
                    validations>>
    BY <1>7 DEF SetReputationRegistry, reputationVars, validationVars
  <2> QED
    BY <2>1, QuietKeepsInv
<1> QED
  BY <1>2, <1>3, <1>4, <1>5, <1>6, <1>7, RegisterKeepsInv DEF RegistryStep

-----------------------------------------------------------------------------
(* Numbers, finite sets, and what is folded over them.                     *)

\* A set of natural numbers that is not empty has a least member.
LEMMA LeastIs ==
  ASSUME NEW A, A \subseteq Nat, A # {}
  PROVE  \E m \in A : \A k \in A : m <= k
<1> DEFINE pairs == {ss \in Nat \X Nat : ss[1] < ss[2]}
<1>1. pairs = Order!OpToRel(<, Nat)
  BY DEF Order!OpToRel
<1>2. Order!IsWellFoundedOn(pairs, Nat)
  BY <1>1, Order!NatLessThanWellFounded
<1>3. \A m, n \in Nat : m < n => <<m, n>> \in pairs
  OBVIOUS
<1> HIDE DEF pairs
<1>4. PICK m \in A : \A k \in A : ~ (<<k, m>> \in pairs)
  BY <1>2, Order!WFMin
<1>5. ASSUME NEW k \in A
      PROVE  m <= k
  <2>1. k \in Nat /\ m \in Nat /\ ~ (k < m)
    BY <1>3, <1>4
  <2> QED
    BY <2>1
<1> QED
  BY <1>5

\* Induction: what holds of 0, and of each number after one it holds of, holds of all.
LEMMA OneByOne ==
  ASSUME NEW Good, 0 \in Good, \A n \in Nat : n \in Good => n + 1 \in Good
  PROVE  \A n \in Nat : n \in Good
<1> DEFINE bad == Nat \ Good
<1> SUFFICES ASSUME bad # {} PROVE FALSE
  OBVIOUS
<1>1. PICK first \in bad : \A k \in bad : first <= k
  <2> HIDE DEF bad
  <2>1. bad \subseteq Nat
    BY DEF bad
  <2> QED
    BY <2>1, LeastIs
<1>2. first \in Nat /\ first # 0 /\ first - 1 \in Nat /\ (first - 1) + 1 = first
  OBVIOUS
<1>3. first - 1 \notin bad
  BY <1>1, <1>2
<1> QED
  BY <1>2, <1>3

\* A set of positions that is not empty has a greatest member, which is its Max.
LEMMA MaxIs ==
  ASSUME NEW n \in Nat, NEW T \in SUBSET (1 .. n), T # {}
  PROVE  Max(T) \in T /\ \A t \in T : t <= Max(T)
<1> DEFINE above == {m \in Nat : \A t \in T : t <= m}
<1>1. n \in above /\ above \subseteq Nat
  OBVIOUS
<1>2. PICK m \in above : \A k \in above : m <= k
  <2> HIDE DEF above
  <2> QED
    BY <1>1, LeastIs
<1>3. m \in T
  <2> SUFFICES ASSUME m \notin T PROVE FALSE
    OBVIOUS
  <2>1. m \in Nat /\ \A t \in T : t \in Nat /\ t >= 1 /\ t < m
    OBVIOUS
  <2>2. m - 1 \in Nat /\ \A t \in T : t <= m - 1
    <3>1. ASSUME NEW t \in T
          PROVE  t <= m - 1 /\ m - 1 \in Nat
      BY <2>1
    <3> QED
      BY <3>1
  <2>3. m - 1 \in above /\ ~ (m <= m - 1)
    BY <2>1, <2>2
  <2> QED
    BY <1>2, <2>3
<1>4. \E x \in T : \A y \in T : x >= y
  BY <1>3
<1> HIDE DEF above
<1>5. Max(T) \in T /\ \A y \in T : Max(T) >= y
  BY <1>4, Zenon DEF Max
<1> QED
  BY <1>5

\* f is what the subsets of S fold to, one chosen member at a time: ch says which.
FoldsTo(f, S, V, base, G, ch) ==
    /\ f \in [SUBSET S -> V]
    /\ \A T \in SUBSET S : f[T] = IF T = {} THEN base ELSE G[<<ch[T], f[T \ {ch[T]}]>>]

\* There is such a function, so that the CHOOSE of the recursive definition has a value.
LEMMA FoldIs ==
  ASSUME NEW S, IsFiniteSet(S), NEW V, NEW base \in V, NEW G \in [S \X V -> V],
         NEW ch, \A T \in SUBSET S : T # {} => ch[T] \in T
  PROVE  \E f : FoldsTo(f, S, V, base, G, ch)
<1> DEFINE small(n) == {T \in SUBSET S : Cardinality(T) <= n}
           is(f, n) == \A T \in small(n) :
                          f[T] = IF T = {} THEN base ELSE G[<<ch[T], f[T \ {ch[T]}]>>]
           good == {n \in Nat : \E f \in [small(n) -> V] : is(f, n)}
<1>0. \A T \in SUBSET S : IsFiniteSet(T) /\ Cardinality(T) \in Nat
  BY FS_Subset, FS_CardinalityType
<1>1. 0 \in good
  <2> DEFINE f == [T \in small(0) |-> base]
  <2>1. \A T \in small(0) : T = {}
    BY <1>0, FS_EmptySet
  <2>2. f \in [small(0) -> V] /\ is(f, 0)
    BY <2>1
  <2> QED
    BY <2>2
<1>2. ASSUME NEW n \in Nat, n \in good
      PROVE  n + 1 \in good
  <2>1. PICK f \in [small(n) -> V] : is(f, n)
    BY <1>2
  <2> DEFINE g == [T \in small(n + 1) |->
                      IF T \in small(n) THEN f[T] ELSE G[<<ch[T], f[T \ {ch[T]}]>>]]
  <2>2. ASSUME NEW T \in small(n + 1), T # {}
        PROVE  /\ ch[T] \in S /\ T \ {ch[T]} \in small(n)
               /\ T \in small(n) => T \ {ch[T]} \in small(n)
    <3>1. ch[T] \in T /\ T \ {ch[T]} \in SUBSET S
      BY <2>2
    <3>2. Cardinality(T \ {ch[T]}) = Cardinality(T) - 1
      BY <1>0, <3>1, FS_RemoveElement
    <3>3. Cardinality(T) \in Nat /\ Cardinality(T) <= n + 1
      BY <1>0
    <3> QED
      BY <3>1, <3>2, <3>3
  <2>3. {} \in small(n) /\ small(n) \subseteq small(n + 1)
    BY <1>0, FS_EmptySet
  <2> HIDE DEF small
  <2>4. ASSUME NEW T \in small(n + 1)
        PROVE  g[T] \in V
    BY <2>1, <2>2, <2>3
  <2>5. g \in [small(n + 1) -> V]
    BY <2>4
  <2>6. ASSUME NEW T \in small(n + 1)
        PROVE  g[T] = IF T = {} THEN base ELSE G[<<ch[T], g[T \ {ch[T]}]>>]
    <3>1. CASE T = {}
      BY <2>1, <2>3, <3>1
    <3>2. CASE T # {}
      <4>1. T \ {ch[T]} \in small(n) /\ T \ {ch[T]} \in small(n + 1)
        BY <2>2, <2>3, <3>2
      <4>2. g[T \ {ch[T]}] = f[T \ {ch[T]}]
        BY <4>1
      <4>3. CASE T \in small(n)
        <5>1. f[T] = G[<<ch[T], f[T \ {ch[T]}]>>]
          BY <2>1, <3>2, <4>3
        <5>2. g[T] = f[T]
          BY <4>3
        <5> QED
          BY <3>2, <4>2, <5>1, <5>2
      <4>4. CASE T \notin small(n)
        <5>1. g[T] = G[<<ch[T], f[T \ {ch[T]}]>>]
          BY <4>4
        <5> QED
          BY <3>2, <4>2, <5>1
      <4> QED
        BY <4>3, <4>4
    <3> QED
      BY <3>1, <3>2
  <2> HIDE DEF g
  <2>7. is(g, n + 1) /\ n + 1 \in Nat
    BY <2>6
  <2> QED
    BY <2>5, <2>7
<1>3. Cardinality(S) \in good
  <2> HIDE DEF good
  <2>1. \A n \in Nat : n \in good
    BY <1>1, <1>2, OneByOne
  <2> QED
    BY <2>1, FS_CardinalityType
<1>4. small(Cardinality(S)) = SUBSET S
  BY FS_Subset
<1>5. PICK f \in [SUBSET S -> V] : is(f, Cardinality(S))
  <2> HIDE DEF small
  <2> QED
    BY <1>3, <1>4
<1> QED
  BY <1>4, <1>5 DEF FoldsTo

\* f is what the entries at each set of positions fold to, the last one taken in last.
LeftFoldsTo(f, n, V, base, G) ==
    /\ f \in [SUBSET (1 .. n) -> V]
    /\ \A T \in SUBSET (1 .. n) : f[T] = IF T = {} THEN base ELSE G[<<Max(T), f[T \ {Max(T)}]>>]

\* There is such a function, too.
LEMMA LeftFoldIs ==
  ASSUME NEW n \in Nat, NEW V, NEW base \in V, NEW G \in [(1 .. n) \X V -> V]
  PROVE  \E f : LeftFoldsTo(f, n, V, base, G)
<1> DEFINE ch == [T \in SUBSET (1 .. n) |-> Max(T)]
<1>1. IsFiniteSet(1 .. n)
  BY FS_Interval
<1>2. \A T \in SUBSET (1 .. n) : ch[T] = Max(T)
  OBVIOUS
<1>3. \A T \in SUBSET (1 .. n) : T # {} => ch[T] \in T
  BY <1>2, MaxIs
<1> HIDE DEF ch
<1>4. PICK f \in [SUBSET (1 .. n) -> V] :
            \A T \in SUBSET (1 .. n) :
               f[T] = IF T = {} THEN base ELSE G[<<ch[T], f[T \ {ch[T]}]>>]
  <2>1. PICK f : FoldsTo(f, 1 .. n, V, base, G, ch)
    BY <1>1, <1>3, FoldIs, Zenon
  <2> QED
    BY <2>1 DEF FoldsTo
<1> QED
  BY <1>2, <1>4 DEF LeftFoldsTo

\* The last of the first i positions is i, and the ones before it are the first i - 1.
LEMMA FirstOnes ==
  ASSUME NEW n \in Nat, NEW i \in 1 .. n
  PROVE  Max(1 .. i) = i /\ (1 .. i) \ {Max(1 .. i)} = 1 .. i - 1 /\ 1 .. i # {}
         /\ 1 .. i \in SUBSET (1 .. n)
<1>1. i \in Nat /\ i \in 1 .. i /\ 1 .. i \in SUBSET (1 .. i)
  OBVIOUS
<1>2. Max(1 .. i) \in 1 .. i /\ \A t \in 1 .. i : t <= Max(1 .. i)
  BY <1>1, MaxIs
<1>3. Max(1 .. i) = i
  BY <1>1, <1>2
<1> QED
  BY <1>1, <1>3

\* The numbers up to the next one.
LEMMA NextUp ==
  ASSUME NEW i \in Nat
  PROVE  \A k : k \in 1 .. i + 1 <=> k \in 1 .. i \/ k = i + 1
OBVIOUS

\* The next of n steps, and the one it follows.
LEMMA StepIn ==
  ASSUME NEW i \in Nat, NEW n \in Nat, i + 1 <= n
  PROVE  i + 1 \in 1 .. n /\ (i + 1) - 1 = i /\ i <= n
OBVIOUS

\* sum is what w of the members comes to, for each subset of S, in the order of a choice.
SumsIn(sum, S, w) ==
    \A T \in SUBSET S :
       sum[T] = IF T = {} THEN 0 ELSE w[CHOOSE x \in T : TRUE] + sum[T \ {CHOOSE x \in T : TRUE}]

\* sum is what the members of a subset are worth together, however it is split.
Adds(sum, S, w) ==
    /\ sum \in [SUBSET S -> Int]
    /\ sum[{}] = 0
    /\ \A x \in S : sum[{x}] = w[x]
    /\ \A A, B \in SUBSET S : A \cap B = {} => sum[A \cup B] = sum[A] + sum[B]

\* What holds of a set when it holds of it without any one of its members holds
\* of each subset of a finite set.
LEMMA PartByPart ==
  ASSUME NEW S, IsFiniteSet(S), NEW Good,
         \A T \in SUBSET S : (\A x \in T : T \ {x} \in Good) => T \in Good
  PROVE  \A T \in SUBSET S : T \in Good
<1> DEFINE small == [n \in Nat |-> {T \in SUBSET S : Cardinality(T) = n}]
           sizes == {n \in Nat : small[n] \subseteq Good}
<1>1. ASSUME NEW T \in SUBSET S
      PROVE  /\ IsFiniteSet(T) /\ Cardinality(T) \in Nat
             /\ Cardinality(T) = 0 <=> T = {}
             /\ \A x \in T : Cardinality(T \ {x}) = Cardinality(T) - 1
  BY FS_Subset, FS_CardinalityType, FS_EmptySet, FS_RemoveElement
<1>2. \A n \in Nat : \A T : T \in small[n] <=> T \in SUBSET S /\ Cardinality(T) = n
  OBVIOUS
<1> HIDE DEF small
<1>3. 0 \in sizes
  <2>1. \A T \in small[0] : T \in SUBSET S /\ T = {}
    BY <1>1, <1>2
  <2>2. \A T \in small[0] : T \in Good
    BY <2>1
  <2> QED
    BY <2>2
<1>4. ASSUME NEW n \in Nat, n \in sizes
      PROVE  n + 1 \in sizes
  <2>1. ASSUME NEW T \in small[n + 1]
        PROVE  T \in Good
    <3>1. T \in SUBSET S /\ Cardinality(T) = n + 1
      BY <1>2
    <3>2. ASSUME NEW x \in T
          PROVE  T \ {x} \in Good
      <4>1. T \ {x} \in SUBSET S /\ Cardinality(T \ {x}) = n
        BY <1>1, <3>1
      <4>2. T \ {x} \in small[n]
        BY <1>2, <4>1
      <4> QED
        BY <1>4, <4>2
    <3> QED
      BY <3>1, <3>2
  <2> QED
    BY <2>1
<1>5. \A n \in Nat : n \in sizes
  <2> HIDE DEF sizes
  <2> QED
    BY <1>3, <1>4, OneByOne
<1>6. \A n \in Nat : small[n] \subseteq Good
  BY <1>5
<1> QED
  BY <1>1, <1>2, <1>6

\* A sum does not depend on the order in which its terms are chosen, and sums of
\* parts add up.
LEMMA SumAdds ==
  ASSUME NEW S, IsFiniteSet(S), NEW w \in [S -> Int], NEW sum,
         sum = [T \in SUBSET S |-> sum[T]], SumsIn(sum, S, w)
  PROVE  Adds(sum, S, w)
<1> DEFINE typed == {T \in SUBSET S : sum[T] \in Int}
           free == {T \in SUBSET S : \A x \in T : sum[T] = w[x] + sum[T \ {x}]}
           adding == {B \in SUBSET S : \A A \in SUBSET S :
                         A \cap B = {} => sum[A \cup B] = sum[A] + sum[B]}
<1>1. sum[{}] = 0
  BY DEF SumsIn
<1>2. \A T \in SUBSET S : T = {} \/ \E x \in T : sum[T] = w[x] + sum[T \ {x}]
  BY DEF SumsIn
<1>3. \A T \in SUBSET S : T \in typed
  <2>1. ASSUME NEW T \in SUBSET S, \A x \in T : T \ {x} \in typed
        PROVE  T \in typed
    <3>1. CASE T = {}
      BY <1>1, <3>1
    <3>2. ASSUME NEW x \in T, sum[T] = w[x] + sum[T \ {x}]
          PROVE  T \in typed
      <4>1. w[x] \in Int /\ sum[T \ {x}] \in Int
        BY <2>1
      <4> QED
        BY <3>2, <4>1
    <3> QED
      BY <1>2, <3>1, <3>2
  <2> HIDE DEF typed
  <2> QED
    BY <2>1, PartByPart
<1>4. \A T \in SUBSET S : T \in free
  <2>1. ASSUME NEW T \in SUBSET S, \A x \in T : T \ {x} \in free
        PROVE  T \in free
    <3>1. ASSUME NEW x \in T
          PROVE  sum[T] = w[x] + sum[T \ {x}]
      <4>1. PICK c \in T : sum[T] = w[c] + sum[T \ {c}]
        BY <1>2
      <4>2. CASE x # c
        <5> DEFINE both == (T \ {c}) \ {x}
        <5>1. w[x] \in Int /\ w[c] \in Int /\ both = (T \ {x}) \ {c} /\ both \in SUBSET S
          OBVIOUS
        <5>2. sum[T \ {c}] = w[x] + sum[both]
          BY <2>1, <4>2
        <5>3. sum[T \ {x}] = w[c] + sum[both]
          BY <2>1, <4>2, <5>1
        <5>4. sum[both] \in Int
          BY <1>3, <5>1
        <5> HIDE DEF both
        <5> QED
          BY <4>1, <5>1, <5>2, <5>3, <5>4
      <4> QED
        BY <4>1, <4>2
    <3> QED
      BY <3>1
  <2> HIDE DEF free
  <2> QED
    BY <2>1, PartByPart
<1>5. \A T \in SUBSET S : sum[T] \in Int
  BY <1>3
<1>6. \A T \in SUBSET S : \A x \in T : sum[T] = w[x] + sum[T \ {x}]
  BY <1>4
<1>7. \A B \in SUBSET S : B \in adding
  <2>1. ASSUME NEW B \in SUBSET S, \A x \in B : B \ {x} \in adding
        PROVE  B \in adding
    <3>1. ASSUME NEW A \in SUBSET S, A \cap B = {}
          PROVE  sum[A \cup B] = sum[A] + sum[B]
      <4>1. CASE B = {}
        <5>1. A \cup B = A /\ sum[A] \in Int
          BY <1>5, <4>1
        <5> QED
          BY <1>1, <4>1, <5>1
      <4>2. ASSUME NEW x \in B
            PROVE  sum[A \cup B] = sum[A] + sum[B]
        <5>1. /\ A \cup B \in SUBSET S /\ x \in A \cup B /\ (A \cup B) \ {x} = A \cup (B \ {x})
              /\ A \cap (B \ {x}) = {} /\ B \ {x} \in SUBSET S /\ w[x] \in Int
          BY <3>1
        <5>2. sum[A \cup B] = w[x] + sum[A \cup (B \ {x})] /\ sum[B] = w[x] + sum[B \ {x}]
          BY <1>6, <5>1
        <5>3. sum[A \cup (B \ {x})] = sum[A] + sum[B \ {x}]
          BY <2>1, <5>1
        <5>4. sum[A] \in Int /\ sum[B \ {x}] \in Int
          BY <1>5, <5>1
        <5> QED
          BY <5>1, <5>2, <5>3, <5>4
      <4> QED
        BY <4>1, <4>2
    <3> QED
      BY <3>1
  <2> HIDE DEF adding
  <2> QED
    BY <2>1, PartByPart
<1>8. \A A, B \in SUBSET S : A \cap B = {} => sum[A \cup B] = sum[A] + sum[B]
  BY <1>7
<1>9. ASSUME NEW x \in S
      PROVE  sum[{x}] = w[x]
  <2>1. {x} \in SUBSET S /\ x \in {x} /\ {x} \ {x} = {} /\ w[x] \in Int
    OBVIOUS
  <2>2. sum[{x}] = w[x] + sum[{}]
    BY <1>6, <2>1
  <2> QED
    BY <1>1, <2>1, <2>2
<1>10. sum \in [SUBSET S -> Int]
  BY <1>5
<1> QED
  BY <1>1, <1>8, <1>9, <1>10 DEF Adds

\* There is such a sum.
LEMMA SumIs ==
  ASSUME NEW S, IsFiniteSet(S), NEW w \in [S -> Int]
  PROVE  \E sum \in [SUBSET S -> Int] : SumsIn(sum, S, w)
<1> DEFINE G == [e \in S \X Int |-> w[e[1]] + e[2]]
           ch == [T \in SUBSET S |-> CHOOSE x \in T : TRUE]
<1>1. G \in [S \X Int -> Int]
  OBVIOUS
<1>2. \A T \in SUBSET S : T # {} => ch[T] \in T
  OBVIOUS
<1>3. PICK sum : FoldsTo(sum, S, Int, 0, G, ch)
  <2> HIDE DEF G, ch
  <2>1. 0 \in Int
    OBVIOUS
  <2> QED
    BY <1>1, <1>2, <2>1, FoldIs, Zenon
<1>4. ASSUME NEW T \in SUBSET S, T # {}
      PROVE  sum[T] = w[ch[T]] + sum[T \ {ch[T]}]
  <2>1. ch[T] \in S /\ T \ {ch[T]} \in SUBSET S
    BY <1>2, <1>4
  <2>2. sum[T \ {ch[T]}] \in Int
    BY <1>3, <2>1 DEF FoldsTo
  <2>3. sum[T] = G[<<ch[T], sum[T \ {ch[T]}]>>]
    BY <1>3, <1>4 DEF FoldsTo
  <2> HIDE DEF ch
  <2> QED
    BY <2>1, <2>2, <2>3
<1>5. sum[{}] = 0
  BY <1>3 DEF FoldsTo
<1>6. \A T \in SUBSET S : ch[T] = CHOOSE x \in T : TRUE
  OBVIOUS
<1> HIDE DEF ch, G
<1>7. sum \in [SUBSET S -> Int]
  BY <1>3 DEF FoldsTo
<1>8. SumsIn(sum, S, w)
  BY <1>4, <1>5, <1>6 DEF SumsIn
<1> QED
  BY <1>7, <1>8

-----------------------------------------------------------------------------
(* The summaries of the contracts, entry by entry.                         *)

SummarySet == [count : Nat, value : Int, decimals : Nat]

\* What one more entry does to the summary of a client.
Counted(sum, entry, tag) ==
    IF entry.isRevoked \/ tag \notin {AnyTag, entry.tag1} THEN sum
    ELSE [count |-> sum.count + 1, value |-> sum.value + entry.value,
          decimals |-> entry.valueDecimals]

\* A summary with one more entry is a summary.
LEMMA Added ==
  ASSUME NEW sum \in SummarySet, NEW entry \in FeedbackSet, NEW tag
  PROVE  Counted(sum, entry, tag) \in SummarySet
<1>1. sum.count + 1 \in Nat /\ sum.value + entry.value \in Int /\ entry.valueDecimals \in Nat
  BY DEF SummarySet, FeedbackSet
<1> QED
  BY <1>1 DEF Counted, SummarySet

\* p is what _summariseClient has, entry by entry.
ClientPath(p, id, client, given, tag) ==
    /\ p[0] = NoSummary
    /\ \A i \in 1 .. Len(given) : p[i] = Counted(p[i - 1], given[i], tag)
    /\ SummariseClient(id, client, tag) = p[Len(given)]

\* _summariseClient, entry by entry.
LEMMA ClientSteps ==
  ASSUME NEW id, NEW client, NEW tag, NEW given \in Seq(FeedbackSet), given = feedback[id][client]
  PROVE  \E p : ClientPath(p, id, client, given, tag)
<1> DEFINE n == Len(given)
           step(f, T) == IF T = {} THEN NoSummary ELSE Counted(f[T \ {Max(T)}], given[Max(T)], tag)
           G == [e \in (1 .. n) \X SummarySet |-> Counted(e[2], given[e[1]], tag)]
           g == CHOOSE f : f = [T \in SUBSET DOMAIN given |-> step(f, T)]
<1>1. SummariseClient(id, client, tag) = g[DOMAIN given]
  BY DEF SummariseClient, FoldLeft, MapThenFoldSet, Counted
<1>2. n \in Nat /\ DOMAIN given = 1 .. n /\ NoSummary \in SummarySet
  BY DEF NoSummary, SummarySet
<1>3. G \in [(1 .. n) \X SummarySet -> SummarySet]
  <2>1. ASSUME NEW i \in 1 .. n, NEW sum \in SummarySet
        PROVE  Counted(sum, given[i], tag) \in SummarySet
    <3>1. given[i] \in FeedbackSet
      BY <1>2
    <3> QED
      BY <3>1, Added
  <2> QED
    BY <2>1
<1>4. PICK f : LeftFoldsTo(f, n, SummarySet, NoSummary, G)
  <2> HIDE DEF G, n
  <2> QED
    BY <1>2, <1>3, LeftFoldIs, Zenon
<1>5. ASSUME NEW T \in SUBSET (1 .. n), T # {}
      PROVE  G[<<Max(T), f[T \ {Max(T)}]>>] = Counted(f[T \ {Max(T)}], given[Max(T)], tag)
  <2>1. Max(T) \in 1 .. n /\ T \ {Max(T)} \in SUBSET (1 .. n)
    BY <1>2, <1>5, MaxIs
  <2>2. f[T \ {Max(T)}] \in SummarySet
    BY <1>4, <2>1 DEF LeftFoldsTo
  <2> HIDE DEF n
  <2> QED
    BY <2>1, <2>2
<1>6. f = [T \in SUBSET DOMAIN given |-> step(f, T)]
  <2> HIDE DEF G
  <2> QED
    BY <1>2, <1>4, <1>5 DEF LeftFoldsTo
<1>7. g = [T \in SUBSET DOMAIN given |-> step(g, T)]
  BY <1>6
<1> DEFINE p == [i \in 0 .. n |-> g[1 .. i]]
<1> HIDE DEF g, G
<1>8. g[{}] = NoSummary
  BY <1>7
<1>9. ASSUME NEW i \in 1 .. n
      PROVE  g[1 .. i] = Counted(g[1 .. i - 1], given[i], tag)
  <2>1. g[1 .. i] = step(g, 1 .. i)
    BY <1>2, <1>7, FirstOnes
  <2> QED
    BY <1>2, <2>1, FirstOnes
<1>10. /\ p[0] = NoSummary /\ p[n] = g[1 .. n]
       /\ \A i \in 1 .. n : p[i] = g[1 .. i] /\ p[i - 1] = g[1 .. i - 1]
  BY <1>2, <1>8
<1> HIDE DEF p
<1> QED
  BY <1>1, <1>2, <1>9, <1>10 DEF ClientPath

\* Two summaries put together.
Joined(sum, own) ==
    [count |-> sum.count + own.count, value |-> sum.value + own.value,
     decimals |-> IF own.count > 0 THEN own.decimals ELSE sum.decimals]

\* p is what getSummary has, client by client.
SummaryPath(p, id, list, tag) ==
    /\ p[0] = NoSummary
    /\ \A i \in 1 .. Len(list) : p[i] = Joined(p[i - 1], SummariseClient(id, list[i], tag))
    /\ GetSummary(id, list, tag) = p[Len(list)]

\* _summarise, client by client.
LEMMA SummarySteps ==
  ASSUME NEW id, NEW tag, NEW list, list \in Seq(Givers),
         \A i \in 1 .. Len(list) : SummariseClient(id, list[i], tag) \in SummarySet
  PROVE  \E p : SummaryPath(p, id, list, tag)
<1> DEFINE n == Len(list)
           own(i) == SummariseClient(id, list[i], tag)
           step(f, T) == IF T = {} THEN NoSummary ELSE Joined(f[T \ {Max(T)}], own(Max(T)))
           G == [e \in (1 .. n) \X SummarySet |-> Joined(e[2], own(e[1]))]
           g == CHOOSE f : f = [T \in SUBSET DOMAIN list |-> step(f, T)]
<1>1. GetSummary(id, list, tag) = g[DOMAIN list]
  BY DEF GetSummary, FoldLeft, MapThenFoldSet, Joined
<1>2. n \in Nat /\ DOMAIN list = 1 .. n /\ NoSummary \in SummarySet
  BY DEF NoSummary, SummarySet
<1>3. G \in [(1 .. n) \X SummarySet -> SummarySet]
  <2>1. ASSUME NEW i \in 1 .. n, NEW sum \in SummarySet
        PROVE  Joined(sum, own(i)) \in SummarySet
    <3>1. own(i) \in SummarySet
      OBVIOUS
    <3> HIDE DEF own
    <3> QED
      BY <3>1 DEF Joined, SummarySet
  <2> HIDE DEF own, n
  <2> QED
    BY <2>1
<1> HIDE DEF own
<1>4. PICK f : LeftFoldsTo(f, n, SummarySet, NoSummary, G)
  <2> HIDE DEF G, n
  <2> QED
    BY <1>2, <1>3, LeftFoldIs, Zenon
<1>5. ASSUME NEW T \in SUBSET (1 .. n), T # {}
      PROVE  G[<<Max(T), f[T \ {Max(T)}]>>] = Joined(f[T \ {Max(T)}], own(Max(T)))
  <2>1. Max(T) \in 1 .. n /\ T \ {Max(T)} \in SUBSET (1 .. n)
    BY <1>2, <1>5, MaxIs
  <2>2. f[T \ {Max(T)}] \in SummarySet
    BY <1>4, <2>1 DEF LeftFoldsTo
  <2> HIDE DEF n
  <2> QED
    BY <2>1, <2>2
<1>6. f = [T \in SUBSET DOMAIN list |-> step(f, T)]
  <2> HIDE DEF G
  <2> QED
    BY <1>2, <1>4, <1>5 DEF LeftFoldsTo
<1>7. g = [T \in SUBSET DOMAIN list |-> step(g, T)]
  BY <1>6
<1> DEFINE p == [i \in 0 .. n |-> g[1 .. i]]
<1> HIDE DEF g, G
<1>8. g[{}] = NoSummary
  BY <1>7
<1>9. ASSUME NEW i \in 1 .. n
      PROVE  g[1 .. i] = Joined(g[1 .. i - 1], own(i))
  <2>1. g[1 .. i] = step(g, 1 .. i)
    BY <1>2, <1>7, FirstOnes
  <2> QED
    BY <1>2, <2>1, FirstOnes
<1>10. /\ p[0] = NoSummary /\ p[n] = g[1 .. n]
       /\ \A i \in 1 .. n : p[i] = g[1 .. i] /\ p[i - 1] = g[1 .. i - 1]
  BY <1>2, <1>8
<1> HIDE DEF p
<1>11. \A i \in 1 .. n : p[i] = Joined(p[i - 1], own(i))
  BY <1>9, <1>10
<1> QED
  BY <1>1, <1>2, <1>10, <1>11 DEF own, SummaryPath

\* A sequence of sequences with one entry is as long as that.
LEMMA FlattenOne ==
  ASSUME NEW s
  PROVE  FlattenSeq(<<s>>) = s
<1> DEFINE step(f, i) == IF i = 1 THEN <<s>>[i] ELSE f[i-1] \o <<s>>[i]
           g == CHOOSE flatten : flatten = [i \in 1 .. Len(<<s>>) |-> step(flatten, i)]
           f == [i \in {1} |-> s]
<1>0. Len(<<s>>) = 1
  OBVIOUS
<1>1. FlattenSeq(<<s>>) = g[1]
  BY <1>0 DEF FlattenSeq
<1>2. f = [i \in 1 .. Len(<<s>>) |-> step(f, i)]
  BY <1>0
<1>3. g = [i \in 1 .. Len(<<s>>) |-> step(g, i)]
  BY <1>2
<1> HIDE DEF g
<1>4. g[1] = s
  BY <1>0, <1>3
<1> QED
  BY <1>1, <1>4

VotesSet == [count : Nat, total : Int]

NoVotes == [count |-> 0, total |-> 0]

\* What one more answer does to the tally of validators.
Voted(sum, h, id) ==
    IF validations[h].agentId # id \/ ~ validations[h].hasResponse THEN sum
    ELSE [count |-> sum.count + 1, total |-> sum.total + validations[h].response]

\* p is what getSummary of the validation registry has, request by request.
VotesPath(p, id, v, list) ==
    /\ p[0] = NoVotes
    /\ \A i \in 1 .. Len(list) : p[i] = Voted(p[i - 1], list[i], id)
    /\ ValidationSummary(id, <<v>>) =
          [count |-> p[Len(list)].count,
           avgResponse |-> IF p[Len(list)].count > 0
                           THEN p[Len(list)].total \div p[Len(list)].count ELSE 0]

\* getSummary of the validation registry, request by request.
LEMMA VotesSteps ==
  ASSUME NEW id, NEW v, NEW list, list \in Seq(Hashes), validatorRequests[v] = list,
         validations \in [Hashes -> RecordSet]
  PROVE  \E p : VotesPath(p, id, v, list)
<1> DEFINE n == Len(list)
           step(f, T) == IF T = {} THEN NoVotes ELSE Voted(f[T \ {Max(T)}], list[Max(T)], id)
           G == [e \in (1 .. n) \X VotesSet |-> Voted(e[2], list[e[1]], id)]
           g == CHOOSE f : f = [T \in SUBSET DOMAIN list |-> step(f, T)]
<1>1. ValidationSummary(id, <<v>>) =
         [count |-> g[DOMAIN list].count,
          avgResponse |-> IF g[DOMAIN list].count > 0
                          THEN g[DOMAIN list].total \div g[DOMAIN list].count ELSE 0]
  <2>1. [i \in 1 .. Len(<<v>>) |-> validatorRequests[<<v>>[i]]] = << list >>
    OBVIOUS
  <2>2. FlattenSeq([i \in 1 .. Len(<<v>>) |-> validatorRequests[<<v>>[i]]]) = list
    BY <2>1, FlattenOne
  <2>3. FoldLeft(LAMBDA sum, h :
                   IF validations[h].agentId # id \/ ~ validations[h].hasResponse THEN sum
                   ELSE [count |-> sum.count + 1, total |-> sum.total + validations[h].response],
                   [count |-> 0, total |-> 0], list) = g[DOMAIN list]
    BY DEF FoldLeft, MapThenFoldSet, Voted, NoVotes
  <2> HIDE DEF g
  <2> QED
    BY <2>2, <2>3, Zenon DEF ValidationSummary
<1>2. n \in Nat /\ DOMAIN list = 1 .. n /\ NoVotes \in VotesSet
  BY DEF NoVotes, VotesSet
<1>3. G \in [(1 .. n) \X VotesSet -> VotesSet]
  <2>1. ASSUME NEW i \in 1 .. n, NEW sum \in VotesSet
        PROVE  Voted(sum, list[i], id) \in VotesSet
    <3>1. list[i] \in Hashes
      BY <1>2
    <3>2. validations[list[i]] \in RecordSet
      BY <3>1
    <3>3. PICK r \in Nat : r = validations[list[i]].response
      BY <3>2 DEF RecordSet
    <3>4. sum.count + 1 \in Nat /\ sum.total + r \in Int
      BY DEF VotesSet
    <3> QED
      BY <3>3, <3>4 DEF VotesSet, Voted
  <2> HIDE DEF n
  <2> QED
    BY <2>1
<1>4. PICK f : LeftFoldsTo(f, n, VotesSet, NoVotes, G)
  <2> HIDE DEF G, n
  <2> QED
    BY <1>2, <1>3, LeftFoldIs, Zenon
<1>5. ASSUME NEW T \in SUBSET (1 .. n), T # {}
      PROVE  G[<<Max(T), f[T \ {Max(T)}]>>] = Voted(f[T \ {Max(T)}], list[Max(T)], id)
  <2>1. Max(T) \in 1 .. n /\ T \ {Max(T)} \in SUBSET (1 .. n)
    BY <1>2, <1>5, MaxIs
  <2>2. f[T \ {Max(T)}] \in VotesSet
    BY <1>4, <2>1 DEF LeftFoldsTo
  <2> HIDE DEF n
  <2> QED
    BY <2>1, <2>2
<1>6. f = [T \in SUBSET DOMAIN list |-> step(f, T)]
  <2> HIDE DEF G
  <2> QED
    BY <1>2, <1>4, <1>5 DEF LeftFoldsTo
<1>7. g = [T \in SUBSET DOMAIN list |-> step(g, T)]
  BY <1>6
<1> DEFINE p == [i \in 0 .. n |-> g[1 .. i]]
<1> HIDE DEF g, G
<1>8. g[{}] = NoVotes
  BY <1>7
<1>9. ASSUME NEW i \in 1 .. n
      PROVE  g[1 .. i] = Voted(g[1 .. i - 1], list[i], id)
  <2>1. g[1 .. i] = step(g, 1 .. i)
    BY <1>2, <1>7, FirstOnes
  <2> QED
    BY <1>2, <2>1, FirstOnes
<1>10. /\ p[0] = NoVotes /\ p[n] = g[1 .. n]
       /\ \A i \in 1 .. n : p[i] = g[1 .. i] /\ p[i - 1] = g[1 .. i - 1]
  BY <1>2, <1>8
<1> HIDE DEF p
<1>11. \A i \in 1 .. n : p[i] = Voted(p[i - 1], list[i], id)
  BY <1>9, <1>10
<1> QED
  BY <1>1, <1>2, <1>10, <1>11 DEF VotesPath

-----------------------------------------------------------------------------
(* What they add up to.                                                    *)

\* sum is the summary of the feedback in T: how many, what they are worth together, and
\* the decimals of one of them.
Tallies(sum, T, total, decimals) ==
    /\ sum \in SummarySet
    /\ sum.count = Cardinality(T)
    /\ sum.value = total[T]
    /\ T # {} => \E f \in T : sum.decimals = decimals[f]

\* One more feedback is one more in the summary.
LEMMA OneMore ==
  ASSUME NEW S, IsFiniteSet(S), NEW w \in [S -> Int], NEW decimals \in [S -> Nat], NEW total,
         Adds(total, S, w), NEW T \in SUBSET S, NEW x \in S, x \notin T, NEW sum,
         Tallies(sum, T, total, decimals), NEW new,
         new = [count |-> sum.count + 1, value |-> sum.value + w[x], decimals |-> decimals[x]]
  PROVE  Tallies(new, T \cup {x}, total, decimals)
<1>1. /\ sum.count \in Nat /\ sum.value \in Int /\ w[x] \in Int /\ decimals[x] \in Nat
      /\ sum.count = Cardinality(T) /\ sum.value = total[T]
  BY DEF Tallies, SummarySet
<1>2. new \in SummarySet
  BY <1>1 DEF SummarySet
<1>3. IsFiniteSet(T)
  BY FS_Subset
<1>4. Cardinality(T \cup {x}) = Cardinality(T) + 1
  BY <1>3, FS_AddElement
<1>5. {x} \in SUBSET S /\ T \cap {x} = {}
  OBVIOUS
<1>6. total[{x}] = w[x] /\ total[T \cup {x}] = total[T] + total[{x}]
  BY <1>5 DEF Adds
<1> QED
  BY <1>1, <1>2, <1>4, <1>6 DEF Tallies

\* The summaries of two parts joined are the summary of both.
LEMMA BothTallied ==
  ASSUME NEW S, IsFiniteSet(S), NEW w, NEW decimals, NEW total,
         Adds(total, S, w), NEW A \in SUBSET S, NEW B \in SUBSET S, A \cap B = {}, NEW sum, NEW own,
         Tallies(sum, A, total, decimals), Tallies(own, B, total, decimals)
  PROVE  Tallies(Joined(sum, own), A \cup B, total, decimals)
<1>1. /\ sum.count \in Nat /\ sum.value \in Int /\ sum.decimals \in Nat
      /\ own.count \in Nat /\ own.value \in Int /\ own.decimals \in Nat
      /\ sum.count = Cardinality(A) /\ sum.value = total[A]
      /\ own.count = Cardinality(B) /\ own.value = total[B]
  BY DEF Tallies, SummarySet
<1>2. Joined(sum, own) \in SummarySet
  BY <1>1 DEF SummarySet, Joined
<1>3. IsFiniteSet(A) /\ IsFiniteSet(B)
  BY FS_Subset
<1>4. Cardinality(A \cup B) = Cardinality(A) + Cardinality(B)
  <2>1. Cardinality(A \cup B) = Cardinality(A) + Cardinality(B) - Cardinality(A \cap B)
    BY <1>3, FS_Union
  <2> QED
    BY <1>1, <2>1, FS_EmptySet
<1>5. total[A \cup B] = total[A] + total[B]
  BY DEF Adds
<1>6. own.count > 0 <=> B # {}
  BY <1>1, <1>3, FS_EmptySet
<1>7. A \cup B # {} => \E f \in A \cup B : Joined(sum, own).decimals = decimals[f]
  BY <1>6 DEF Tallies, Joined
<1> QED
  BY <1>1, <1>2, <1>4, <1>5, <1>7 DEF Tallies, Joined

\* The feedback of one client as far as an index, and that of the first clients of a list.
Of(active, client, j) == {f \in active : f[1] = client /\ f[2] <= j}

FromFirst(active, list, i) == {f \in active : \E k \in 1 .. i : list[k] = f[1]}

\* The feedback that counts is of the agent's clients, and finite.
LEMMA ActiveShape ==
  ASSUME AttestInv, ListsOK, NEW id \in AgentIds, NEW tag \in Tags \cup {AnyTag},
         NEW active, active = ActiveFeedback(id, tag)
  PROVE  /\ IsFiniteSet(active)
         /\ \A c \in Givers : /\ feedback[id][c] \in Seq(FeedbackSet)
                              /\ Len(feedback[id][c]) <= MaxCalls + 1
         /\ \A f \in active : /\ f \in Givers \X (1 .. MaxCalls + 1)
                              /\ \E k \in 1 .. Len(clients[id]) : clients[id][k] = f[1]
         /\ \A c \in Givers, j \in 1 .. MaxCalls + 1 : <<c, j>> \in active <=>
               /\ j <= Len(feedback[id][c])
               /\ ~ feedback[id][c][j].isRevoked
               /\ tag \in {AnyTag, feedback[id][c][j].tag1}
<1>1. /\ feedback \in [AgentIds -> [Givers -> Seq(FeedbackSet)]]
      /\ clients[id] \in Seq(Givers) /\ Listing(clients[id], clientExists[id], feedback[id])
      /\ MaxCalls \in Nat /\ calls \in Nat /\ calls <= MaxCalls
  BY AttestationAssumption DEF AttestInv, AttestTypeOK, ListsOK
<1>2. ASSUME NEW c \in Givers
      PROVE  feedback[id][c] \in Seq(FeedbackSet) /\ Len(feedback[id][c]) <= MaxCalls + 1
  <2>1. feedback[id][c] \in Seq(FeedbackSet) /\ Len(feedback[id][c]) \in Nat
    BY <1>1
  <2>2. CASE c \in Accounts
    <3>1. Len(feedback[id][c]) <= calls
      BY <2>2 DEF ListsOK
    <3> QED
      BY <1>1, <2>1, <3>1
  <2>3. CASE c = Registry
    <3>1. Len(feedback[id][c]) <= 1
      <4>1. ProofEntryOK(dueScore[id], feedback[id][c])
        BY <2>3 DEF AttestInv, ScoresOK
      <4>2. feedback[id][c] = << >> \/ Len(feedback[id][c]) = 1
        BY <4>1, Zenon DEF ProofEntryOK
      <4>3. PICK size : size = Len(feedback[id][c])
        OBVIOUS
      <4>4. Len(<< >>) = 0
        OBVIOUS
      <4>5. size = 0 \/ size = 1
        BY <4>2, <4>3, <4>4, Zenon
      <4>6. size <= 1
        BY <4>5
      <4> QED
        BY <4>3, <4>6, Zenon
    <3> QED
      BY <1>1, <2>1, <3>1
  <2> QED
    BY <2>2, <2>3 DEF Givers
<1>3. \A f : f \in active <=>
         /\ f \in Givers \X (1 .. MaxCalls + 1)
         /\ f[2] <= Len(feedback[id][f[1]])
         /\ ~ feedback[id][f[1]][f[2]].isRevoked
         /\ tag \in {AnyTag, feedback[id][f[1]][f[2]].tag1}
  BY DEF ActiveFeedback, Givers
<1>4. ASSUME NEW f \in active
      PROVE  \E k \in 1 .. Len(clients[id]) : clients[id][k] = f[1]
  <2>1. PICK c \in Givers, j \in 1 .. MaxCalls + 1 : f = <<c, j>> /\ j <= Len(feedback[id][c])
    BY <1>3
  <2>2. feedback[id][c] # << >>
    BY <1>1, <2>1
  <2> QED
    BY <1>1, <2>1, <2>2 DEF Listing
<1>5. IsFiniteSet(active)
  <2> DEFINE n == Len(clients[id])
             used == {clients[id][k] : k \in 1 .. n}
  <2>1. IsFiniteSet(1 .. n) /\ IsFiniteSet(1 .. MaxCalls + 1)
    <3>1. n \in Int /\ MaxCalls + 1 \in Int /\ 1 \in Int
      BY <1>1
    <3> QED
      BY <3>1, FS_Interval
  <2>2. IsFiniteSet(used)
    <3> DEFINE f == [k \in 1 .. n |-> clients[id][k]]
    <3>1. f \in Surjection(1 .. n, used)
      BY DEF Surjection
    <3> HIDE DEF f, used
    <3> QED
      BY <2>1, <3>1, FS_Surjection
  <2>3. IsFiniteSet(used \X (1 .. MaxCalls + 1))
    <3> HIDE DEF used
    <3> QED
      BY <2>1, <2>2, FS_Product
  <2>4. active \in SUBSET (used \X (1 .. MaxCalls + 1))
    BY <1>3, <1>4
  <2> HIDE DEF used
  <2> QED
    BY <2>3, <2>4, FS_Subset
<1> QED
  BY <1>2, <1>3, <1>4, <1>5

\* _summariseClient is right about the feedback of its client.
LEMMA ClientTally ==
  ASSUME AttestInv, ListsOK, NEW id \in AgentIds, NEW tag \in Tags \cup {AnyTag},
         NEW active, active = ActiveFeedback(id, tag),
         NEW w \in [active -> Int], NEW decimals \in [active -> Nat], NEW total,
         \A f \in active : /\ w[f] = feedback[id][f[1]][f[2]].value
                           /\ decimals[f] = feedback[id][f[1]][f[2]].valueDecimals,
         Adds(total, active, w), NEW c \in Givers
  PROVE  Tallies(SummariseClient(id, c, tag), {f \in active : f[1] = c}, total, decimals)
<1>0. PICK given : given = feedback[id][c]
  OBVIOUS
<1> DEFINE n == Len(given)
<1>1. /\ IsFiniteSet(active) /\ given \in Seq(FeedbackSet) /\ n \in Nat /\ n <= MaxCalls + 1
      /\ MaxCalls \in Nat
      /\ \A f \in active : f \in Givers \X (1 .. MaxCalls + 1)
      /\ \A j \in 1 .. n : <<c, j>> \in active <=>
               ~ given[j].isRevoked /\ tag \in {AnyTag, given[j].tag1}
      /\ \A f \in active : f[1] = c => f[2] <= n
  <2>1. /\ \A f \in active : f \in Givers \X (1 .. MaxCalls + 1)
        /\ \A j \in 1 .. MaxCalls + 1 : <<c, j>> \in active <=>
               /\ j <= n
               /\ ~ given[j].isRevoked
               /\ tag \in {AnyTag, given[j].tag1}
        /\ given \in Seq(FeedbackSet) /\ n <= MaxCalls + 1 /\ IsFiniteSet(active)
    BY <1>0, ActiveShape
  <2>2. n \in Nat /\ MaxCalls \in Nat
    BY <2>1, AttestationAssumption
  <2>3. \A j \in 1 .. n : j \in 1 .. MaxCalls + 1 /\ j <= n
    BY <2>1, <2>2
  <2>4. ASSUME NEW f \in active, f[1] = c
        PROVE  f[2] <= n
    <3>1. f = <<c, f[2]>> /\ f[2] \in 1 .. MaxCalls + 1
      BY <2>1, <2>4
    <3> HIDE DEF n
    <3> QED
      BY <2>1, <3>1
  <2> HIDE DEF n
  <2> QED
    BY <2>1, <2>2, <2>3, <2>4
<1>2. PICK p : /\ p[0] = NoSummary
               /\ \A i \in 1 .. n : p[i] = Counted(p[i - 1], given[i], tag)
               /\ SummariseClient(id, c, tag) = p[n]
  <2>1. PICK p : ClientPath(p, id, c, given, tag)
    BY <1>0, <1>1, ClientSteps, Zenon
  <2> QED
    BY <2>1 DEF ClientPath
<1>3. \A j \in 1 .. n : <<c, j>> \in active =>
         /\ w[<<c, j>>] = given[j].value /\ decimals[<<c, j>>] = given[j].valueDecimals
  BY <1>0
<1> HIDE DEF n
<1> DEFINE right == {j \in Nat : j <= n => Tallies(p[j], Of(active, c, j), total, decimals)}
<1>4. 0 \in right
  <2>1. Of(active, c, 0) = {}
    BY <1>1 DEF Of
  <2>2. NoSummary \in SummarySet /\ NoSummary.count = 0 /\ NoSummary.value = 0
    BY DEF NoSummary, SummarySet
  <2>3. Tallies(p[0], {}, total, decimals)
    BY <1>2, <2>2, FS_EmptySet DEF Tallies, Adds
  <2> QED
    BY <2>1, <2>3
<1>5. ASSUME NEW j \in Nat, j \in right
      PROVE  j + 1 \in right
  <2> SUFFICES ASSUME j + 1 <= n
               PROVE  Tallies(p[j + 1], Of(active, c, j + 1), total, decimals)
    OBVIOUS
  <2>0. j + 1 \in 1 .. n /\ (j + 1) - 1 = j /\ j <= n
    <3>1. n \in Nat
      BY <1>1
    <3> QED
      BY <3>1, StepIn, Zenon
  <2>1. /\ Tallies(p[j], Of(active, c, j), total, decimals)
        /\ j + 1 \in 1 .. n /\ p[j + 1] = Counted(p[j], given[j + 1], tag)
    <3>1. p[j + 1] = Counted(p[(j + 1) - 1], given[j + 1], tag)
      BY <1>2, <2>0
    <3> QED
      BY <1>5, <2>0, <3>1
  <2>2. Of(active, c, j + 1) =
           IF <<c, j + 1>> \in active THEN Of(active, c, j) \cup {<<c, j + 1>>}
           ELSE Of(active, c, j)
    <3>1. ASSUME NEW f \in active, f[1] = c
          PROVE  f[2] <= j + 1 <=> f[2] <= j \/ f = <<c, j + 1>>
      <4>1. f = <<c, f[2]>> /\ f[2] \in Nat
        BY <1>1, <3>1
      <4> QED
        BY <4>1
    <3> QED
      BY <3>1 DEF Of
  <2>3. CASE <<c, j + 1>> \notin active
    <3>1. p[j + 1] = p[j]
      BY <1>1, <2>1, <2>3 DEF Counted
    <3> QED
      BY <2>1, <2>2, <2>3, <3>1
  <2>4. CASE <<c, j + 1>> \in active
    <3>1. PICK x \in active : x = <<c, j + 1>>
      BY <2>4
    <3>2. p[j + 1] = [count |-> p[j].count + 1, value |-> p[j].value + w[x],
                      decimals |-> decimals[x]]
      BY <1>1, <1>3, <2>1, <3>1 DEF Counted
    <3>3. x \notin Of(active, c, j) /\ Of(active, c, j) \in SUBSET active
      BY <3>1 DEF Of
    <3>4. Of(active, c, j + 1) = Of(active, c, j) \cup {x}
      BY <2>2, <3>1
    <3>5. Tallies(p[j + 1], Of(active, c, j) \cup {x}, total, decimals)
      BY <1>1, <2>1, <3>2, <3>3, OneMore
    <3> QED
      BY <3>4, <3>5
  <2> QED
    BY <2>3, <2>4
<1>6. Tallies(p[n], Of(active, c, n), total, decimals)
  <2>1. \A j \in Nat : j \in right
    <3> HIDE DEF right
    <3> QED
      BY <1>4, <1>5, OneByOne
  <2> QED
    BY <1>1, <2>1
<1>7. Of(active, c, n) = {f \in active : f[1] = c}
  BY <1>1 DEF Of
<1> HIDE DEF right
<1> QED
  BY <1>2, <1>6, <1>7

\* getSummary over all clients is right about all the feedback that counts.
LEMMA SummaryTally ==
  ASSUME AttestInv, ListsOK, NEW id \in AgentIds, NEW tag \in Tags \cup {AnyTag},
         NEW active, active = ActiveFeedback(id, tag),
         NEW w \in [active -> Int], NEW decimals \in [active -> Nat], NEW total,
         \A f \in active : /\ w[f] = feedback[id][f[1]][f[2]].value
                           /\ decimals[f] = feedback[id][f[1]][f[2]].valueDecimals,
         Adds(total, active, w)
  PROVE  Tallies(GetSummary(id, clients[id], tag), active, total, decimals)
<1>0. PICK list : list = clients[id]
  OBVIOUS
<1> DEFINE n == Len(list)
           own(c) == SummariseClient(id, c, tag)
<1>1. /\ list \in Seq(Givers) /\ n \in Nat /\ IsFiniteSet(active)
      /\ \A i, j \in 1 .. n : list[i] = list[j] => i = j
      /\ \A i \in 1 .. n : list[i] \in Givers
      /\ \A f \in active : \E k \in 1 .. n : list[k] = f[1]
  <2>1. /\ list \in Seq(Givers) /\ \A i, j \in 1 .. n : list[i] = list[j] => i = j
    BY <1>0 DEF ListsOK, Listing
  <2>2. IsFiniteSet(active) /\ \A f \in active : \E k \in 1 .. n : list[k] = f[1]
    BY <1>0, ActiveShape
  <2> QED
    BY <2>1, <2>2
<1>2. ASSUME NEW c \in Givers
      PROVE  Tallies(own(c), {f \in active : f[1] = c}, total, decimals)
  BY ClientTally
<1>3. PICK p : /\ p[0] = NoSummary
               /\ \A i \in 1 .. n : p[i] = Joined(p[i - 1], own(list[i]))
               /\ GetSummary(id, list, tag) = p[n]
  <2>1. ASSUME NEW i \in 1 .. Len(list)
        PROVE  SummariseClient(id, list[i], tag) \in SummarySet
    <3>1. list[i] \in Givers
      BY <1>1
    <3> QED
      BY <1>2, <3>1 DEF Tallies
  <2>2. list \in Seq(Givers)
    BY <1>1
  <2>3. PICK p : SummaryPath(p, id, list, tag)
    BY <2>1, <2>2, SummarySteps, Zenon
  <2> QED
    BY <2>3 DEF SummaryPath
<1> HIDE DEF n, own
<1> DEFINE right == {i \in Nat :
              i <= n => Tallies(p[i], FromFirst(active, list, i), total, decimals)}
<1>4. 0 \in right
  <2>1. FromFirst(active, list, 0) = {}
    BY DEF FromFirst
  <2>2. NoSummary \in SummarySet /\ NoSummary.count = 0 /\ NoSummary.value = 0
    BY DEF NoSummary, SummarySet
  <2>3. Tallies(p[0], {}, total, decimals)
    BY <1>3, <2>2, FS_EmptySet DEF Tallies, Adds
  <2> QED
    BY <2>1, <2>3
<1>5. ASSUME NEW i \in Nat, i \in right
      PROVE  i + 1 \in right
  <2> SUFFICES ASSUME i + 1 <= n
               PROVE  Tallies(p[i + 1], FromFirst(active, list, i + 1), total, decimals)
    OBVIOUS
  <2> DEFINE before == FromFirst(active, list, i)
             more == {f \in active : f[1] = list[i + 1]}
  <2>0. i + 1 \in 1 .. n /\ (i + 1) - 1 = i /\ i <= n
    <3>1. n \in Nat
      BY <1>1
    <3> QED
      BY <3>1, StepIn, Zenon
  <2>1. /\ Tallies(p[i], before, total, decimals)
        /\ i + 1 \in 1 .. n /\ p[i + 1] = Joined(p[i], own(list[i + 1]))
    BY <1>3, <1>5, <2>0
  <2>2. Tallies(own(list[i + 1]), more, total, decimals)
    BY <1>1, <1>2, <2>1
  <2>3. before \in SUBSET active /\ more \in SUBSET active
    BY DEF FromFirst
  <2>4. before \cap more = {}
    <3>1. ASSUME NEW k \in 1 .. i
          PROVE  list[k] # list[i + 1]
      <4>1. k \in 1 .. n /\ k # i + 1
        BY <1>1, <2>1
      <4> QED
        BY <1>1, <2>1, <4>1
    <3> QED
      BY <3>1 DEF FromFirst
  <2>5. FromFirst(active, list, i + 1) = before \cup more
    <3>1. \A k : k \in 1 .. i + 1 <=> k \in 1 .. i \/ k = i + 1
      BY NextUp
    <3> QED
      BY <3>1 DEF FromFirst
  <2> HIDE DEF before, more
  <2>6. Tallies(Joined(p[i], own(list[i + 1])), before \cup more, total, decimals)
    BY <1>1, <2>1, <2>2, <2>3, <2>4, BothTallied
  <2> QED
    BY <2>1, <2>5, <2>6
<1>6. Tallies(p[n], FromFirst(active, list, n), total, decimals)
  <2>1. \A i \in Nat : i \in right
    <3> HIDE DEF right
    <3> QED
      BY <1>4, <1>5, OneByOne
  <2> QED
    BY <1>1, <2>1
<1>7. FromFirst(active, list, n) = active
  BY <1>1 DEF FromFirst
<1> HIDE DEF right
<1> QED
  BY <1>0, <1>3, <1>6, <1>7

\* sum is the tally of the answers in T.
Votes(sum, T, total) == sum \in VotesSet /\ sum.count = Cardinality(T) /\ sum.total = total[T]

\* Those among the first of a list.
UpTo(answered, list, i) == {h \in answered : \E k \in 1 .. i : list[k] = h}

\* The answers of a validator are among its requests, and finite.
LEMMA AnsweredShape ==
  ASSUME RequestsOK, NEW id, NEW v \in Accounts, NEW answered, answered = Answered(id, v),
         NEW list, list = validatorRequests[v]
  PROVE  /\ IsFiniteSet(answered) /\ list \in Seq(Hashes)
         /\ \A i, j \in 1 .. Len(list) : list[i] = list[j] => i = j
         /\ \A h \in answered : h \in Hashes /\ \E k \in 1 .. Len(list) : list[k] = h
         /\ \A k \in 1 .. Len(list) : list[k] \in Hashes
         /\ \A k \in 1 .. Len(list) : list[k] \in answered <=>
               validations[list[k]].agentId = id /\ validations[list[k]].hasResponse
<1>1. /\ list \in Seq(Hashes) /\ RequestsOf(list, v)
  BY DEF RequestsOK, Validators
<1>2. /\ \A i, j \in 1 .. Len(list) : list[i] = list[j] => i = j
      /\ \A h \in answered : h \in Hashes /\ \E k \in 1 .. Len(list) : list[k] = h
  BY <1>1 DEF RequestsOf, Answered
<1>3. \A k \in 1 .. Len(list) : list[k] \in Hashes
  BY <1>1
<1>4. \A k \in 1 .. Len(list) : list[k] \in answered <=>
               validations[list[k]].agentId = id /\ validations[list[k]].hasResponse
  BY <1>1, <1>3 DEF RequestsOf, Answered
<1>5. IsFiniteSet(answered)
  <2> DEFINE n == Len(list)
             used == {list[k] : k \in 1 .. n}
             f == [k \in 1 .. n |-> list[k]]
  <2>1. IsFiniteSet(1 .. n)
    <3>1. n \in Int /\ 1 \in Int
      BY <1>1
    <3> QED
      BY <3>1, FS_Interval
  <2>2. f \in Surjection(1 .. n, used)
    BY DEF Surjection
  <2>3. answered \in SUBSET used
    BY <1>2
  <2> HIDE DEF f, used
  <2>4. IsFiniteSet(used)
    BY <2>1, <2>2, FS_Surjection
  <2> QED
    BY <2>3, <2>4, FS_Subset
<1> QED
  BY <1>1, <1>2, <1>3, <1>4, <1>5

\* getSummary of one validator is right about its answers.
LEMMA AnswersTally ==
  ASSUME AttestInv, RequestsOK, NEW id, NEW v \in Accounts,
         NEW answered, answered = Answered(id, v), NEW w \in [answered -> Int], NEW total,
         \A h \in answered : w[h] = validations[h].response, Adds(total, answered, w)
  PROVE  \E sum : /\ Votes(sum, answered, total)
                  /\ ValidationSummary(id, <<v>>) =
                        [count |-> sum.count,
                         avgResponse |-> IF sum.count > 0 THEN sum.total \div sum.count ELSE 0]
<1>0. PICK list : list = validatorRequests[v]
  OBVIOUS
<1> DEFINE n == Len(list)
<1>1. /\ IsFiniteSet(answered) /\ list \in Seq(Hashes) /\ n \in Nat
      /\ \A i, j \in 1 .. n : list[i] = list[j] => i = j
      /\ \A h \in answered : h \in Hashes /\ \E k \in 1 .. n : list[k] = h
      /\ \A k \in 1 .. n : list[k] \in answered <=>
               validations[list[k]].agentId = id /\ validations[list[k]].hasResponse
  BY <1>0, AnsweredShape
<1>2. PICK p : VotesPath(p, id, v, list)
  <2>1. validations \in [Hashes -> RecordSet]
    BY DEF AttestInv, AttestTypeOK
  <2> QED
    BY <1>0, <1>1, <2>1, VotesSteps, Zenon
<1>3. p[0] = NoVotes /\ \A i \in 1 .. n : p[i] = Voted(p[i - 1], list[i], id)
  BY <1>2 DEF VotesPath
<1> HIDE DEF n
<1> DEFINE right == {i \in Nat : i <= n => Votes(p[i], UpTo(answered, list, i), total)}
<1>4. 0 \in right
  <2>1. UpTo(answered, list, 0) = {}
    BY DEF UpTo
  <2>2. NoVotes \in VotesSet /\ NoVotes.count = 0 /\ NoVotes.total = 0
    BY DEF NoVotes, VotesSet
  <2>3. Votes(p[0], {}, total)
    BY <1>3, <2>2, FS_EmptySet DEF Votes, Adds
  <2> QED
    BY <2>1, <2>3
<1>5. ASSUME NEW i \in Nat, i \in right
      PROVE  i + 1 \in right
  <2> SUFFICES ASSUME i + 1 <= n
               PROVE  Votes(p[i + 1], UpTo(answered, list, i + 1), total)
    OBVIOUS
  <2> DEFINE before == UpTo(answered, list, i)
  <2>0. i + 1 \in 1 .. n /\ (i + 1) - 1 = i /\ i <= n
    <3>1. n \in Nat
      BY <1>1
    <3> QED
      BY <3>1, StepIn, Zenon
  <2>1. Votes(p[i], before, total) /\ p[i + 1] = Voted(p[i], list[i + 1], id)
    BY <1>3, <1>5, <2>0
  <2>2. before \in SUBSET answered /\ IsFiniteSet(before)
    <3>1. before \in SUBSET answered
      BY DEF UpTo
    <3> HIDE DEF before
    <3> QED
      BY <1>1, <3>1, FS_Subset
  <2>3. UpTo(answered, list, i + 1) =
           IF list[i + 1] \in answered THEN before \cup {list[i + 1]} ELSE before
    BY NextUp DEF UpTo
  <2>4. CASE list[i + 1] \notin answered
    <3>1. p[i + 1] = p[i]
      BY <1>1, <2>0, <2>1, <2>4 DEF Voted
    <3> QED
      BY <2>1, <2>3, <2>4, <3>1
  <2>5. CASE list[i + 1] \in answered
    <3>1. PICK x \in answered : x = list[i + 1]
      BY <2>5
    <3>2. x \notin before
      <4>1. ASSUME NEW k \in 1 .. i
            PROVE  list[k] # x
        <5>1. k \in 1 .. n /\ k # i + 1
          BY <1>1, <2>0
        <5> QED
          BY <1>1, <2>0, <3>1, <5>1
      <4> QED
        BY <4>1 DEF UpTo
    <3>3. p[i + 1] = [count |-> p[i].count + 1, total |-> p[i].total + w[x]]
      BY <1>1, <2>0, <2>1, <2>5, <3>1 DEF Voted
    <3>4. UpTo(answered, list, i + 1) = before \cup {x}
      BY <2>3, <3>1
    <3> HIDE DEF before
    <3>5. Cardinality(before \cup {x}) = Cardinality(before) + 1
      BY <2>2, <3>2, FS_AddElement
    <3>6. {x} \in SUBSET answered /\ before \cap {x} = {}
      BY <3>2
    <3>7. total[{x}] = w[x] /\ total[before \cup {x}] = total[before] + total[{x}]
      BY <2>2, <3>6 DEF Adds
    <3>8. /\ p[i].count \in Nat /\ p[i].total \in Int /\ w[x] \in Int
          /\ p[i].count = Cardinality(before) /\ p[i].total = total[before]
      BY <2>1 DEF Votes, VotesSet
    <3>9. Votes(p[i + 1], before \cup {x}, total)
      BY <3>3, <3>5, <3>7, <3>8 DEF Votes, VotesSet
    <3> QED
      BY <3>4, <3>9
  <2> QED
    BY <2>4, <2>5
<1>6. Votes(p[n], UpTo(answered, list, n), total)
  <2>1. \A i \in Nat : i \in right
    <3> HIDE DEF right
    <3> QED
      BY <1>4, <1>5, OneByOne
  <2> QED
    BY <1>1, <2>1
<1>7. UpTo(answered, list, n) = answered
  BY <1>1 DEF UpTo
<1> HIDE DEF right
<1> QED
  BY <1>2, <1>6, <1>7 DEF VotesPath, n

\* With the lists in order, the summaries are exact.
LEMMA ExactWhen ==
  ASSUME AttestInv, SummaryInv
  PROVE  SummariesExact
<1>1. ASSUME NEW id \in AgentIds, NEW tag \in Tags \cup {AnyTag}, NEW active,
             active = ActiveFeedback(id, tag),
             NEW summary, summary = GetSummary(id, clients[id], tag)
      PROVE  /\ summary.count = Cardinality(active)
             /\ summary.value = TotalValue(id, active)
             /\ Cardinality({feedback[id][f[1]][f[2]].valueDecimals : f \in active}) = 1
                => summary.decimals \in {feedback[id][f[1]][f[2]].valueDecimals : f \in active}
  <2> DEFINE value(f) == feedback[id][f[1]][f[2]].value
             w == [f \in active |-> value(f)]
             decimals == [f \in active |-> feedback[id][f[1]][f[2]].valueDecimals]
             all == {feedback[id][f[1]][f[2]].valueDecimals : f \in active}
             step(g, T) == IF T = {} THEN 0
                           ELSE value(CHOOSE x \in T : TRUE) + g[T \ {CHOOSE x \in T : TRUE}]
             total == CHOOSE g : g = [T \in SUBSET active |-> step(g, T)]
  <2>1. TotalValue(id, active) = total[active]
    BY DEF TotalValue, MapThenSumSet, MapThenFoldSet
  <2>2. IsFiniteSet(active)
    BY <1>1, ActiveShape DEF SummaryInv
  <2>3. w \in [active -> Int] /\ decimals \in [active -> Nat]
    <3>1. ASSUME NEW f \in active
          PROVE  value(f) \in Int /\ feedback[id][f[1]][f[2]].valueDecimals \in Nat
      <4>1. PICK c \in Givers, j \in 1 .. MaxCalls + 1 : f = <<c, j>>
        BY <1>1, ActiveShape DEF SummaryInv
      <4>2. j <= Len(feedback[id][c]) /\ feedback[id][c] \in Seq(FeedbackSet)
        BY <1>1, <4>1, ActiveShape DEF SummaryInv
      <4>3. feedback[id][c][j] \in FeedbackSet
        BY <4>2
      <4> QED
        BY <4>1, <4>3 DEF FeedbackSet
    <3> QED
      BY <3>1
  <2>4. PICK sum \in [SUBSET active -> Int] : SumsIn(sum, active, w)
    <3> HIDE DEF w
    <3> QED
      BY <2>2, <2>3, SumIs
  <2>5. sum = [T \in SUBSET active |-> step(sum, T)]
    BY <2>4 DEF SumsIn
  <2>6. total = [T \in SUBSET active |-> step(total, T)]
    BY <2>5
  <2> HIDE DEF total
  <2>7. total = [T \in SUBSET active |-> total[T]] /\ SumsIn(total, active, w)
    BY <2>6 DEF SumsIn
  <2>8. \A f \in active : /\ w[f] = feedback[id][f[1]][f[2]].value
                          /\ decimals[f] = feedback[id][f[1]][f[2]].valueDecimals
    OBVIOUS
  <2>9. \A f \in active : decimals[f] \in all
    OBVIOUS
  <2>10. all # {} => active # {}
    OBVIOUS
  <2> HIDE DEF w, decimals, all
  <2> SUFFICES ASSUME NEW t, t = total, NEW ww, ww = w, NEW dd, dd = decimals
               PROVE  /\ summary.count = Cardinality(active)
                      /\ summary.value = TotalValue(id, active)
                      /\ Cardinality(all) = 1 => summary.decimals \in all
    BY DEF all
  <2>11. t = total /\ ww = w /\ dd = decimals /\ ww \in [active -> Int] /\ dd \in [active -> Nat]
    BY <2>3
  <2>12. Adds(t, active, ww)
    BY <2>2, <2>7, <2>11, SumAdds
  <2>13. \A f \in active : /\ ww[f] = feedback[id][f[1]][f[2]].value
                           /\ dd[f] = feedback[id][f[1]][f[2]].valueDecimals
    BY <2>8, <2>11
  <2>14. Tallies(summary, active, t, dd)
    BY <1>1, <2>11, <2>12, <2>13, SummaryTally DEF SummaryInv
  <2>15. Cardinality(all) = 1 => all # {}
    <3>1. Cardinality({}) # 1
      BY FS_EmptySet
    <3> QED
      BY <3>1, Zenon
  <2> QED
    BY <2>1, <2>9, <2>10, <2>11, <2>14, <2>15 DEF Tallies
<1>2. ASSUME NEW id \in AgentIds, NEW v \in Accounts, NEW answered,
             answered = Answered(id, v), NEW summary, summary = ValidationSummary(id, <<v>>)
      PROVE  /\ summary.count = Cardinality(answered)
             /\ answered # {} =>
                   summary.avgResponse = TotalResponse(answered) \div Cardinality(answered)
  <2> DEFINE value(h) == validations[h].response
             w == [h \in answered |-> value(h)]
             step(g, T) == IF T = {} THEN 0
                           ELSE value(CHOOSE x \in T : TRUE) + g[T \ {CHOOSE x \in T : TRUE}]
             total == CHOOSE g : g = [T \in SUBSET answered |-> step(g, T)]
  <2>1. TotalResponse(answered) = total[answered]
    BY DEF TotalResponse, MapThenSumSet, MapThenFoldSet
  <2>2. IsFiniteSet(answered) /\ \A h \in answered : h \in Hashes
    BY <1>2, AnsweredShape DEF SummaryInv
  <2>3. w \in [answered -> Int]
    BY <2>2 DEF AttestInv, AttestTypeOK, RecordSet
  <2>4. PICK sum \in [SUBSET answered -> Int] : SumsIn(sum, answered, w)
    <3> HIDE DEF w
    <3> QED
      BY <2>2, <2>3, SumIs
  <2>5. sum = [T \in SUBSET answered |-> step(sum, T)]
    BY <2>4 DEF SumsIn
  <2>6. total = [T \in SUBSET answered |-> step(total, T)]
    BY <2>5
  <2> HIDE DEF total
  <2>7. total = [T \in SUBSET answered |-> total[T]] /\ SumsIn(total, answered, w)
    BY <2>6 DEF SumsIn
  <2>8. \A h \in answered : w[h] = validations[h].response
    OBVIOUS
  <2> HIDE DEF w
  <2> SUFFICES ASSUME NEW t, t = total, NEW ww, ww = w
               PROVE  /\ summary.count = Cardinality(answered)
                      /\ answered # {} =>
                            summary.avgResponse = TotalResponse(answered) \div Cardinality(answered)
    OBVIOUS
  <2>9. t = total /\ ww = w /\ ww \in [answered -> Int]
    BY <2>3
  <2>10. Adds(t, answered, ww)
    BY <2>2, <2>7, <2>9, SumAdds
  <2>11. PICK votes : /\ Votes(votes, answered, t)
                      /\ summary =
                        [count |-> votes.count,
                         avgResponse |-> IF votes.count > 0 THEN votes.total \div votes.count
                                         ELSE 0]
    BY <1>2, <2>8, <2>9, <2>10, AnswersTally DEF SummaryInv
  <2>12. votes.count = Cardinality(answered) /\ votes.total = t[answered] /\ votes.count \in Nat
    BY <2>11 DEF Votes, VotesSet
  <2>13. answered # {} => votes.count > 0
    BY <2>2, <2>12, FS_EmptySet
  <2> QED
    BY <2>1, <2>9, <2>11, <2>12, <2>13
<1>3. ASSUME NEW id \in AgentIds, NEW tag \in Tags \cup {AnyTag}
      PROVE  LET active == ActiveFeedback(id, tag)
                 summary == GetSummary(id, clients[id], tag)
                 decimals == {feedback[id][f[1]][f[2]].valueDecimals : f \in active}
             IN /\ summary.count = Cardinality(active)
                /\ summary.value = TotalValue(id, active)
                /\ Cardinality(decimals) = 1 => summary.decimals \in decimals
  BY <1>1, Zenon
<1>4. ASSUME NEW id \in AgentIds, NEW v \in Accounts
      PROVE  LET answered == Answered(id, v)
                 summary == ValidationSummary(id, <<v>>)
             IN /\ summary.count = Cardinality(answered)
                /\ answered # {} =>
                      summary.avgResponse = TotalResponse(answered) \div Cardinality(answered)
  <2>1. PICK answered, summary :
           answered = Answered(id, v) /\ summary = ValidationSummary(id, <<v>>)
    OBVIOUS
  <2>2. /\ summary.count = Cardinality(answered)
        /\ answered # {} =>
              summary.avgResponse = TotalResponse(answered) \div Cardinality(answered)
    BY <1>2, <2>1
  <2> QED
    BY <2>1, <2>2, Zenon
<1> QED
  BY <1>3, <1>4, Zenon DEF SummariesExact

-----------------------------------------------------------------------------
(* The lists of those who gave feedback and of what was requested.         *)

\* A client that gives feedback is listed, and no client twice.
LEMMA ListingGrows ==
  ASSUME NEW list, NEW exists, NEW given \in [Givers -> Seq(FeedbackSet)],
         Listing(list, exists, given), NEW c \in Givers, NEW entry,
         NEW list2, list2 = IF exists[c] THEN list ELSE Append(list, c),
         NEW exists2, exists2 = [exists EXCEPT ![c] = TRUE],
         NEW given2, given2 = [given EXCEPT ![c] = Append(@, entry)]
  PROVE  Listing(list2, exists2, given2)
<1>1. /\ list \in Seq(Givers) /\ exists \in [Givers -> BOOLEAN]
      /\ \A i, j \in 1 .. Len(list) : list[i] = list[j] => i = j
      /\ \A d \in Givers : exists[d] <=> \E i \in 1 .. Len(list) : list[i] = d
      /\ \A d \in Givers : given[d] # << >> => exists[d]
  BY DEF Listing
<1>2. /\ exists2 \in [Givers -> BOOLEAN] /\ exists2[c]
      /\ \A d \in Givers \ {c} : exists2[d] = exists[d]
  BY <1>1
<1>3. \A d \in Givers : given2[d] # << >> => exists2[d]
  BY <1>1, <1>2
<1>4. CASE exists[c]
  <2>1. list2 = list /\ exists2 = exists
    BY <1>1, <1>4
  <2> QED
    BY <1>1, <1>3, <2>1 DEF Listing
<1>5. CASE ~ exists[c]
  <2> DEFINE n == Len(list)
  <2>1. /\ n \in Nat /\ list2 \in Seq(Givers) /\ Len(list2) = n + 1 /\ list2[n + 1] = c
        /\ \A i \in 1 .. n : list2[i] = list[i]
    BY <1>1, <1>5
  <2>2. \A i \in 1 .. n : list[i] # c /\ list[i] \in Givers
    BY <1>1, <1>5
  <2> HIDE DEF n
  <2>3. \A k : k \in 1 .. n + 1 <=> k \in 1 .. n \/ k = n + 1
    BY <2>1, NextUp
  <2>4. ASSUME NEW i \in 1 .. Len(list2), NEW j \in 1 .. Len(list2), list2[i] = list2[j]
        PROVE  i = j
    <3>1. /\ i \in 1 .. n \/ i = n + 1
          /\ j \in 1 .. n \/ j = n + 1
      BY <2>1, <2>3
    <3>2. CASE i \in 1 .. n /\ j \in 1 .. n
      BY <1>1, <2>1, <2>4, <3>2 DEF n
    <3>3. CASE i = n + 1 \/ j = n + 1
      BY <2>1, <2>2, <2>4, <3>1, <3>3
    <3> QED
      BY <3>1, <3>2, <3>3
  <2>5. ASSUME NEW d \in Givers
        PROVE  exists2[d] <=> \E i \in 1 .. Len(list2) : list2[i] = d
    <3>1. CASE d = c
      BY <1>2, <2>1, <2>3, <3>1
    <3>2. CASE d # c
      BY <1>1, <1>2, <2>1, <2>2, <2>3, <3>2 DEF n
    <3> QED
      BY <3>1, <3>2
  <2> QED
    BY <1>2, <1>3, <2>1, <2>4, <2>5 DEF Listing
<1> QED
  BY <1>4, <1>5

\* _recordFeedback keeps the lists in order.
LEMMA RecordLists ==
  ASSUME AttestInv, ListsOK, NEW id \in AgentIds, NEW c \in Givers, NEW entry \in FeedbackSet,
         RecordFeedback(id, c, entry), calls' \in 0 .. MaxCalls, calls <= calls',
         c \in Accounts => calls' = calls + 1
  PROVE  ListsOK'
<1>1. /\ feedback \in [AgentIds -> [Givers -> Seq(FeedbackSet)]]
      /\ clients \in [AgentIds -> Seq(Givers)]
      /\ clientExists \in [AgentIds -> [Givers -> BOOLEAN]]
      /\ calls \in Nat /\ calls' \in Nat
      /\ \A i \in AgentIds : Listing(clients[i], clientExists[i], feedback[i])
      /\ \A i \in AgentIds : \A d \in Accounts : Len(feedback[i][d]) <= calls
  BY AttestationAssumption DEF AttestInv, AttestTypeOK, ListsOK
<1>2. PICK list, exists, given :
         /\ list = IF clientExists[id][c] THEN clients[id] ELSE Append(clients[id], c)
         /\ exists = [clientExists[id] EXCEPT ![c] = TRUE]
         /\ given = [feedback[id] EXCEPT ![c] = Append(@, entry)]
  OBVIOUS
<1>3. /\ clients' = [clients EXCEPT ![id] = list]
      /\ clientExists' = [clientExists EXCEPT ![id] = exists]
      /\ feedback' = [feedback EXCEPT ![id] = given]
  BY <1>1, <1>2 DEF RecordFeedback
<1>4. Listing(list, exists, given)
  <2>0. PICK g \in [Givers -> Seq(FeedbackSet)] : g = feedback[id]
    BY <1>1
  <2>1. PICK l, e : l = clients[id] /\ e = clientExists[id] /\ g = feedback[id]
    BY <2>0
  <2>2. Listing(l, e, g)
    BY <1>1, <2>1
  <2>3. /\ list = IF e[c] THEN l ELSE Append(l, c)
        /\ exists = [e EXCEPT ![c] = TRUE]
        /\ given = [g EXCEPT ![c] = Append(@, entry)]
    BY <1>2, <2>1
  <2> QED
    BY <2>2, <2>3, ListingGrows
<1>5. clients' \in [AgentIds -> Seq(Givers)] /\ clientExists' \in [AgentIds -> [Givers -> BOOLEAN]]
  BY <1>1, <1>3, <1>4 DEF Listing
<1>6. \A i \in AgentIds : Listing(clients'[i], clientExists'[i], feedback'[i])
  BY <1>1, <1>3, <1>4
<1>7. ASSUME NEW i \in AgentIds, NEW d \in Accounts
      PROVE  Len(feedback'[i][d]) <= calls'
  <2>1. d \in Givers /\ Len(feedback[i][d]) <= calls /\ Len(feedback[i][d]) \in Nat
    BY <1>1 DEF Givers
  <2>2. CASE i = id /\ d = c
    <3>1. feedback'[i][d] = Append(feedback[i][d], entry)
      BY <1>1, <1>2, <1>3, <2>1, <2>2
    <3>2. Len(Append(feedback[i][d], entry)) = Len(feedback[i][d]) + 1
      BY <1>1, <2>1
    <3>3. PICK size \in Nat : size = Len(feedback[i][d])
      BY <2>1
    <3>4. Len(feedback'[i][d]) = size + 1 /\ size <= calls /\ calls' = calls + 1
      BY <2>1, <2>2, <3>1, <3>2, <3>3
    <3> QED
      BY <1>1, <3>4
  <2>3. CASE ~ (i = id /\ d = c)
    <3>1. feedback'[i][d] = feedback[i][d]
      BY <1>1, <1>2, <1>3, <2>1, <2>3
    <3> QED
      BY <1>1, <2>1, <3>1
  <2> QED
    BY <2>2, <2>3
<1> QED
  BY <1>5, <1>6, <1>7 DEF ListsOK, Listing

\* What leaves the lists of clients and the number of feedback alone keeps them in order.
LEMMA ListsStay ==
  ASSUME ListsOK, UNCHANGED <<clients, clientExists>>, calls' \in 0 .. MaxCalls, calls <= calls',
         \A id \in AgentIds : \A c \in Givers :
            /\ Len(feedback'[id][c]) = Len(feedback[id][c])
            /\ feedback'[id][c] # << >> => feedback[id][c] # << >>
  PROVE  ListsOK'
<1>1. calls \in Int /\ calls' \in Int
  BY DEF ListsOK
<1>2. ASSUME NEW id \in AgentIds
      PROVE  Listing(clients[id], clientExists[id], feedback'[id])
  BY DEF ListsOK, Listing
<1>3. ASSUME NEW id \in AgentIds, NEW c \in Accounts
      PROVE  Len(feedback'[id][c]) <= calls'
  <2>1. Len(feedback[id][c]) <= calls /\ Len(feedback'[id][c]) = Len(feedback[id][c])
    BY DEF ListsOK, Givers
  <2>2. PICK size : size = Len(feedback[id][c])
    OBVIOUS
  <2> QED
    BY <1>1, <2>1, <2>2
<1> QED
  BY <1>2, <1>3 DEF ListsOK, Listing

\* A revocation or an answer changes no number of feedback.
LEMMA ChangeLists ==
  ASSUME AttestInv, ListsOK, NEW id \in AgentIds, NEW c \in Givers,
         NEW i \in 1 .. Len(feedback[id][c]), NEW entry,
         feedback' = [feedback EXCEPT ![id][c][i] = entry],
         UNCHANGED <<clients, clientExists>>, calls < MaxCalls, calls' = calls + 1
  PROVE  ListsOK'
<1>1. feedback \in [AgentIds -> [Givers -> Seq(FeedbackSet)]]
  BY DEF AttestInv, AttestTypeOK
<1>2. PICK own \in Seq(FeedbackSet) : own = feedback[id][c]
  BY <1>1
<1>3. PICK new : new = [own EXCEPT ![i] = entry]
  OBVIOUS
<1>4. i \in 1 .. Len(own) /\ own # << >>
  BY <1>2
<1>5. DOMAIN new = DOMAIN own /\ Len(new) = Len(own)
  BY <1>3
<1>6. ASSUME NEW j \in AgentIds, NEW d \in Givers
      PROVE  /\ Len(feedback'[j][d]) = Len(feedback[j][d])
             /\ feedback'[j][d] # << >> => feedback[j][d] # << >>
  <2>1. feedback'[j][d] = IF j = id /\ d = c THEN new ELSE feedback[j][d]
    BY <1>1, <1>2, <1>3
  <2> QED
    BY <1>2, <1>4, <1>5, <2>1
<1>7. calls' \in 0 .. MaxCalls /\ calls <= calls'
  BY AttestationAssumption DEF ListsOK
<1> QED
  BY <1>6, <1>7, ListsStay

\* What leaves the validators of the requests alone keeps them in order.
LEMMA RequestsStay ==
  ASSUME RequestsOK, UNCHANGED validatorRequests,
         \A h \in Hashes : \A v \in Accounts :
            validations'[h].validatorAddress = v <=> validations[h].validatorAddress = v
  PROVE  RequestsOK'
BY DEF RequestsOK, RequestsOf

\* A hash that nobody was asked about is listed for the one asked now.
LEMMA RequestLists ==
  ASSUME AttestInv, RequestsOK, NEW sender, NEW validator \in Validators, NEW id,
         NEW hash \in RequestHashes, ValidationRequest(sender, validator, id, hash)
  PROVE  RequestsOK'
<1>1. /\ validatorRequests \in [Validators -> Seq(Hashes)] /\ validations \in [Hashes -> RecordSet]
      /\ hash \in Hashes /\ NoOne \notin Accounts /\ Accounts \subseteq Validators
  BY Bounds DEF RequestsOK, AttestInv, AttestTypeOK, Hashes, Validators
<1>2. /\ validations[hash].validatorAddress = NoOne
      /\ validatorRequests' = [validatorRequests EXCEPT ![validator] = Append(@, hash)]
      /\ \A h \in Hashes : validations'[h].validatorAddress =
            IF h = hash THEN validator ELSE validations[h].validatorAddress
  BY <1>1 DEF ValidationRequest, Requested, NoStatus
<1>3. validatorRequests' \in [Validators -> Seq(Hashes)]
  BY <1>1, <1>2
<1>4. ASSUME NEW v \in Accounts
      PROVE  RequestsOf(validatorRequests[v], v)'
  <2>1. PICK list \in Seq(Hashes) : list = validatorRequests[v] /\ RequestsOf(list, v)
    BY <1>1 DEF RequestsOK
  <2>2. CASE v # validator
    <3>1. validatorRequests'[v] = list
      BY <1>1, <1>2, <2>1, <2>2
    <3>2. \A h \in Hashes :
             validations'[h].validatorAddress = v <=> validations[h].validatorAddress = v
      BY <1>1, <1>2, <2>2
    <3> QED
      BY <2>1, <3>1, <3>2 DEF RequestsOf
  <2>3. CASE v = validator
    <3> DEFINE n == Len(list)
               new == Append(list, hash)
    <3>1. validatorRequests'[v] = new
      BY <1>1, <1>2, <2>1, <2>3
    <3>2. /\ n \in Nat /\ Len(new) = n + 1 /\ new[n + 1] = hash
          /\ \A i \in 1 .. n : new[i] = list[i]
      OBVIOUS
    <3>3. /\ \A i, j \in 1 .. n : list[i] = list[j] => i = j
          /\ \A h \in Hashes : validations[h].validatorAddress = v <=>
                \E i \in 1 .. n : list[i] = h
      BY <2>1 DEF RequestsOf
    <3>4. \A i \in 1 .. n : list[i] # hash
      BY <1>1, <1>2, <3>3
    <3> HIDE DEF n, new
    <3>5. \A k : k \in 1 .. n + 1 <=> k \in 1 .. n \/ k = n + 1
      BY <3>2, NextUp
    <3>6. \A i, j \in 1 .. Len(new) : new[i] = new[j] => i = j
      BY <3>2, <3>3, <3>4, <3>5
    <3>7. ASSUME NEW h \in Hashes
          PROVE  validations'[h].validatorAddress = v <=> \E i \in 1 .. Len(new) : new[i] = h
      <4>1. CASE h = hash
        BY <1>2, <2>3, <3>2, <3>5, <4>1
      <4>2. CASE h # hash
        BY <1>2, <3>2, <3>3, <3>5, <4>2
      <4> QED
        BY <4>1, <4>2
    <3> QED
      BY <3>1, <3>6, <3>7 DEF RequestsOf
  <2> QED
    BY <2>2, <2>3
<1> QED
  BY <1>3, <1>4 DEF RequestsOK

\* A step that leaves the reputation registry alone.
LEMMA QuietLists ==
  ASSUME ListsOK, UNCHANGED <<feedback, clients, clientExists>>,
         calls' \in 0 .. MaxCalls, calls <= calls'
  PROVE  ListsOK'
BY ListsStay

\* Nothing happens to the lists.
LEMMA QuietSummaries ==
  ASSUME SummaryInv,
         UNCHANGED <<feedback, clients, clientExists, calls, validatorRequests, validations>>
  PROVE  SummaryInv'
<1>1. calls' \in 0 .. MaxCalls /\ calls <= calls'
  BY DEF SummaryInv, ListsOK
<1> QED
  BY <1>1, QuietLists, RequestsStay DEF SummaryInv

\* The reputation registry lists those who give feedback.
LEMMA ReputationKeepsLists ==
  ASSUME AttestInv, SummaryInv, ReputationStep
  PROVE  SummaryInv'
<1>1. Accounts \subseteq Givers /\ Registry \in Givers
  BY DEF Givers
<1>2. UNCHANGED <<validatorRequests, validations>>
  BY DEF ReputationStep, SetDocumentWeight, GiveFeedback, RevokeFeedback, AppendResponse,
         validationVars
<1>3. RequestsOK'
  BY <1>2, RequestsStay DEF SummaryInv
<1>4. calls < MaxCalls => calls + 1 \in 0 .. MaxCalls /\ calls <= calls + 1
  BY AttestationAssumption DEF SummaryInv, ListsOK
<1>5. ASSUME NEW d \in Documents, NEW w \in Weights, SetDocumentWeight(d, w)
      PROVE  ListsOK'
  <2>1. UNCHANGED <<feedback, clients, clientExists, calls>>
    BY <1>5 DEF SetDocumentWeight
  <2>2. calls' \in 0 .. MaxCalls /\ calls <= calls'
    BY <2>1 DEF SummaryInv, ListsOK
  <2> QED
    BY <2>1, <2>2, QuietLists DEF SummaryInv
<1>6. ASSUME NEW id \in AgentIds, NEW c \in Accounts, NEW v \in Values, NEW d \in Decimals,
             NEW tag \in {"proof-of-human", "other"}, GiveFeedback(c, id, v, d, tag)
      PROVE  ListsOK'
  <2>1. PICK e \in FeedbackSet : e = Entry(v, d, tag)
    BY Bounds DEF FeedbackSet, Entry, Tags
  <2>2. RecordFeedback(id, c, e) /\ calls' = calls + 1 /\ calls < MaxCalls
    BY <1>6, <2>1 DEF GiveFeedback
  <2>3. c \in Givers /\ calls' \in 0 .. MaxCalls /\ calls <= calls'
    BY <1>1, <1>4, <2>2
  <2> QED
    BY <2>2, <2>3, RecordLists DEF SummaryInv
<1>7. ASSUME NEW id \in AgentIds, NEW c \in Accounts, NEW i \in 1 .. MaxCalls,
             RevokeFeedback(c, id, i)
      PROVE  ListsOK'
  <2>1. PICK entry : feedback' = [feedback EXCEPT ![id][c][i] = entry]
    BY <1>7 DEF RevokeFeedback
  <2>2. /\ c \in Givers /\ i \in 1 .. Len(feedback[id][c]) /\ UNCHANGED <<clients, clientExists>>
        /\ calls < MaxCalls /\ calls' = calls + 1
    BY <1>1, <1>7 DEF RevokeFeedback
  <2> QED
    BY <2>1, <2>2, ChangeLists DEF SummaryInv
<1>8. ASSUME NEW id \in AgentIds, NEW sender \in Accounts, NEW c \in Givers,
             NEW i \in 1 .. MaxCalls, AppendResponse(sender, id, c, i)
      PROVE  ListsOK'
  <2>1. PICK entry : feedback' = [feedback EXCEPT ![id][c][i] = entry]
    BY <1>8 DEF AppendResponse
  <2>2. /\ i \in 1 .. Len(feedback[id][c]) /\ UNCHANGED <<clients, clientExists>>
        /\ calls < MaxCalls /\ calls' = calls + 1
    BY <1>8 DEF AppendResponse
  <2> QED
    BY <2>1, <2>2, ChangeLists DEF SummaryInv
<1> QED
  BY <1>3, <1>5, <1>6, <1>7, <1>8 DEF ReputationStep, Givers, SummaryInv

\* The validation registry lists what it is asked.
LEMMA ValidationKeepsLists ==
  ASSUME AttestInv, SummaryInv, ValidationStep
  PROVE  SummaryInv'
<1>1. UNCHANGED <<feedback, clients, clientExists>> /\ calls' = calls + 1 /\ calls < MaxCalls
  BY DEF ValidationStep, ValidationRequest, ValidationResponse, SubmitFreshnessValidation,
         reputationVars
<1>2. calls' \in 0 .. MaxCalls /\ calls <= calls'
  BY <1>1, AttestationAssumption DEF SummaryInv, ListsOK
<1>3. ListsOK'
  BY <1>1, <1>2, QuietLists DEF SummaryInv
<1>4. validations \in [Hashes -> RecordSet] /\ NoOne \notin Accounts /\ Self \notin Accounts
  BY Bounds DEF AttestInv, AttestTypeOK
<1>5. ASSUME NEW sender \in Accounts, NEW h \in Hashes, NEW r \in Responses,
             ValidationResponse(sender, h, r)
      PROVE  RequestsOK'
  <2>1. /\ UNCHANGED validatorRequests
        /\ \A g \in Hashes : validations'[g].validatorAddress = validations[g].validatorAddress
    BY <1>4, <1>5 DEF ValidationResponse, RecordSet
  <2> QED
    BY <2>1, RequestsStay DEF SummaryInv
<1>6. ASSUME NEW id \in AgentIds, SubmitFreshnessValidation(id)
      PROVE  RequestsOK'
  <2>1. PICK hash \in Hashes : hash = FreshnessHash(id, Today)
    BY DayShape DEF Hashes, FreshnessHashes, FreshnessHash
  <2>2. PICK old : old = IF validations[hash].validatorAddress = NoOne THEN Requested(Self, id)
                         ELSE validations[hash]
    OBVIOUS
  <2>3. old.validatorAddress = IF validations[hash].validatorAddress = NoOne THEN Self
                               ELSE validations[hash].validatorAddress
    BY <2>2 DEF Requested, NoStatus
  <2>4. old \in RecordSet
    <3>1. Requested(Self, id) \in RecordSet
      <4>1. id \in Nat
        BY Bounds DEF AgentIds
      <4> QED
        BY <4>1 DEF RecordSet, Requested, NoStatus, Validators
    <3> QED
      BY <1>4, <2>2, <3>1
  <2>5. UNCHANGED validatorRequests
    BY <1>6 DEF SubmitFreshnessValidation
  <2>6. validations' = [validations EXCEPT ![hash] =
           [old EXCEPT !.response = FreshResponse(id, hash), !.lastUpdate = now,
                       !.hasResponse = TRUE]]
    BY <1>6, <2>1, <2>2 DEF SubmitFreshnessValidation
  <2>7. \A h \in Hashes : validations'[h].validatorAddress =
           IF h = hash THEN old.validatorAddress ELSE validations[h].validatorAddress
    BY <1>4, <2>4, <2>6 DEF RecordSet
  <2>8. \A h \in Hashes : \A v \in Accounts :
           validations'[h].validatorAddress = v <=> validations[h].validatorAddress = v
    BY <1>4, <2>3, <2>7
  <2> QED
    BY <2>5, <2>8, RequestsStay DEF SummaryInv
<1> QED
  BY <1>3, <1>5, <1>6, RequestLists DEF ValidationStep, SummaryInv

\* An agent's registration lists the registry.
LEMMA RegistryKeepsLists ==
  ASSUME AttestInv, SummaryInv, RegistryStep
  PROVE  SummaryInv'
<1>1. UNCHANGED <<calls, validatorRequests, validations>>
  BY DEF RegistryStep, Register, RegisterBare, Revoke, Refresh, SetReputationRegistry,
         SetApprovalForAll, Tick, validationVars
<1>2. RequestsOK'
  BY <1>1, RequestsStay DEF SummaryInv
<1>3. calls' \in 0 .. MaxCalls /\ calls <= calls'
  BY <1>1 DEF SummaryInv, ListsOK
<1>4. ASSUME NEW human \in Humans, NEW key \in AgentKeySet,
             NEW document \in Documents \cup {NoDocument}, Register(human, key, document)
      PROVE  ListsOK'
  <2>1. CASE reputationRegistry /\ document # NoDocument
    <3>1. document \in Documents /\ documentWeight[document] \in Nat
      BY <2>1 DEF AttestInv, AttestTypeOK
    <3>2. PICK e \in FeedbackSet : e = Entry(documentWeight[document], 0, "proof-of-human")
      <4>1. PICK w \in Int : w = documentWeight[document]
        BY <3>1
      <4>2. Entry(w, 0, "proof-of-human") \in FeedbackSet
        BY DEF FeedbackSet, Entry, Tags
      <4> QED
        BY <4>1, <4>2
    <3>3. RecordFeedback(issued', Registry, e)
      BY <1>4, <2>1, <3>2 DEF Register, RecordHumanProofFeedback
    <3>4. PICK n \in AgentIds : n = issued'
      BY <1>4, Bounds DEF Register, Chain!Admit, AttestInv, AttestTypeOK, Chain!LedgerOK, AgentIds
    <3>5. RecordFeedback(n, Registry, e)
      BY <3>3, <3>4 DEF RecordFeedback
    <3>6. Registry \in Givers /\ Registry \notin Accounts
      BY Bounds DEF Givers
    <3> QED
      BY <1>3, <3>5, <3>6, RecordLists DEF SummaryInv
  <2>2. CASE ~ (reputationRegistry /\ document # NoDocument)
    <3>1. UNCHANGED <<feedback, clients, clientExists>>
      BY <1>4, <2>2 DEF Register, RecordHumanProofFeedback
    <3> QED
      BY <1>3, <3>1, QuietLists DEF SummaryInv
  <2> QED
    BY <2>1, <2>2
<1>5. CASE UNCHANGED <<feedback, clients, clientExists>>
  BY <1>2, <1>3, <1>5, QuietLists DEF SummaryInv
<1>6. \/ UNCHANGED <<feedback, clients, clientExists>>
      \/ \E h \in Humans, k \in AgentKeySet, d \in Documents \cup {NoDocument} : Register(h, k, d)
  BY DEF RegistryStep, RegisterBare, Revoke, Refresh, SetReputationRegistry,
         SetApprovalForAll, Tick, reputationVars
<1> QED
  BY <1>2, <1>4, <1>5, <1>6 DEF SummaryInv

\* At the start nothing is listed.
LEMMA InitLists == Init => SummaryInv
<1> SUFFICES ASSUME Init
             PROVE  SummaryInv
  OBVIOUS
<1>1. /\ calls \in 0 .. MaxCalls /\ calls = 0
      /\ clients \in [AgentIds -> Seq(Givers)]
      /\ clientExists \in [AgentIds -> [Givers -> BOOLEAN]]
      /\ validatorRequests \in [Validators -> Seq(Hashes)]
  BY AttestationAssumption DEF Init, Givers
<1>2. ASSUME NEW id \in AgentIds
      PROVE  /\ clients[id] = << >>
             /\ \A c \in Givers : feedback[id][c] = << >> /\ ~ clientExists[id][c]
  BY DEF Init, Givers
<1>3. Len(<< >>) = 0 /\ 1 .. 0 = {}
  OBVIOUS
<1>4. \A id \in AgentIds : Listing(clients[id], clientExists[id], feedback[id])
  BY <1>1, <1>2, <1>3 DEF Listing
<1>5. \A id \in AgentIds : \A c \in Accounts : Len(feedback[id][c]) <= calls
  BY <1>1, <1>2, <1>3 DEF Givers
<1>6. ASSUME NEW v \in Accounts
      PROVE  RequestsOf(validatorRequests[v], v)
  <2>1. validatorRequests[v] = << >> /\ \A h \in Hashes : validations[h].validatorAddress = NoOne
    BY DEF Init, Validators, NoStatus
  <2> QED
    BY <1>3, <2>1, Bounds DEF RequestsOf
<1> QED
  BY <1>1, <1>4, <1>5, <1>6 DEF SummaryInv, ListsOK, RequestsOK

\* Every step keeps the lists in order.
LEMMA NextKeepsLists == AttestInv /\ SummaryInv /\ [Next]_vars => SummaryInv'
<1> SUFFICES ASSUME AttestInv, SummaryInv, [Next]_vars
             PROVE  SummaryInv'
  OBVIOUS
<1>1. CASE UNCHANGED vars
  BY <1>1, QuietSummaries DEF vars, reputationVars, validationVars
<1>2. CASE CheckerStep
  BY <1>2, QuietSummaries DEF CheckerStep, SetFreshnessThreshold, reputationVars, validationVars
<1> QED
  BY <1>1, <1>2, ReputationKeepsLists, ValidationKeepsLists, RegistryKeepsLists DEF Next

-----------------------------------------------------------------------------
(* The theorems.                                                           *)

\* At the start there is no agent, no feedback and no record.
LEMMA InitOK == Init => AttestInv
<1> SUFFICES ASSUME Init
             PROVE  AttestInv
  OBVIOUS
<1>1. Chain!LedgerOK /\ ledger = {}
  BY Bounds, InitLedgerOK DEF Init, Chain!Init
<1>2. NoStatus \in RecordSet /\ ~ NoStatus.hasResponse
  BY DEF NoStatus, RecordSet, Validators
<1>3. now \in 1 .. MaxTime /\ expiresAt \in [AgentIds -> Nat]
  BY Bounds DEF Init
<1>4. documentWeight \in [Documents -> Nat]
  BY DEF Init
<1>5. /\ feedback \in [AgentIds -> [Givers -> Seq(FeedbackSet)]]
      /\ \A id \in AgentIds : feedback[id][Registry] = << >>
  BY DEF Init, Givers
<1>6. validations \in [Hashes -> RecordSet]
  BY <1>2 DEF Init
<1>7. /\ dueScore \in [AgentIds -> Nat \cup {NoScore}] /\ freshAt \in [AgentIds -> SUBSET Nat]
      /\ \A id \in AgentIds : dueScore[id] = NoScore
  BY DEF Init
<1>8. ScoresOK
  BY <1>5, <1>7 DEF ScoresOK, ProofEntryOK
<1>9. FreshOK
  BY <1>1 DEF FreshOK, IsProofFresh, HasHumanProof
<1>10. RecordsOK
  <2> SUFFICES ASSUME NEW id \in AgentIds, NEW day \in 0 .. MaxTime \div Day
               PROVE  TrueRecord(validations[FreshnessHash(id, day)], id, day)
    BY DEF RecordsOK
  <2>1. FreshnessHash(id, day) \in Hashes
    BY DEF Hashes, FreshnessHashes, FreshnessHash
  <2>2. validations[FreshnessHash(id, day)] = NoStatus
    BY <2>1 DEF Init
  <2> QED
    BY <1>2, <2>2 DEF TrueRecord
<1> QED
  BY <1>1, <1>3, <1>4, <1>5, <1>6, <1>7, <1>8, <1>9, <1>10 DEF AttestInv, AttestTypeOK

\* Every step keeps the invariant.
LEMMA NextKeepsInv == AttestInv /\ [Next]_vars => AttestInv'
<1> SUFFICES ASSUME AttestInv, [Next]_vars
             PROVE  AttestInv'
  OBVIOUS
<1>1. CASE UNCHANGED vars
  BY <1>1, QuietKeepsInv DEF vars, chainVars, reputationVars, validationVars
<1>2. CASE ValidationStep
  BY <1>2, RequestKeepsInv, ResponseKeepsInv, SubmissionKeepsInv DEF ValidationStep
<1>3. CASE CheckerStep
  BY <1>3, QuietKeepsInv
     DEF CheckerStep, SetFreshnessThreshold, chainVars, reputationVars, validationVars
<1> QED
  BY <1>1, <1>2, <1>3, RegistryKeepsInv, ReputationKeepsInv DEF Next

\* The invariant of what is said on chain: the types, the feedback that each registration
\* had to leave, the history of the agents' freshness, and the records of it.
THEOREM AttestationsCorrect == Spec => []AttestInv
BY InitOK, NextKeepsInv, PTL DEF Spec

\* A registration with a document, while the reputation registry was linked, left one
\* feedback of the registry with the document's weight, and no other agent has any.
THEOREM HumanProofCorrect == Spec => []HumanProofRecorded
<1>1. AttestInv => HumanProofRecorded
  BY DEF AttestInv, ScoresOK, ProofEntryOK, HumanProofRecorded
<1> QED
  BY <1>1, AttestationsCorrect, PTL

\* An agent that getLatestFreshness calls fresh, by a record that submissions alone
\* answered, was fresh when the answer says, today or yesterday.
THEOREM FreshnessCorrect == Spec => []LatestFreshnessWasTrue
<1>1. ASSUME AttestInv
      PROVE  LatestFreshnessWasTrue
  <2> SUFFICES ASSUME NEW id \in AgentIds, NEW latest, latest = GetLatestFreshness(id),
                      latest.fresh,
                      validations[LatestFreshnessHash(id)].validatorAddress = Self
               PROVE  /\ latest.lastUpdated \in freshAt[id]
                      /\ latest.lastUpdated \div Day \in {Today - 1, Today}
    BY DEF LatestFreshnessWasTrue
  <2>1. Today \in Nat /\ Today \in 0 .. MaxTime \div Day /\ MaxTime \div Day \in Nat
    BY <1>1, DayShape
  <2>2. PICK day \in 0 .. MaxTime \div Day :
           LatestFreshnessHash(id) = FreshnessHash(id, day) /\ day \in {Today - 1, Today}
    BY <2>1 DEF LatestFreshnessHash
  <2>3. PICK record : record = validations[FreshnessHash(id, day)] /\ TrueRecord(record, id, day)
    BY <1>1 DEF AttestInv, RecordsOK
  <2>4. /\ record.hasResponse /\ record.response = 100 /\ latest.lastUpdated = record.lastUpdate
    BY <2>2, <2>3 DEF GetLatestFreshness
  <2> QED
    BY <2>2, <2>3, <2>4 DEF TrueRecord
<1> QED
  BY <1>1, AttestationsCorrect, PTL

\* Everyone who gives feedback is listed once, and every request with its validator.
THEOREM ListsCorrect == Spec => []SummaryInv
BY InitOK, NextKeepsInv, InitLists, NextKeepsLists, PTL DEF Spec

\* The summaries that the contracts give count every feedback and every answer once.
THEOREM SummariesCorrect == Spec => []SummariesExact
BY AttestationsCorrect, ListsCorrect, ExactWhen, PTL
=============================================================================
