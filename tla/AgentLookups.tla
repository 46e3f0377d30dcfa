------------------------------ MODULE AgentLookups ------------------------------
(***************************************************************************)
(* Answers about an agent that are put together from several reads of the  *)
(* registry: verifyAgent and SelfAgent.getInfo of the SDK, the MCP tool    *)
(* that verifies an agent, and the routes info, verify and agents of the   *)
(* app's API.  Reads that go out together are answered by a node in any    *)
(* order, each at an instant of its own, and the registry moves between    *)
(* them.  Lookups share nothing, so one of any kind is enough.             *)
(*                                                                         *)
(* The registry is the AgentLedger that SelfAgentRegistry implements, with *)
(* the expiry and the provider of each proof.  Credentials and what is     *)
(* required of them, blocks of registration, the strength that a provider  *)
(* claims for itself and the numbers of the agents counted are left out.   *)
(***************************************************************************)
EXTENDS Integers, Sequences, FiniteSets, LookupAnswers

CONSTANTS
    Humans,           \* Nobody is none of them
    AgentKeySet, NoKey,
    Providers, NoProvider,
    MaxIssued,        \* bound on the number of registrations
    LimitValues,
    ProofAges,        \* how long a proof may last
    Kinds,            \* the kinds of lookup
    MaxTime           \* bound on the clock

AgentIds == 1 .. MaxIssued

LookupConstants ==
    /\ MaxIssued \in Nat /\ MaxTime \in Nat
    /\ LimitValues \subseteq Nat
    /\ ProofAges \subseteq Nat \ {0}
    /\ Nobody \notin Humans
    /\ NoKey \notin AgentKeySet
    /\ NoProvider \notin Providers
    /\ Kinds \subseteq {"verifyAgent", "getInfo", "handleVerifyAgent",
                        "info", "verify", "agents"}

ASSUME LookupAssumption == LookupConstants

VARIABLES
    \* the registry
    ledger, issued, limit, expiresAt, providerOf, selfProofProvider, now

Registry == INSTANCE AgentLedger

chainVars == <<ledger, issued, limit, expiresAt, providerOf, selfProofProvider, now>>
vars == <<chainVars, lookup, noted>>

-----------------------------------------------------------------------------
(* The views of the registry.  The slots of a number without an agent, and *)
(* those of the number 0, are empty.                                       *)

IdOf(key) ==
    IF \E a \in ledger : a.key = key
    THEN (CHOOSE a \in ledger : a.key = key).number
    ELSE 0

HasHumanProof(id) == \E a \in ledger : a.number = id

KeyOf(id) ==
    IF HasHumanProof(id) THEN (CHOOSE a \in ledger : a.number = id).key ELSE NoKey

HumanOf(id) ==
    IF HasHumanProof(id) THEN (CHOOSE a \in ledger : a.number = id).human ELSE Nobody

IsProofFresh(id) == HasHumanProof(id) /\ now < expiresAt[id]

\* What a node answers about a key, and about the number and the human read before.
View(key, id, human) ==
    [agentId |-> IdOf(key), verified |-> IdOf(key) # 0, key |-> KeyOf(id),
     hasProof |-> HasHumanProof(id), fresh |-> IsProofFresh(id), expiresAt |-> expiresAt[id],
     nullifier |-> HumanOf(id), count |-> Cardinality(Registry!HeldBy(human)),
     provider |-> providerOf[id], selfProvider |-> selfProofProvider]

Unanswered ==
    [agentId |-> 0, verified |-> FALSE, key |-> NoKey, hasProof |-> FALSE, fresh |-> FALSE,
     expiresAt |-> 0, nullifier |-> Nobody, count |-> 0, provider |-> NoProvider,
     selfProvider |-> NoProvider]

\* What is so now.
Facts ==
    [live |-> ledger,
     fresh |-> {id \in AgentIds : IsProofFresh(id)},
     without |-> {k \in AgentKeySet : IdOf(k) = 0},
     gone |-> {id \in AgentIds : ~ HasHumanProof(id)},
     held |-> {<<h, Cardinality(Registry!HeldBy(h))>> : h \in Humans}]

Nothing == [live |-> {}, fresh |-> {}, without |-> {}, gone |-> {}, held |-> {}]

NoLookup ==
    [pc |-> "idle", kind |-> "none", subject |-> NoKey, number |-> 0, strict |-> FALSE,
     at |-> 1, known |-> {}, answers |-> Unanswered, said |-> "none"]

Init ==
    /\ Registry!Init
    /\ expiresAt = [id \in 0 .. MaxIssued |-> 0]
    /\ providerOf = [id \in 0 .. MaxIssued |-> NoProvider]
    /\ selfProofProvider \in Providers
    /\ now = 1
    /\ lookup = NoLookup
    /\ noted = Nothing

-----------------------------------------------------------------------------
(* The reads of each lookup, await by await.                               *)

\* Slip: everything about the number goes out together.
InfoReadsTogether ==
    << {"agentId"}, {"hasProof", "nullifier", "count", "expiresAt", "fresh"} >>

InfoReads ==
    << {"agentId"}, {"hasProof", "nullifier"}, {"count", "expiresAt", "fresh"} >>

Reads ==
    [verifyAgent |-> << {"agentId"}, {"hasProof"}, {"expiresAt"} >>,
     getInfo |-> InfoReads,
     handleVerifyAgent |->
        << {"verified"}, {"agentId"}, {"nullifier"}, {"count"}, {"provider"},
           {"selfProvider"}, {"expiresAt"} >>,
     info |-> << {"key", "hasProof", "provider"} >>,
     verify |-> << {"hasProof", "provider", "nullifier", "selfProvider"}, {"count"} >>,
     agents |-> << {"agentId"}, {"hasProof", "nullifier"}, {"count"} >>]

\* The routes do not ask for the count of nobody.
Asked ==
    IF lookup.kind \in {"verify", "agents"} /\ lookup.answers.nullifier = Nobody
    THEN Reads[lookup.kind][lookup.at] \ {"count"}
    ELSE Reads[lookup.kind][lookup.at]

\* What ends a lookup early, and what it then says.  In verify, the contract at the
\* address of no provider does not answer.
Denial(l) ==
    CASE l.kind \in {"verifyAgent", "getInfo", "agents"} /\ l.at = 1 /\ l.answers.agentId = 0 ->
            "not registered"
      [] l.kind = "verifyAgent" /\ l.at = 2 /\ ~ l.answers.hasProof -> "no proof"
      [] l.kind = "handleVerifyAgent" /\ l.at = 1 /\ ~ l.answers.verified -> "not registered"
      [] l.kind = "verify" /\ ~ l.answers.hasProof -> "no proof"
      [] l.kind = "verify" /\ l.answers.provider = NoProvider -> "not found"
      [] l.kind = "info" /\ l.answers.key = NoKey -> "not found"
      [] OTHER -> "none"

\* 0 is taken for a proof without end.
Expired(l) ==
    /\ l.kind \in {"verifyAgent", "handleVerifyAgent"}
    /\ l.answers.expiresAt \in 1 .. now

\* What a lookup says that has read everything.
Verdict(l) ==
    IF Expired(l) THEN "expired"
    ELSE IF l.strict /\ l.answers.provider # l.answers.selfProvider THEN "third party"
    ELSE IF l.answers.hasProof \/ l.kind = "handleVerifyAgent" THEN "verified"
    ELSE "no proof"

Watch(facts) == [f \in DOMAIN noted |-> noted[f] \cup facts[f]]

\* A lookup begins.  The MCP tool is told whether to require the registry's own provider.
Start(kind, key, id, strict) ==
    /\ lookup.pc = "idle"
    /\ kind \in Kinds
    /\ IF kind \in ByKey THEN key # NoKey /\ id = 0 ELSE key = NoKey /\ id # 0
    /\ strict => kind = "handleVerifyAgent"
    /\ lookup' = [NoLookup EXCEPT !.pc = "reading", !.kind = kind, !.subject = key,
                                  !.number = id, !.strict = strict]
    /\ noted' = Facts
    /\ UNCHANGED chainVars

\* A node answers one of the reads that are out.
Answered(question) ==
    /\ lookup.pc = "reading"
    /\ question \in Asked \ lookup.known
    /\ lookup' = [lookup EXCEPT
          !.known = @ \cup {question},
          !.answers[question] =
              View(lookup.subject, Number(lookup), lookup.answers.nullifier)[question]]
    /\ UNCHANGED <<chainVars, noted>>

\* The reads of an await are all answered: the lookup ends, or goes on to the next.
Proceed ==
    /\ lookup.pc = "reading"
    /\ Asked \subseteq lookup.known
    /\ \/ /\ Denial(lookup) # "none"
          /\ lookup' = [lookup EXCEPT !.pc = "answered", !.said = Denial(lookup)]
       \/ /\ Denial(lookup) = "none"
          /\ lookup.at = Len(Reads[lookup.kind])
          /\ lookup' = [lookup EXCEPT !.pc = "answered", !.said = Verdict(lookup)]
       \/ /\ Denial(lookup) = "none"
          /\ lookup.at < Len(Reads[lookup.kind])
          /\ lookup' = [lookup EXCEPT !.at = @ + 1]
    /\ UNCHANGED <<chainVars, noted>>

\* A read fails, and the lookup with it; only the MCP tool goes on without an expiry.
\* A route calls the agent not found when the client library has no better name for
\* the error that the node gave.
ReadFails ==
    /\ lookup.pc = "reading"
    /\ ~ Asked \subseteq lookup.known
    /\ \/ /\ lookup.kind # "handleVerifyAgent" \/ lookup.at # 7
          /\ lookup' = [lookup EXCEPT !.pc = "failed"]
       \/ /\ lookup.kind \in {"info", "verify", "agents"}
          /\ lookup' = [lookup EXCEPT !.pc = "failed", !.said = "not found"]
       \/ /\ lookup.kind = "handleVerifyAgent" /\ lookup.at = 7
          /\ lookup' = [lookup EXCEPT !.known = @ \cup {"expiresAt"}]
    /\ UNCHANGED <<chainVars, noted>>

-----------------------------------------------------------------------------
(* The registry.                                                           *)

Register(human, key, provider, age) ==
    /\ Registry!Admit(human, key)
    /\ expiresAt' = [expiresAt EXCEPT ![issued'] = now + age]
    /\ providerOf' = [providerOf EXCEPT ![issued'] = provider]
    /\ UNCHANGED <<selfProofProvider, now>>

Revoke(a) ==
    /\ Registry!Remove(a)
    /\ expiresAt' = [expiresAt EXCEPT ![a.number] = 0]
    /\ providerOf' = [providerOf EXCEPT ![a.number] = NoProvider]
    /\ UNCHANGED <<selfProofProvider, now>>

Refresh(a, age) ==
    /\ expiresAt' = [expiresAt EXCEPT ![a.number] = now + age]
    /\ UNCHANGED <<ledger, issued, limit, providerOf, selfProofProvider, now>>

SetLimit(l) ==
    /\ Registry!SetLimit(l)
    /\ UNCHANGED <<expiresAt, providerOf, selfProofProvider, now>>

SetSelfProofProvider(provider) ==
    /\ selfProofProvider' = provider
    /\ UNCHANGED <<ledger, issued, limit, expiresAt, providerOf, now>>

Tick ==
    /\ now < MaxTime
    /\ now' = now + 1
    /\ UNCHANGED <<ledger, issued, limit, expiresAt, providerOf, selfProofProvider>>

ChainStep ==
    \/ \E h \in Humans, k \in AgentKeySet, p \in Providers, age \in ProofAges :
          Register(h, k, p, age)
    \/ \E a \in ledger : Revoke(a) \/ \E age \in ProofAges : Refresh(a, age)
    \/ \E l \in LimitValues : SetLimit(l)
    \/ \E p \in Providers : SetSelfProofProvider(p)
    \/ Tick

LookupStep ==
    \/ \E kind \in Kinds, key \in AgentKeySet \cup {NoKey}, id \in 0 .. MaxIssued,
          strict \in BOOLEAN : Start(kind, key, id, strict)
    \/ \E question \in DOMAIN Unanswered : Answered(question)
    \/ Proceed
    \/ ReadFails

\* What the registry is meanwhile is remembered while the lookup is under way; what
\* happens there later is nothing to it.
Next ==
    \/ LookupStep
    \/ /\ ChainStep
       /\ lookup.pc \in {"idle", "reading"}
       /\ noted' = IF lookup.pc = "reading" THEN Watch(Facts') ELSE noted
       /\ UNCHANGED lookup

Spec == Init /\ [][Next]_vars
=============================================================================
