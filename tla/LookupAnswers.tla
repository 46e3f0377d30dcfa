------------------------------ MODULE LookupAnswers ------------------------------
(***************************************************************************)
(* What a lookup says of an agent, and when that is true.  The lookup and  *)
(* the history of what was so meanwhile are all that this is about: how    *)
(* the answers came about, over which registry, is AgentLookups.           *)
(***************************************************************************)
EXTENDS Integers

CONSTANT
    Nobody            \* the human of a number without an agent: nullifier 0

VARIABLES
    \* the lookup: what it asks, which await it is at, the reads answered there, and
    \* all answers
    lookup,
    \* history: what was so at some time since the lookup began
    noted

\* Lookups that are given a key; the others are given a number.
ByKey == {"verifyAgent", "getInfo", "handleVerifyAgent", "agents"}

\* The number that the reads are about: the one given, or the one read from the key.
Number(l) == IF l.kind \in ByKey THEN l.answers.agentId ELSE l.number

-----------------------------------------------------------------------------
(* Properties.                                                             *)

Said(what) == lookup.pc = "answered" /\ lookup.said \in what

Answers == lookup.answers

\* An agent that is called verified with an expiry ahead, or whose proof is called
\* fresh, was registered under the key asked about and had a proof that had not
\* expired, both at some time while the lookup ran, though its number, its proof and
\* the expiry are read one after the other.  Without an expiry ahead it need not be:
\* verifyAgent takes the 0 of an agent that is gone for a proof without end.
VerifiedWasTrue ==
    (\/ /\ Said({"verified"})
        /\ lookup.kind \in {"verifyAgent", "handleVerifyAgent"}
        /\ Answers.expiresAt > 0
     \/ Said({"verified", "no proof"}) /\ Answers.fresh) =>
        /\ Answers.agentId \in noted.fresh
        /\ \E a \in noted.live : a.number = Answers.agentId /\ a.key = lookup.subject

\* A proof that getInfo calls fresh is one that it calls a proof: an agent that lost
\* its proof before it was asked for does not have one again afterwards.
FreshIsVerified == Said({"verified", "no proof"}) /\ Answers.fresh => Answers.hasProof

\* An agent that a lookup denies was not there at some time while it ran: no agent
\* had the key, or the number had no proof.  When info does not find the key it does
\* not matter what the other reads said.  A node's error that a route calls not found is
\* no such answer.
DenialWasTrue ==
    /\ Said({"not registered"}) => lookup.subject \in noted.without
    /\ Said({"no proof", "not found"}) => Number(lookup) \in noted.gone

\* The number of agents that is said of a human was right at some time while the
\* lookup ran, and the agent looked up was that human's.
CountWasTrue ==
    (lookup.pc = "answered" /\ "count" \in lookup.known /\ Answers.nullifier # Nobody) =>
        /\ <<Answers.nullifier, Answers.count>> \in noted.held
        /\ \E a \in noted.live : a.number = Number(lookup) /\ a.human = Answers.nullifier

\* Whatever a lookup says was so while it ran, though every part of the answer is read
\* at an instant of its own and the agent may be refreshed, revoked or replaced.
LookupWasTrue == VerifiedWasTrue /\ FreshIsVerified /\ DenialWasTrue /\ CountWasTrue
=============================================================================
