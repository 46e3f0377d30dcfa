------------------------------ MODULE AgentLedger ------------------------------
(***************************************************************************)
(* What the registry promises, without its mappings: a ledger of live      *)
(* agents, each the property of one human under one key.  An agent number  *)
(* is given out once, a key names at most one live agent, a human at the   *)
(* limit gets no further agent, and an agent leaves the ledger alone.      *)
(***************************************************************************)
EXTENDS Integers, FiniteSets

CONSTANTS Humans, AgentKeySet, MaxIssued, LimitValues

VARIABLES
    ledger,   \* the live agents: records of number, human and key
    issued,   \* numbers given out so far
    limit     \* most agents a human may hold when taking another; 0: any

Entries == [number : 1 .. MaxIssued, human : Humans, key : AgentKeySet]

HeldBy(h) == {a \in ledger : a.human = h}

Init ==
    /\ ledger = {}
    /\ issued = 0
    /\ limit = 1

Admit(h, k) ==
    /\ issued < MaxIssued
    /\ \A a \in ledger : a.key # k
    /\ limit > 0 => Cardinality(HeldBy(h)) < limit
    /\ ledger' = ledger \cup {[number |-> issued + 1, human |-> h, key |-> k]}
    /\ issued' = issued + 1
    /\ UNCHANGED limit

\* A number given to a token without a human behind it.
Skip ==
    /\ issued < MaxIssued
    /\ issued' = issued + 1
    /\ UNCHANGED <<ledger, limit>>

Remove(a) ==
    /\ ledger' = ledger \ {a}
    /\ UNCHANGED <<issued, limit>>

SetLimit(l) ==
    /\ limit' = l
    /\ UNCHANGED <<ledger, issued>>

Next ==
    \/ \E h \in Humans, k \in AgentKeySet : Admit(h, k)
    \/ Skip
    \/ \E a \in ledger : Remove(a)
    \/ \E l \in LimitValues : SetLimit(l)

Spec == Init /\ [][Next]_<<ledger, issued, limit>>

-----------------------------------------------------------------------------
(* What every module over a ledger needs to know of it, whatever else its  *)
(* steps do.  The limit plays no part in it.                               *)

\* Numbers and keys name one live agent each, and no number is ahead of the count.
LedgerOK ==
    /\ ledger \subseteq Entries
    /\ issued \in 0 .. MaxIssued
    /\ \A a \in ledger : a.number <= issued
    /\ \A a, b \in ledger : a.number = b.number \/ a.key = b.key => a = b
=============================================================================
