-------------------------- MODULE MCSelfAgentRegistry --------------------------
(***************************************************************************)
(* Values for the constants of SelfAgentRegistry that a configuration      *)
(* cannot write down.                                                      *)
(***************************************************************************)
EXTENDS SelfAgentRegistry, TLC

CONSTANTS a1, a2, e1, e2, x1, x2

\* The addresses derived from the Ed25519 keys.
MCDerivedAddress == e1 :> x1 @@ e2 :> x2

Symmetry == Permutations(Nullifiers)

\* Two Ed25519 keys, each with its derived address, and two accounts.
ConsentSymmetry ==
    Permutations({a1, a2}) \cup
    {e1 :> e2 @@ e2 :> e1 @@ x1 :> x2 @@ x2 :> x1}
=============================================================================
