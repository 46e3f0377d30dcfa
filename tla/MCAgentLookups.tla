----------------------------- MODULE MCAgentLookups -----------------------------
(***************************************************************************)
(* AgentLookups for TLC: two humans who may swap their keys.               *)
(***************************************************************************)
EXTENDS AgentLookups, TLC

CONSTANTS k1, k2, h1, h2, p1, p2

\* Sound: no other constant names a member of these sets.
Symmetry == Permutations(AgentKeySet) \cup Permutations(Humans) \cup Permutations(Providers)
=============================================================================
