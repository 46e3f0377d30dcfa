------------------------------ MODULE MCAgentSession ------------------------------
(***************************************************************************)
(* AgentSession for TLC: two humans, one generated or existing wallet key, *)
(* one Ed25519 key.  No symmetry: a run checks liveness.                   *)
(***************************************************************************)
EXTENDS AgentSession

CONSTANTS h1, h2, w, e

MCHumans == {h1, h2}
MCWalletKeys == {w}
MCEd25519Keys == {e}
=============================================================================
