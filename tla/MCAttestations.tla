----------------------------- MODULE MCAttestations -----------------------------
(***************************************************************************)
(* Attestations for TLC: the hash that callers ask for is that of the      *)
(* first agent's freshness record of the second day.                       *)
(***************************************************************************)
EXTENDS Attestations

MCRequestHashes == {FreshnessHash(1, 1)}
=============================================================================
