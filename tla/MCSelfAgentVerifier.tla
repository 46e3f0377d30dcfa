-------------------------- MODULE MCSelfAgentVerifier --------------------------
(***************************************************************************)
(* Requests and services for SelfAgentVerifier.                            *)
(***************************************************************************)
EXTENDS SelfAgentVerifier, TLC

CONSTANTS k1, k2, h1, h2, p1, p2, c1, c2

\* Sound, as the set of calls of a service is permuted with the rest.
Symmetry == Permutations(Calls)

Request(id, key, ts, scheme) == [id |-> id, key |-> key, ts |-> ts, scheme |-> scheme]

First == Request(1, k1, 2, "ecdsa")

\* Two with one timestamp, one later, one of the other scheme.
MixedRequests == {Request(1, k1, 1, "ecdsa"), Request(2, k1, 2, "ecdsa"),
                  Request(3, k1, 2, "ed25519")}

AllRequests == {First} \cup MixedRequests

\* One call at a time of a verifier without any option.
Plain ==
    [calls |-> {c1}, requests |-> {First}, keys |-> {k1}, humans |-> {h1},
     providers |-> {p1}, registrations |-> 1, end |-> 4, limits |-> {},
     maxAge |-> 9, cacheTtl |-> 1, maxAgentsPerHuman |-> 0,
     requireSelfProvider |-> FALSE, checkCredentials |-> FALSE, qualified |-> {h1},
     replayProtection |-> FALSE, replayCacheMax |-> 2,
     perMinute |-> 0, perHour |-> 0, minute |-> 1, hour |-> 2]

\* It accepts one agent per human, who may have two.
OneAgentPerHuman ==
    [Plain EXCEPT !.keys = {k1, k2}, !.registrations = 2, !.end = 3,
                  !.limits = {2}, !.maxAgentsPerHuman = 1]

\* Two humans register the same key one after the other.
KeyChangesHands ==
    [Plain EXCEPT !.humans = {h1, h2}, !.registrations = 2, !.end = 3,
                  !.maxAgentsPerHuman = 1]

\* Two calls share the cache and a rate limiter.
Limited ==
    [Plain EXCEPT !.calls = {c1, c2}, !.end = 3, !.cacheTtl = 2,
                  !.perMinute = 2, !.perHour = 3]

\* It wants the registry's own provider and credentials.
Strict ==
    [Plain EXCEPT !.providers = {p1, p2}, !.requireSelfProvider = TRUE,
                  !.checkCredentials = TRUE]

\* Two calls share a replay cache of one entry; nobody is registered.
Guarded ==
    [Plain EXCEPT !.calls = {c1, c2}, !.requests = MixedRequests, !.registrations = 0,
                  !.maxAge = 1, !.replayProtection = TRUE, !.replayCacheMax = 1]

AllServices == {OneAgentPerHuman, KeyChangesHands, Limited, Guarded, Strict}
=============================================================================
