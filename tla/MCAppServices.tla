----------------------------- MODULE MCAppServices -----------------------------
(***************************************************************************)
(* Scenes for AppServices: the routes that are called, by whom, and what   *)
(* may fail.                                                               *)
(***************************************************************************)
EXTENDS AppServices, TLC

CONSTANTS p1, p2, c1, c2, k1, k2, b1

Signed(id, route, signer, nonce, ts) ==
    [id |-> id, route |-> route, key |-> signer, signer |-> signer, nonce |-> nonce,
     deadline |-> 3, ts |-> ts]

\* One meta-transaction signed again for a retry, and the next one.
Relayed == {Signed(1, "chain-verify", k1, 0, 1), Signed(2, "chain-verify", k1, 0, 2),
            Signed(3, "chain-verify", k1, 1, 1)}

Demonstrated == {Signed(4, route, k1, 0, 1) : route \in {"verify", "census", "chat"}}

Asked == {Signed(5, "agent-to-agent", k1, 0, 2)}

\* An Ed25519 agent names its key, or the digest of it, as agentKey.
Ed25519Requests ==
    {[Signed(6, "chain-verify-ed25519", k1, 0, 1) EXCEPT !.key = k] :
        k \in {k1, <<"keccak256", k1>>}}

AllRequests == Relayed \cup Ed25519Requests \cup Demonstrated \cup Asked

AllCounters == ProxyRoutes \X {b1}

\* Sound, as the sets of a scene are permuted with the rest.
Symmetry == Permutations(Processes) \cup Permutations(Calls)

\* Two calls in one process, one agent, nothing fails.
Plain ==
    [routes |-> {}, requests |-> {}, processes |-> {p1}, calls |-> {c1, c2}, keys |-> {k1},
     restarts |-> FALSE, faults |-> FALSE, registrations |-> 1, allowances |-> 0, end |-> 2]

\* Two processes relay one meta-transaction for two requests.
Relaying ==
    [Plain EXCEPT !.routes = Relays, !.requests = {r \in Relayed : r.nonce = 0},
                  !.processes = {p1, p2}]

\* One meta-transaction after the other, while commands and answers are lost.
Retrying ==
    [Plain EXCEPT !.routes = Relays, !.requests = {r \in Relayed : r.ts = 1}, !.calls = {c1},
                  !.faults = TRUE, !.end = 3]

\* A request reaches two processes, which end and lose commands.
Repeating ==
    [Plain EXCEPT !.routes = {"verify"}, !.requests = Demonstrated, !.processes = {p1, p2},
                  !.keys = {}, !.restarts = TRUE, !.faults = TRUE, !.end = 4]

Demonstrating == [Repeating EXCEPT !.routes = {"census", "chat"}, !.calls = {c1}, !.end = 3]

\* The demo agent and its caller come and go, with one human or without.
Asking ==
    [Plain EXCEPT !.routes = {"agent-to-agent"}, !.requests = Asked, !.calls = {c1},
                  !.keys = {k1, k2}, !.registrations = 2]

\* Requests for tokens, one after the other, over two windows.
Issuing ==
    [Plain EXCEPT !.routes = {"token"}, !.calls = {c1}, !.keys = {}, !.restarts = TRUE,
                  !.faults = TRUE, !.allowances = 4, !.end = 4]

\* Two at a time.
Crowding == [Issuing EXCEPT !.calls = {c1, c2}, !.allowances = 2]

Proxying == [Issuing EXCEPT !.routes = {"token", "bundler"}, !.allowances = 2, !.end = 3]

\* Meta-transactions of an Ed25519 agent, beside the others.
RelayingEd25519 == [Plain EXCEPT !.routes = Relays, !.requests = Ed25519Requests]

AllScenes == {Relaying, Retrying, Repeating, Demonstrating, Asking, Issuing, Crowding,
              Proxying, RelayingEd25519}
=============================================================================
