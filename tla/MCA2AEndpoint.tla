----------------------------- MODULE MCA2AEndpoint -----------------------------
(***************************************************************************)
(* Scenes for A2AEndpoint: what callers say, which processes serve them,   *)
(* and what may fail.                                                      *)
(***************************************************************************)
EXTENDS A2AEndpoint, TLC

CONSTANTS p1, p2, c1, c2, w1, w2, e1, h1, h2

Say(intent) ==
    [method |-> "message/send", intent |-> intent, words |-> {}, near |-> "", id |-> 0,
     caller |-> 0, mode |-> "", human |-> NoHuman, key |-> NoKey, push |-> FALSE]

About(id, intent) == [Say(intent) EXCEPT !.id = id]

Text(words, near, id) == [Say("") EXCEPT !.words = words, !.near = near, !.id = id]

Call(method) == [Say("") EXCEPT !.method = method]

\* Sound, as the sets of a scene are permuted with the rest.
Symmetry == Permutations(Processes) \cup Permutations(Calls)

Plain ==
    [messages |-> {}, processes |-> {p1}, calls |-> {c1, c2}, keys |-> {}, lines |-> << >>,
     restarts |-> FALSE, faults |-> FALSE, tasks |-> 3, registrations |-> 1, end |-> 3]

\* A registration without a wallet is polled by two callers, past its end.
Registering ==
    [Plain EXCEPT !.messages = {Say("register"), Say("status")}, !.keys = {w1}]

\* Tasks of two processes, which end and lose answers.
Restarting ==
    [Registering EXCEPT !.processes = {p1, p2}, !.calls = {c1}, !.restarts = TRUE,
                        !.faults = TRUE]

\* Agents with Ed25519 keys, linked or not, in data and in text.
Modes ==
    [Plain EXCEPT !.messages = {[Say("registration") EXCEPT !.key = e1],
                                [Say("registration") EXCEPT !.key = e1, !.human = h1],
                                Text({"register", "linked"}, "", 0),
                                Text({"register"}, "", 0),
                                Text({"help"}, "", 0), Say("check"),
                                Say("register-status"),
                                Call("tasks/get"), Call("tasks/cancel"), Call("message/stream")},
                  !.calls = {c1}, !.end = 2]

\* Sessions to deregister an agent or to refresh its proof.
Ending ==
    [Plain EXCEPT !.messages = {About(1, "deregister"), Text({}, "renew", 1), Say("status")},
                  !.keys = {w1, e1}, !.calls = {c1}, !.faults = TRUE, !.registrations = 2,
                  !.end = 2]

\* Questions about an agent.
Asking ==
    [Plain EXCEPT !.messages = {About(1, "verify"), Text({}, "freshness", 1),
                                Text({"is", "fresh"}, "is", 1),
                                [About(1, "lookup") EXCEPT !.caller = 2]},
                  !.keys = {w1, e1}, !.calls = {c1}, !.tasks = 1, !.registrations = 2,
                  !.end = 4]

Failing == [Asking EXCEPT !.faults = TRUE, !.end = 3]

\* Two events of a stream, in any chunks.
Streaming == [Plain EXCEPT !.lines = <<"working", "", "completed", "">>]

AllScenes == {Registering, Restarting, Modes, Ending, Asking, Failing, Streaming}
=============================================================================
