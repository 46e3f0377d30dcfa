------------------------------ MODULE MCCliSession ------------------------------
(***************************************************************************)
(* Scenes for CliSession, and a claim of the source that the code does     *)
(* not keep.                                                               *)
(***************************************************************************)
EXTENDS CliSession, TLC

CONSTANTS c1, c2, b1, b2, w1, w2

Symmetry == Permutations(Commands) \cup Permutations(Pages)

\* One session, one command at a time beside one tab.
Plain ==
    [sdk |-> "ts", ops |-> {"register"}, modes |-> {"linked"}, inits |-> 1,
     commands |-> {c1}, pages |-> {b1}, registered |-> << >>, opening |-> TRUE,
     unheard |-> FALSE, onePort |-> FALSE, custom |-> FALSE, faults |-> FALSE,
     others |-> {}, runs |-> 2, timeout |-> 2, end |-> 3]

InEvery(scenes) == {[sc EXCEPT !.sdk = sdk] : sc \in scenes, sdk \in Sdks}

\* Two commands on one file.
Sharing == [Plain EXCEPT !.commands = {c1, c2}, !.runs = 2, !.timeout = 1, !.end = 1]

\* Two tabs of one session.
Tabs == [Plain EXCEPT !.pages = {b1, b2}, !.runs = 1, !.timeout = 1, !.end = 1]

\* The same while the clock stands still, for the threads of the Python listener.
Threads == [Tabs EXCEPT !.sdk = "py", !.end = 0]

\* The agent comes and goes while it is waited for.
Leaving ==
    [Plain EXCEPT !.ops = {"deregister"}, !.modes = {"self-custody"},
                  !.registered = <<HumanAddr>>, !.others = {HumanAddr}, !.unheard = TRUE,
                  !.pages = {}, !.end = 3]

\* A new session in the file of the old one, at the same port.
Renewed == [Plain EXCEPT !.inits = 2, !.onePort = TRUE, !.runs = 2, !.timeout = 1, !.end = 1]

Wide ==
    [Plain EXCEPT !.ops = Operations, !.modes = Modes, !.registered = <<w1>>,
                  !.faults = TRUE, !.runs = 1, !.timeout = 1, !.end = 2]

\* In Python an instant less: its threads have more steps.
InEverySooner(scenes) ==
    {[sc EXCEPT !.sdk = sdk] : sc \in scenes, sdk \in {"ts", "rust"}}
      \cup {[sc EXCEPT !.sdk = "py", !.end = @ - 1] : sc \in scenes}

AllScenes ==
    InEvery({Leaving, Renewed}) \cup InEverySooner({Plain, Wide})
      \cup {Tabs, [Tabs EXCEPT !.sdk = "rust"], Threads, Sharing}

\* Claim of typescript-sdk/src/cli.ts: the wait "polls the on-chain registry until the
\* operation completes or times out" and "exits with an error if ... the timeout is
\* reached".  A wait that reports a deregistration followed the agent's going.
DeregistrationWasReal ==
    \A p \in Commands : cmd[p].result = "done" /\ OpOf(p) = "deregister" => during[p].off

Unread ==
    InEvery({[Plain EXCEPT !.ops = {"deregister"}, !.modes = {"wallet-free"},
                           !.registered = <<w1>>, !.faults = TRUE, !.pages = {}, !.runs = 1]})
=============================================================================
