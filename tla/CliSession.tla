------------------------------- MODULE CliSession -------------------------------
(***************************************************************************)
(* The command line tools (typescript-sdk/src/cli.ts,                      *)
(* rust-sdk/src/bin/self-agent-cli.rs, python-sdk .../cli.py) and the page *)
(* of the app they hand a session to (app/app/cli/register/page.tsx).      *)
(*                                                                         *)
(* A session is a file.  Each command reads it, works on a copy and writes *)
(* the whole of it back; while "wait" polls the chain, a listener of its   *)
(* own takes one callback of the page.  The three tools share the file and *)
(* the commands and differ in how the listener meets the loop: the same    *)
(* thread between two awaits (TypeScript), a mailbox read at the head of   *)
(* the loop (Rust), threads that change and write the dictionary that the  *)
(* loop changes and writes, line by line (Python).                         *)
(* The proof reaches the chain without either of them.                     *)
(* "status" and "export" only read the file and are left out; texts, keys, *)
(* signatures and the passkey's address are not told apart.                *)
(***************************************************************************)
EXTENDS Integers, Sequences, FiniteSets

CONSTANTS
    Commands,         \* processes that run a command of the tool
    Pages,            \* tabs of the browser
    Wallets,          \* addresses of the wallets that "init" makes
    HumanAddr,        \* the address of the human's own wallet
    NoAddr,           \* the empty address
    NoOne,            \* no process
    Ttl,              \* --ttl-minutes
    Interval,         \* --poll-ms
    MaxTime,          \* bound on the clock
    MaxIssued,        \* bound on the number of registrations
    Scenes            \* what may happen: see MCCliSession

Addrs == Wallets \cup {HumanAddr}
Sdks == {"ts", "rust", "py"}
Operations == {"register", "deregister"}
Modes == {"self-custody", "linked", "wallet-free", "smartwallet", "ed25519", "ed25519-linked"}
Ed25519Modes == {"ed25519", "ed25519-linked"}
Statuses == {"success", "error"}
Steps == {"fresh", "checked", "marked", "staged"}  \* of a Python handler with its request

ASSUME CliAssumption ==
    /\ {Ttl, Interval} \subseteq Nat \ {0}
    /\ {MaxTime, MaxIssued} \subseteq Nat
    /\ NoAddr \notin Addrs /\ HumanAddr \notin Wallets /\ NoOne \notin Commands
    /\ \A sc \in Scenes : /\ sc.ops \subseteq Operations /\ sc.modes \subseteq Modes
                           /\ sc.registered \in Seq(Addrs) /\ sc.timeout \in Nat

VARIABLES
    scene,
    issued, revoked,  \* the chain: the address of each number, the numbers burnt
    now,
    heads,            \* what a session keeps from "init" on, by its number
    file,             \* the session file
    urls,             \* sessions whose handoff URL was printed
    cmd,              \* the commands under way
    runs,             \* number of commands run, bounded by the scene
    page,
    \* history: whether a command wrote over another's writing; what the chain said
    \* while a command ran; the sessions whose agent was off at some time since "init";
    \* the callbacks a session has taken in
    lost, during, gone, taken

chainVars == <<issued, revoked>>
history == <<lost, during, gone, taken>>
vars == <<scene, chainVars, now, heads, file, urls, cmd, runs, page, history>>

NoSession == [serial |-> 0, used |-> FALSE, last |-> "none", stage |-> "initialized", id |-> 0]

\* known: the file as the command last saw it; left: the reads a poll waits for.
Idle ==
    [pc |-> "idle", copy |-> NoSession, known |-> NoSession, listening |-> FALSE,
     deadline |-> 0, until |-> 0, left |-> {}, seen |-> [verified |-> FALSE, id |-> 0],
     verified |-> FALSE, id |-> 0, polled |-> FALSE, told |-> "none", error |-> FALSE,
     result |-> "none"]

Closed ==
    [pc |-> "closed", serial |-> 0, proof |-> "none", posted |-> FALSE,
     post |-> [st \in Statuses |-> NoOne], at |-> [st \in Statuses |-> "fresh"]]

IdOf(a) ==
    LET live == {i \in 1 .. Len(issued) : issued[i] = a /\ i \notin revoked}
    IN  IF live = {} THEN 0 ELSE CHOOSE i \in live : TRUE

Serials == 1 .. Len(heads)
AddrOf(p) == heads[cmd[p].copy.serial].addr
OpOf(p) == heads[cmd[p].copy.serial].op
Port(s) == IF scene.onePort THEN 1 ELSE s

Init ==
    /\ scene \in Scenes  \* with --timeout-seconds among its parts
    /\ issued = scene.registered
    /\ revoked = {}
    /\ now = 0
    /\ heads = << >>
    /\ file = NoSession
    /\ urls = {}
    /\ cmd = [p \in Commands |-> Idle]
    /\ runs = 0
    /\ page = [b \in Pages |-> Closed]
    /\ lost = FALSE
    /\ during = [p \in Commands |-> [on |-> {}, off |-> FALSE]]
    /\ gone = {}
    /\ taken = << >>

-----------------------------------------------------------------------------
(* init                                                                    *)

\* The address of the agent, as the operation and the mode settle it.
Address(op, mode, a) ==
    CASE mode \in Ed25519Modes -> a = NoAddr
      [] mode = "self-custody" -> a = HumanAddr
      [] op = "deregister" /\ mode \notin Ed25519Modes \cup {"self-custody"} -> a \in Addrs
      [] OTHER -> a \in Wallets /\ \A s \in Serials : heads[s].addr # a

\* A wallet was made, or an address given, for every mode; Ed25519 modes fall through
\* with an empty address.
TsAddress(op, mode, a) == Address(op, mode, a)

\* A registration signs for a human who is not known in Ed25519 modes: no session.
RustAddress(op, mode, a) ==
    /\ op = "register" => mode \notin Ed25519Modes
    /\ Address(op, mode, a)

PyAddress(op, mode, a) == RustAddress(op, mode, a)

\* Slip: what the file held is carried over.
InitOver(op, mode, a) ==
    /\ Len(heads) < scene.inits
    /\ heads' = Append(heads, [op |-> op, mode |-> mode, addr |-> a, expires |-> now + Ttl])
    /\ file' = [file EXCEPT !.serial = Len(heads')]
    /\ taken' = Append(taken, 0)
    /\ gone' = IF IdOf(a) = 0 THEN gone \cup {Len(heads')} ELSE gone
    /\ UNCHANGED <<scene, chainVars, now, urls, cmd, runs, page, lost, during>>

\* The file is written anew, whatever it held.
InitSession(op, mode, a) ==
    /\ Len(heads) < scene.inits
    /\ heads' = Append(heads, [op |-> op, mode |-> mode, addr |-> a, expires |-> now + Ttl])
    /\ file' = [NoSession EXCEPT !.serial = Len(heads')]
    /\ taken' = Append(taken, 0)
    /\ gone' = IF IdOf(a) = 0 THEN gone \cup {Len(heads')} ELSE gone
    /\ UNCHANGED <<scene, chainVars, now, urls, cmd, runs, page, lost, during>>

TsInit(op, mode, a) == scene.sdk = "ts" /\ TsAddress(op, mode, a) /\ InitSession(op, mode, a)

RustInit(op, mode, a) ==
    scene.sdk = "rust" /\ RustAddress(op, mode, a) /\ InitSession(op, mode, a)

PyInit(op, mode, a) == scene.sdk = "py" /\ PyAddress(op, mode, a) /\ InitSession(op, mode, a)

-----------------------------------------------------------------------------
(* What the commands share.                                                *)

\* The tab after the requests "cut" of it ended without an answer: it is done with a
\* success all the same.
Unanswered(g, cut) ==
    [g EXCEPT !.post = [st \in Statuses |-> IF st \in cut THEN NoOne ELSE g.post[st]],
              !.at = [st \in Statuses |-> IF st \in cut THEN "fresh" ELSE g.at[st]],
              !.pc = IF "success" \in cut THEN "completed" ELSE @]

Hangup(p) ==
    page' = [b \in Pages |->
                Unanswered(page[b], {st \in Statuses : page[b].post[st] = p})]

\* saveSession: the copy of p, changed to c, replaces the file.
Save(p, c) ==
    /\ file' = c
    /\ lost' = (lost \/ file # cmd[p].known)

Saved(p, c) == [cmd[p] EXCEPT !.copy = c, !.known = c]

\* Of a command that ended there is left what it said.
End(c, result) ==
    [Idle EXCEPT !.copy.serial = c.copy.serial, !.id = c.id, !.polled = c.polled,
                 !.error = c.error, !.result = result]

Finish(p, c, result) ==
    /\ cmd' = [cmd EXCEPT ![p] = End(c, result)]
    /\ Hangup(p)

Go(p, pc) == cmd' = [cmd EXCEPT ![p].pc = pc]

here == <<scene, chainVars, now, heads, runs>>

\* readSession
Load(p, pc) ==
    /\ p \in scene.commands /\ cmd[p].pc = "idle"
    /\ file.serial # 0
    /\ runs < scene.runs /\ runs' = runs + 1
    /\ cmd' = [cmd EXCEPT ![p] = [Idle EXCEPT !.pc = pc, !.copy = file, !.known = file]]
    /\ LET id == IdOf(heads[file.serial].addr)
       IN  during' = [during EXCEPT ![p] = [on |-> {id} \ {0}, off |-> id = 0]]
    /\ UNCHANGED <<scene, chainVars, now, heads, file, urls, page, lost, gone, taken>>

\* Neither command looks at the stage: a session that is done expires as well.
Expired(p) ==
    /\ cmd[p].pc \in {"open", "wait"}
    /\ now > heads[cmd[p].copy.serial].expires
    /\ LET c == [cmd[p].copy EXCEPT !.stage = "expired"]
       IN  Save(p, c) /\ Finish(p, Saved(p, c), "died")
    /\ UNCHANGED <<here, urls, during, gone, taken>>

HandOff(p) ==
    /\ now <= heads[cmd[p].copy.serial].expires
    /\ urls' = urls \cup {cmd[p].copy.serial}
    /\ Save(p, [cmd[p].copy EXCEPT !.stage = "handoff_opened"])

Open(p) ==
    \/ Load(p, "open")
    \/ Expired(p)
    \/ /\ cmd[p].pc = "open"
       /\ HandOff(p)
       /\ cmd' = [cmd EXCEPT ![p] = End(Saved(p, file'), "opened")]
       /\ UNCHANGED <<here, page, during, gone, taken>>

TsOpen(p) == scene.sdk = "ts" /\ Open(p)
RustOpen(p) == scene.sdk = "rust" /\ Open(p)
PyOpen(p) == scene.sdk = "py" /\ Open(p)

\* The head of "wait", up to the listener.
BeginWait(p) ==
    \/ Load(p, "wait")
    \/ /\ cmd[p].pc = "wait" /\ scene.opening
       /\ HandOff(p)
       /\ cmd' = [cmd EXCEPT ![p] = [Saved(p, file') EXCEPT !.pc = "listen"]]
       /\ UNCHANGED <<here, page, during, gone, taken>>
    \/ /\ cmd[p].pc = "wait"
       /\ now <= heads[cmd[p].copy.serial].expires
       /\ Go(p, "listen")
       /\ UNCHANGED <<here, file, urls, page, history>>

PortTaken(p) ==
    \E q \in Commands \ {p} : cmd[q].listening /\ Port(cmd[q].copy.serial) = Port(cmd[p].copy.serial)

\* The bound keeps the deadline of a wait within the clock's.
Listen(p, listening) ==
    /\ cmd[p].pc = "listen"
    /\ now + scene.timeout <= MaxTime
    /\ cmd' = [cmd EXCEPT ![p].listening = listening, ![p].pc = "head",
                          ![p].deadline = now + scene.timeout]
    /\ UNCHANGED <<here, file, urls, page, history>>

Sleep(c) == [c EXCEPT !.pc = "sleep", !.until = now + Interval, !.left = {}]

\* A read of isVerifiedAgent or getAgentId.
Read(p, what) ==
    /\ cmd[p].pc = "polling" /\ what \in cmd[p].left
    /\ AddrOf(p) # NoAddr
    /\ LET id == IdOf(AddrOf(p))
       IN  cmd' = [cmd EXCEPT ![p].left = @ \ {what},
                              ![p].seen = IF what = "id" THEN [@ EXCEPT !.id = id]
                                          ELSE [@ EXCEPT !.verified = id # 0]]
    /\ UNCHANGED <<here, file, urls, page, history>>

\* A poll that throws changes nothing; the empty address is no agent's key.
PollFails(p) ==
    /\ cmd[p].pc = "polling" /\ cmd[p].left # {}
    /\ (scene.faults \/ AddrOf(p) = NoAddr)
    /\ cmd' = [cmd EXCEPT ![p] = Sleep(cmd[p])]
    /\ UNCHANGED <<here, file, urls, page, history>>

\* Slip: one of the two readings is enough.
Either(op, verified, id) == IF op = "register" THEN verified \/ id > 0 ELSE ~ verified \/ id = 0

\* onchainVerified, onchainDeregistered
Reached(op, verified, id) == IF op = "register" THEN verified /\ id > 0 ELSE ~ verified /\ id = 0

Polled(p) == cmd[p].pc = "polling" /\ cmd[p].left = {}

\* What a poll that came back leaves with the command.
Kept(p) == [cmd[p] EXCEPT !.verified = cmd[p].seen.verified, !.id = cmd[p].seen.id, !.polled = TRUE]

NotYet(p) ==
    /\ Polled(p)
    /\ ~ Reached(OpOf(p), cmd[p].seen.verified, cmd[p].seen.id)
    /\ cmd' = [cmd EXCEPT ![p] = Sleep(Kept(p))]
    /\ UNCHANGED <<here, file, urls, page, history>>

\* The session with the stage that the chain has reached.
OnChain(op, c, id) ==
    [c EXCEPT !.stage = IF op = "register" THEN "onchain_verified" ELSE "onchain_deregistered",
              !.id = IF op = "register" THEN id ELSE 0]

Wake(p) ==
    /\ cmd[p].pc = "sleep"
    /\ now >= cmd[p].until
    /\ Go(p, "head")
    /\ UNCHANGED <<here, file, urls, page, history>>

StartPoll(c) == [c EXCEPT !.pc = "polling", !.left = {"verified", "id"}]

WithCallback(c, status) ==
    [c EXCEPT !.used = TRUE, !.last = status,
              !.stage = IF status = "error" THEN "failed" ELSE "callback_received"]

Take(s) == taken' = [taken EXCEPT ![s] = IF @ < 2 THEN @ + 1 ELSE @]

\* A request of b under way to p.
Request(p, b, status) ==
    /\ cmd[p].listening
    /\ page[b].post[status] = p

Answer(b, status, ok) ==
    page' = [page EXCEPT ![b] = [Unanswered(@, {status}) EXCEPT !.posted = @ \/ ok]]

\* Another session's page reached this port: "Session mismatch".
Mismatch(p, b, status) ==
    /\ Request(p, b, status)
    /\ page[b].serial # cmd[p].copy.serial
    /\ Answer(b, status, FALSE)
    /\ UNCHANGED <<here, file, urls, cmd, history>>

Matching(p, b, status) == Request(p, b, status) /\ page[b].serial = cmd[p].copy.serial

\* The loop is over: whether the target was reached, as the command remembers it.
Completed(p) == Reached(OpOf(p), cmd[p].verified, cmd[p].id)

GiveUp(p) ==
    LET c == [cmd[p].copy EXCEPT !.stage = "expired"]
    IN  Save(p, c) /\ Finish(p, Saved(p, c), "died")

-----------------------------------------------------------------------------
(* wait, TypeScript: the handler runs in the awaits of the loop.           *)

TsListen(p) ==
    \/ ~ PortTaken(p) /\ Listen(p, TRUE)
    \/ scene.unheard /\ Listen(p, FALSE)
    \/ /\ cmd[p].pc = "listen" /\ PortTaken(p)
       /\ Finish(p, cmd[p], "died")
       /\ UNCHANGED <<here, file, urls, history>>

TsHead(p) ==
    /\ cmd[p].pc = "head"
    /\ cmd' = [cmd EXCEPT ![p] = IF now < cmd[p].deadline /\ ~ cmd[p].error THEN StartPoll(@)
                                 ELSE [@ EXCEPT !.pc = "closing"]]
    /\ UNCHANGED <<here, file, urls, page, history>>

TsReached(p) ==
    /\ Polled(p)
    /\ Reached(OpOf(p), cmd[p].seen.verified, cmd[p].seen.id)
    /\ LET c == OnChain(OpOf(p), cmd[p].copy, cmd[p].seen.id)
       IN  /\ Save(p, c)
           /\ cmd' = [cmd EXCEPT ![p] = [Kept(p) EXCEPT !.copy = c, !.known = c, !.pc = "closing"]]
    /\ UNCHANGED <<here, urls, page, during, gone, taken>>

TsCallback(p, b, status) ==
    \/ Mismatch(p, b, status)
    \/ /\ Matching(p, b, status)
       /\ cmd[p].copy.used
       /\ Answer(b, status, FALSE)
       /\ UNCHANGED <<here, file, urls, cmd, history>>
    \/ /\ Matching(p, b, status)
       /\ ~ cmd[p].copy.used
       /\ LET c == WithCallback(cmd[p].copy, status)
          IN  /\ Save(p, c)
              /\ cmd' = [cmd EXCEPT ![p] = [Saved(p, c) EXCEPT !.error = @ \/ status = "error"]]
       /\ Take(page[b].serial)
       /\ Answer(b, status, TRUE)
       /\ UNCHANGED <<here, urls, during, gone>>

\* Slip: what a callback said is asked about in the loop only.
TsEndHeedless(p) ==
    /\ cmd[p].pc = "closing"
    /\ \A b \in Pages, st \in Statuses : page[b].post[st] # p
    /\ \/ Completed(p) /\ Finish(p, cmd[p], "done") /\ UNCHANGED <<file, lost>>
       \/ ~ Completed(p) /\ GiveUp(p)
    /\ UNCHANGED <<here, urls, during, gone, taken>>

\* server.close waits for the requests under way.
TsEnd(p) ==
    /\ cmd[p].pc = "closing"
    /\ \A b \in Pages, st \in Statuses : page[b].post[st] # p
    /\ \/ cmd[p].error /\ Finish(p, cmd[p], "died") /\ UNCHANGED <<file, lost>>
       \/ ~ cmd[p].error /\ Completed(p) /\ Finish(p, cmd[p], "done") /\ UNCHANGED <<file, lost>>
       \/ ~ cmd[p].error /\ ~ Completed(p) /\ GiveUp(p)
    /\ UNCHANGED <<here, urls, during, gone, taken>>

TsWait(p) ==
    /\ scene.sdk = "ts"
    /\ \/ BeginWait(p) \/ TsListen(p) \/ TsHead(p) \/ \E what \in {"verified", "id"} : Read(p, what)
       \/ PollFails(p) \/ NotYet(p) \/ TsReached(p) \/ Wake(p) \/ TsEnd(p)

-----------------------------------------------------------------------------
(* wait, Rust: a thread leaves the callback where the loop picks it up.    *)

RustListen(p) ==
    \/ ~ PortTaken(p) /\ Listen(p, TRUE)
    \/ (scene.unheard \/ PortTaken(p)) /\ Listen(p, FALSE)

\* isVerifiedAgent answers before getAgentId is asked.
RustRead(p) == \E what \in {"verified", "id"} :
    /\ what = "id" => "verified" \notin cmd[p].left
    /\ Read(p, what)

\* Slip: the file's word that a callback was used is not heeded.
HeardAnew(p) == cmd[p].told # "none"

Heard(p) == cmd[p].told # "none" /\ ~ cmd[p].copy.used

RustHead(p) ==
    /\ cmd[p].pc = "head"
    /\ \/ /\ now >= cmd[p].deadline
          /\ Go(p, "closing")
          /\ UNCHANGED <<file, page, lost, taken>>
       \/ /\ now < cmd[p].deadline /\ ~ Heard(p)
          /\ cmd' = [cmd EXCEPT ![p] = StartPoll(@)]
          /\ UNCHANGED <<file, page, lost, taken>>
       \/ /\ now < cmd[p].deadline /\ Heard(p)
          /\ LET c == WithCallback(cmd[p].copy, cmd[p].told)
             IN  /\ Save(p, c)
                 /\ Take(c.serial)
                 /\ \/ cmd[p].told = "error" /\ Finish(p, Saved(p, c), "died")
                    \/ /\ cmd[p].told = "success"
                       /\ cmd' = [cmd EXCEPT ![p] = StartPoll(Saved(p, c))]
                       /\ UNCHANGED page
    /\ UNCHANGED <<here, urls, during, gone>>

RustReached(p) ==
    /\ Polled(p)
    /\ Reached(OpOf(p), cmd[p].seen.verified, cmd[p].seen.id)
    /\ LET c == OnChain(OpOf(p), cmd[p].copy, cmd[p].seen.id)
       IN  /\ Save(p, c)
           /\ cmd' = [cmd EXCEPT ![p] = [Kept(p) EXCEPT !.copy = c, !.known = c, !.pc = "closing"]]
    /\ UNCHANGED <<here, urls, page, during, gone, taken>>

RustEnd(p) ==
    /\ cmd[p].pc = "closing"
    /\ \/ Completed(p) /\ Finish(p, cmd[p], "done") /\ UNCHANGED <<file, lost>>
       \/ ~ Completed(p) /\ GiveUp(p)
    /\ UNCHANGED <<here, urls, during, gone, taken>>

\* The thread knows what came to itself only, and not what the file says.
RustCallback(p, b, status) ==
    \/ Mismatch(p, b, status)
    \/ /\ Matching(p, b, status)
       /\ Answer(b, status, cmd[p].told = "none")
       /\ cmd' = [cmd EXCEPT ![p].told = IF @ = "none" THEN status ELSE @]
       /\ UNCHANGED <<here, file, urls, history>>

RustWait(p) ==
    /\ scene.sdk = "rust"
    /\ \/ BeginWait(p) \/ RustListen(p) \/ RustHead(p) \/ RustRead(p) \/ PollFails(p)
       \/ NotYet(p) \/ RustReached(p) \/ Wake(p) \/ RustEnd(p)

-----------------------------------------------------------------------------
(* wait, Python: threads change and write the dictionary that the loop     *)
(* changes and writes.                                                     *)

PyListen(p) == RustListen(p)

\* What the loop writes in the end is what the dictionary holds by then.
PyHead(p) ==
    /\ cmd[p].pc = "head"
    /\ cmd' = [cmd EXCEPT ![p] =
           IF now >= @.deadline THEN [@ EXCEPT !.copy.stage = "expired", !.pc = "failing"]
           ELSE IF @.error THEN [@ EXCEPT !.copy.stage = "failed", !.pc = "failing"]
           ELSE StartPoll(@)]
    /\ UNCHANGED <<here, file, urls, page, history>>

\* The stage is set first, and the number on a line of its own.
PyReached(p) ==
    /\ Polled(p)
    /\ Reached(OpOf(p), cmd[p].seen.verified, cmd[p].seen.id)
    /\ LET c == OnChain(OpOf(p), cmd[p].copy, cmd[p].seen.id)
       IN  cmd' = [cmd EXCEPT ![p] = [Kept(p) EXCEPT !.copy.stage = c.stage, !.pc = "staged"]]
    /\ UNCHANGED <<here, file, urls, page, history>>

PyNumber(p) ==
    /\ cmd[p].pc = "staged"
    /\ LET c == OnChain(OpOf(p), cmd[p].copy, cmd[p].id)
       IN  cmd' = [cmd EXCEPT ![p].copy.id = c.id, ![p].pc = "reached"]
    /\ UNCHANGED <<here, file, urls, page, history>>

PySave(p) ==
    /\ cmd[p].pc \in {"reached", "failing"}
    /\ Save(p, cmd[p].copy)
    /\ LET result == IF cmd[p].pc = "reached" THEN "done" ELSE "died"
       IN  cmd' = [cmd EXCEPT ![p] =
                       [Saved(p, cmd[p].copy) EXCEPT !.pc = "closing", !.result = result]]
    /\ UNCHANGED <<here, urls, page, during, gone, taken>>

\* server.shutdown waits for no handler: those under way run until the process is gone.
PyExit(p) ==
    /\ cmd[p].pc = "closing"
    /\ Finish(p, cmd[p], cmd[p].result)
    /\ UNCHANGED <<here, file, urls, history>>

\* A handler looks at state.used, marks the session, sets its stage and writes it, each
\* between any two lines of the loop and of another handler.
PyCallback(p, b, status) ==
    LET at == page[b].at[status]
        To(step) == page' = [page EXCEPT ![b].at[status] = step]
        c == WithCallback(cmd[p].copy, status)
    IN  \/ at = "fresh" /\ Mismatch(p, b, status)
        \/ /\ Matching(p, b, status) /\ at = "fresh"
           /\ IF cmd[p].told = "none" THEN To("checked") ELSE Answer(b, status, FALSE)
           /\ UNCHANGED <<here, file, urls, cmd, history>>
        \/ /\ Matching(p, b, status) /\ at = "checked"
           /\ cmd' = [cmd EXCEPT ![p].told = status, ![p].copy.used = c.used,
                                 ![p].copy.last = c.last]
           /\ To("marked")
           /\ UNCHANGED <<here, file, urls, history>>
        \/ /\ Matching(p, b, status) /\ at = "marked"
           /\ cmd' = [cmd EXCEPT ![p].error = @ \/ status = "error", ![p].copy.stage = c.stage]
           /\ To("staged")
           /\ UNCHANGED <<here, file, urls, history>>
        \/ /\ Matching(p, b, status) /\ at = "staged"
           /\ Save(p, cmd[p].copy)
           /\ cmd' = [cmd EXCEPT ![p] = Saved(p, cmd[p].copy)]
           /\ Take(page[b].serial)
           /\ Answer(b, status, TRUE)
           /\ UNCHANGED <<here, urls, during, gone>>

PyWait(p) ==
    /\ scene.sdk = "py"
    /\ \/ BeginWait(p) \/ PyListen(p) \/ PyHead(p) \/ RustRead(p) \/ PollFails(p)
       \/ NotYet(p) \/ PyReached(p) \/ PyNumber(p) \/ PySave(p) \/ PyExit(p) \/ Wake(p)

-----------------------------------------------------------------------------
(* The page                                                                *)

elsewhere == <<here, file, urls, cmd, history>>

\* The payload: expired, or without the userDefinedData of its mode; a smart wallet is
\* made before the QR code is shown.
LoadPage(b, s) ==
    /\ b \in scene.pages /\ page[b].pc = "closed"
    /\ s \in urls
    /\ LET h == heads[s]
       IN  page' = [page EXCEPT ![b].serial = s, ![b].pc =
               IF now > h.expires \/ scene.custom \/ h.mode \in Ed25519Modes THEN "refused"
               ELSE IF h.op = "register" /\ h.mode = "smartwallet" THEN "prepare"
               ELSE "ready"]
    /\ UNCHANGED elsewhere

\* handleSmartWalletPrepare; while it fails, the button stays.
PrepareSmartWallet(b) ==
    /\ page[b].pc = "prepare"
    /\ page' = [page EXCEPT ![b].pc = "ready"]
    /\ UNCHANGED elsewhere

\* The Self app scans the code and sends a proof.
Scan(b) ==
    /\ page[b].pc = "ready" /\ page[b].proof = "none"
    /\ page' = [page EXCEPT ![b].proof = "sent"]
    /\ UNCHANGED elsewhere

\* postCallback, once the callback is known to have been taken, does nothing.
PostCallback(b, status) ==
    LET heard == {q \in Commands : /\ cmd[q].listening /\ cmd[q].pc # "closing"
                                   /\ Port(cmd[q].copy.serial) = Port(page[b].serial)}
    IN  \/ /\ page[b].posted \/ heard = {}
           /\ page' = [page EXCEPT ![b] = Unanswered(@, {status})]
        \/ /\ ~ page[b].posted
           /\ \E q \in heard : page' = [page EXCEPT ![b].post[status] = q]

\* onSuccess, onError: what the Self app says over its own channel.
SelfSays(b, status) ==
    /\ page[b].pc = "ready" /\ page[b].proof # "none" /\ page[b].post[status] = NoOne
    /\ PostCallback(b, status)
    /\ UNCHANGED elsewhere

-----------------------------------------------------------------------------
(* The chain and the clock                                                 *)

Observe(a) ==
    LET id == IdOf(a)'
    IN  /\ during' = [p \in Commands |->
                          IF cmd[p].pc # "idle" /\ AddrOf(p) = a
                          THEN [on |-> during[p].on \cup ({id} \ {0}), off |-> during[p].off \/ id = 0]
                          ELSE during[p]]
        /\ gone' = gone \cup {s \in Serials : heads[s].addr = a /\ id = 0}

Registers(a) ==
    /\ IdOf(a) = 0 /\ Len(issued) < MaxIssued
    /\ issued' = Append(issued, a) /\ UNCHANGED revoked
    /\ Observe(a)

Deregisters(a) ==
    /\ IdOf(a) # 0
    /\ revoked' = revoked \cup {IdOf(a)} /\ UNCHANGED issued
    /\ Observe(a)

\* A proof reaches the registry, whatever the page was told.
Lands(b) ==
    /\ page[b].proof = "sent"
    /\ \E a \in Addrs :
          /\ a = heads[page[b].serial].addr
          /\ IF heads[page[b].serial].op = "register" THEN Registers(a) ELSE Deregisters(a)
    /\ page' = [page EXCEPT ![b].proof = "landed"]
    /\ UNCHANGED <<scene, now, heads, file, urls, cmd, runs, lost, taken>>

\* A guardian, the proof provider or a proof of another origin.
Others(a) ==
    /\ a \in scene.others
    /\ (Deregisters(a) \/ Registers(a))
    /\ UNCHANGED <<scene, now, heads, file, urls, cmd, runs, page, lost, taken>>

Tick ==
    /\ now < scene.end
    /\ now' = now + 1
    /\ UNCHANGED <<scene, chainVars, heads, file, urls, cmd, runs, page, history>>

-----------------------------------------------------------------------------

Loop(p) == TsWait(p) \/ RustWait(p) \/ PyWait(p)

Callbacks(p) ==
    \E b \in Pages, status \in Statuses :
        \/ scene.sdk = "ts" /\ TsCallback(p, b, status)
        \/ scene.sdk = "rust" /\ RustCallback(p, b, status)
        \/ scene.sdk = "py" /\ PyCallback(p, b, status)

Next ==
    \/ \E op \in scene.ops, mode \in scene.modes, a \in Addrs \cup {NoAddr} :
          TsInit(op, mode, a) \/ RustInit(op, mode, a) \/ PyInit(op, mode, a)
    \/ \E p \in Commands :
          TsOpen(p) \/ RustOpen(p) \/ PyOpen(p) \/ Loop(p) \/ Callbacks(p)
    \/ \E b \in Pages :
          \/ \E s \in Serials : LoadPage(b, s)
          \/ PrepareSmartWallet(b) \/ Scan(b) \/ Lands(b)
          \/ \E status \in Statuses : SelfSays(b, status)
    \/ \E a \in Addrs : Others(a)
    \/ Tick

Spec == Init /\ [][Next]_vars

-----------------------------------------------------------------------------
(* Properties                                                              *)

\* A wait that reports success saw what it reports while it ran: the number was the
\* agent's, or the agent was off the registry.  The exception is the initial value of
\* the tools that never got an answer (see DeregistrationWasReal).
DoneWasTrue ==
    \A p \in Commands : cmd[p].result = "done" =>
        IF OpOf(p) = "register" THEN cmd[p].id \in during[p].on
        ELSE during[p].off \/ (scene.sdk # "py" /\ ~ cmd[p].polled)

\* The stage of the file tells of the chain: the agent had that number, or was off the
\* registry since the session began, whoever wrote over whom.  A Python handler that
\* writes the file between the two lines of its loop writes the stage without the number:
\* then the agent had one all the same.
StageWasTrue ==
    /\ file.stage = "onchain_verified" =>
          \E i \in DOMAIN issued : /\ issued[i] = heads[file.serial].addr
                                   /\ file.id = i \/ (scene.sdk = "py" /\ file.id = 0)
    /\ file.stage = "onchain_deregistered" => file.serial \in gone

\* A session takes in one callback, however many commands waited for it, as long as no
\* command wrote over what another had written.  (The Python listener asks only whether
\* its own command took one in, not what the file says: a later wait takes in another.)
CallbackOnce ==
    scene.sdk # "py" /\ ~ lost => \A s \in Serials : taken[s] <= 1

\* A wait that took in an error of the page does not report success, even when the
\* registry has the agent by then.  (TypeScript; in Rust what comes after the last look
\* is not taken in.)
ErrorIsFatal ==
    \A p \in Commands : scene.sdk = "ts" /\ cmd[p].error => cmd[p].result # "done"
=============================================================================
