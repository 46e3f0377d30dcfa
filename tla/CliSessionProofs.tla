---------------------------- MODULE CliSessionProofs ----------------------------
(***************************************************************************)
(* What the command line tools report, for every number of commands, tabs, *)
(* sessions and registrations and every scene.                             *)
(***************************************************************************)
EXTENDS CliSession, SequenceTheorems, TLAPS

-----------------------------------------------------------------------------
(* The invariant.                                                          *)

Phases == {"idle", "open", "wait", "listen", "head", "polling", "sleep", "staged", "reached",
           "failing", "closing"}

Stages == {"initialized", "handoff_opened", "callback_received", "failed", "expired",
           "onchain_verified", "onchain_deregistered"}

SessionSet ==
    [serial : Nat, used : BOOLEAN, last : Statuses \cup {"none"}, stage : Stages, id : Nat]

HeadSet == [op : Operations, mode : Modes, addr : Addrs \cup {NoAddr}, expires : Nat]

CmdSet ==
    [pc : Phases, copy : SessionSet, known : SessionSet, listening : BOOLEAN, deadline : Nat,
     until : Nat, left : SUBSET {"verified", "id"}, seen : [verified : BOOLEAN, id : Nat],
     verified : BOOLEAN, id : Nat, polled : BOOLEAN, told : Statuses \cup {"none"},
     error : BOOLEAN, result : {"none", "opened", "done", "died"}]

DuringSet == [on : SUBSET Nat, off : BOOLEAN]

CliTypeOK ==
    /\ scene \in Scenes
    /\ issued \in Seq(Addrs)
    /\ now \in Nat
    /\ heads \in Seq(HeadSet)
    /\ file \in SessionSet
    /\ cmd \in [Commands -> CmdSet]
    /\ during \in [Commands -> DuringSet]
    /\ taken \in Seq(Nat)
    /\ lost \in BOOLEAN

\* The agent of a session had a number.
Numbered(s) == \E i \in DOMAIN issued : issued[i] = heads[s].addr

\* What a session says of the chain.
StageOK(c) ==
    /\ c.id # 0 => /\ c.serial \in Serials
                   /\ c.id \in DOMAIN issued /\ issued[c.id] = heads[c.serial].addr
    /\ c.stage = "onchain_verified" =>
          /\ c.serial \in Serials
          /\ c.id # 0 \/ (scene.sdk = "py" /\ Numbered(c.serial))
    /\ c.stage = "onchain_deregistered" => c.serial \in Serials \cap gone

\* A number that was read while a command ran: the agent had it, or was off.
Noted(d, id) == IF id = 0 THEN d.off ELSE id \in d.on

\* What was noted while a command of session s runs is what the chain said.
DuringOK(d, s) ==
    /\ \A i \in d.on : i \in DOMAIN issued /\ issued[i] = heads[s].addr
    /\ d.off => s \in gone
    /\ Noted(d, IdOf(heads[s].addr))

\* A command under way: its session, the numbers it read, what it makes of them.
RunOK(k, d) ==
    /\ k.copy.serial \in Serials
    /\ k.result = "none" \/ (scene.sdk = "py" /\ k.pc = "closing")
    /\ scene.sdk # "py" => k.copy = k.known
    /\ StageOK(k.copy)
    /\ DuringOK(d, k.copy.serial)
    /\ k.pc = "polling" /\ "id" \notin k.left => Noted(d, k.seen.id)
    /\ IF k.polled THEN Noted(d, k.id) ELSE k.id = 0
    /\ k.pc \in {"staged", "reached"} =>
          k.polled /\ Reached(heads[k.copy.serial].op, k.verified, k.id)

\* A command that ended and reports success.
DoneOK(k, d) ==
    /\ k.copy.serial \in Serials
    /\ IF heads[k.copy.serial].op = "register" THEN k.id \in d.on
       ELSE d.off \/ (scene.sdk # "py" /\ ~ k.polled)

CmdOK(k, d) ==
    /\ k.pc # "idle" => RunOK(k, d)
    /\ k.pc = "idle" => ~ k.listening
    /\ k.result = "done" => DoneOK(k, d)
    /\ scene.sdk = "ts" /\ k.error => k.result # "done"

CmdsOK == \A p \in Commands : CmdOK(cmd[p], during[p])

FileOK == file.serial \in 0 .. Len(heads) /\ StageOK(file)

\* A session whose agent is off the registry was off it.
GoneOK == \A s \in Serials : IdOf(heads[s].addr) = 0 => s \in gone

\* A session that took in a callback says so in its file.
TakenOK ==
    /\ Len(taken) = Len(heads)
    /\ scene.sdk # "py" /\ ~ lost =>
          \A s \in Serials : /\ taken[s] <= 1
                             /\ s = file.serial /\ taken[s] > 0 => file.used

CliInv == CliTypeOK /\ CmdsOK /\ FileOK /\ GoneOK /\ TakenOK

-----------------------------------------------------------------------------
(* Types.                                                                  *)

\* The bounds are natural numbers, and a scene is made of what there is.
LEMMA Bounds ==
    /\ Ttl \in Nat /\ Interval \in Nat
    /\ \A sc \in Scenes : /\ sc.ops \subseteq Operations /\ sc.modes \subseteq Modes
                           /\ sc.registered \in Seq(Addrs) /\ sc.timeout \in Nat
BY CliAssumption

\* The number of an address is one that was issued to it and not burnt, or none.
LEMMA IdShape ==
  ASSUME issued \in Seq(Addrs), NEW a
  PROVE  /\ IdOf(a) \in Nat
         /\ IdOf(a) # 0 => /\ IdOf(a) \in DOMAIN issued /\ issued[IdOf(a)] = a
                           /\ IdOf(a) \notin revoked
         /\ IdOf(a) = 0 => \A i \in DOMAIN issued : issued[i] = a => i \in revoked
<1> DEFINE live == {i \in 1 .. Len(issued) : issued[i] = a /\ i \notin revoked}
           i == CHOOSE i \in live : TRUE
<1>1. Len(issued) \in Nat /\ DOMAIN issued = 1 .. Len(issued)
  OBVIOUS
<1>2. IdOf(a) = IF live = {} THEN 0 ELSE i
  BY DEF IdOf
<1>3. CASE live = {}
  BY <1>1, <1>2, <1>3
<1>4. CASE live # {}
  <2>1. i \in live
    BY <1>4
  <2>2. IdOf(a) = i
    BY <1>2, <1>4
  <2> HIDE DEF i
  <2> QED
    BY <1>1, <2>1, <2>2
<1> QED
  BY <1>3, <1>4

\* While the chain stands still, so do the numbers.
LEMMA SameIds ==
  ASSUME UNCHANGED <<issued, revoked>>
  PROVE  \A a : IdOf(a)' = IdOf(a)
BY DEF IdOf

\* The numbers that an address has, and one of them.
Live(a) == {i \in 1 .. Len(issued) : issued[i] = a /\ i \notin revoked}
AnyOf(numbers) == IF numbers = {} THEN 0 ELSE CHOOSE i \in numbers : TRUE

\* An address that keeps its numbers keeps the one that is told.
LEMMA SameLive ==
  ASSUME NEW a, Live(a)' = Live(a)
  PROVE  IdOf(a)' = IdOf(a)
<1>1. IdOf(a) = AnyOf(Live(a)) /\ IdOf(a)' = AnyOf(Live(a)')
  BY DEF IdOf, AnyOf, Live
<1> QED
  BY <1>1

\* A number that is taken was not taken before, and no other agent's changes.
LEMMA RegistersShape ==
  ASSUME issued \in Seq(Addrs), NEW a \in Addrs, Registers(a)
  PROVE  /\ issued' \in Seq(Addrs)
         /\ \A i \in DOMAIN issued : i \in DOMAIN issued' /\ issued'[i] = issued[i]
         /\ \A b : b # a => IdOf(b)' = IdOf(b)
<1>1. issued' = Append(issued, a) /\ UNCHANGED revoked
  BY DEF Registers
<1>2. /\ issued' \in Seq(Addrs) /\ Len(issued) \in Nat /\ Len(issued') = Len(issued) + 1
      /\ \A i \in 1 .. Len(issued) : issued'[i] = issued[i]
      /\ issued'[Len(issued) + 1] = a
      /\ DOMAIN issued = 1 .. Len(issued) /\ DOMAIN issued' = 1 .. Len(issued')
  BY <1>1
<1>3. ASSUME NEW b, b # a
      PROVE  IdOf(b)' = IdOf(b)
  <2>1. Live(b)' = Live(b)
    BY <1>1, <1>2, <1>3 DEF Live
  <2> QED
    BY <2>1, SameLive
<1> QED
  BY <1>2, <1>3

\* A number that is burnt leaves the other agents theirs.
LEMMA DeregistersShape ==
  ASSUME issued \in Seq(Addrs), NEW a \in Addrs, Deregisters(a)
  PROVE  /\ UNCHANGED issued
         /\ \A b : b # a => IdOf(b)' = IdOf(b)
<1>1. /\ UNCHANGED issued /\ revoked' = revoked \cup {IdOf(a)} /\ IdOf(a) # 0
  BY DEF Deregisters
<1>2. issued[IdOf(a)] = a
  BY <1>1, IdShape
<1>3. ASSUME NEW b, b # a
      PROVE  IdOf(b)' = IdOf(b)
  <2>1. Live(b)' = Live(b)
    BY <1>1, <1>2, <1>3 DEF Live
  <2> QED
    BY <2>1, SameLive
<1> QED
  BY <1>1, <1>3

\* The parts of a session that is there.
LEMMA HeadShape ==
  ASSUME CliInv
  PROVE  /\ Len(heads) \in Nat /\ Serials = DOMAIN heads /\ Serials = 1 .. Len(heads)
         /\ \A s \in Serials : heads[s] \in HeadSet
BY DEF CliInv, CliTypeOK, Serials

\* The parts of a command.
LEMMA CmdShape ==
  ASSUME CliInv, NEW p \in Commands
  PROVE  cmd[p] \in CmdSet /\ during[p] \in DuringSet /\ CmdOK(cmd[p], during[p])
BY DEF CliInv, CliTypeOK, CmdsOK

-----------------------------------------------------------------------------
(* What was so stays said.                                                 *)

\* Sessions are added and never changed, numbers are added, and what is gone is gone.
Later ==
    /\ UNCHANGED scene
    /\ \A s \in Serials : s \in Serials' /\ heads'[s] = heads[s]
    /\ \A i \in DOMAIN issued : i \in DOMAIN issued' /\ issued'[i] = issued[i]
    /\ gone \subseteq gone'

\* A stage that the chain reached it has reached.
LEMMA StageLater ==
  ASSUME Later, NEW c, StageOK(c)
  PROVE  StageOK(c)'
BY DEF Later, StageOK, Numbered

\* A step that leaves the chain alone leaves a command what it noted.
LEMMA DuringLater ==
  ASSUME Later, UNCHANGED <<issued, revoked>>, NEW d, NEW s \in Serials, DuringOK(d, s)
  PROVE  DuringOK(d, s)'
<1>1. heads'[s] = heads[s]
  BY DEF Later
<1>2. IdOf(heads[s].addr)' = IdOf(heads[s].addr)
  BY <1>1, SameIds
<1> QED
  BY <1>1, <1>2 DEF Later, DuringOK, Noted

\* So it leaves a command as it is.
LEMMA CmdLater ==
  ASSUME Later, UNCHANGED <<issued, revoked>>, NEW k, NEW d, CmdOK(k, d)
  PROVE  CmdOK(k, d)'
<1>1. ASSUME k.pc # "idle"
      PROVE  RunOK(k, d)'
  <2>1. RunOK(k, d)
    BY <1>1 DEF CmdOK
  <2>2. StageOK(k.copy)' /\ DuringOK(d, k.copy.serial)'
    BY <2>1, StageLater, DuringLater DEF RunOK
  <2>3. k.copy.serial \in Serials' /\ heads'[k.copy.serial] = heads[k.copy.serial]
    BY <2>1 DEF RunOK, Later
  <2> QED
    BY <2>1, <2>2, <2>3 DEF RunOK, Later
<1>2. k.result = "done" => DoneOK(k, d)'
  BY DEF CmdOK, DoneOK, Later
<1> QED
  BY <1>1, <1>2 DEF CmdOK, Later

-----------------------------------------------------------------------------
(* A step of one command.                                                  *)

\* What a command may do to the file: nothing, or write its copy over it, with a callback
\* that it took in (in Python it may be another one) or without.
Written(p, c) ==
    /\ c \in SessionSet /\ StageOK(c) /\ c.serial = cmd[p].copy.serial
    /\ Save(p, c)
    /\ \/ taken' = taken /\ c.used = cmd[p].copy.used
       \/ Take(c.serial) /\ (scene.sdk # "py" => ~ cmd[p].copy.used /\ c.used)

FileStep(p) == UNCHANGED <<file, lost, taken>> \/ \E c \in SessionSet : Written(p, c)

\* A command that goes on with a record that is right keeps the invariant.
LEMMA CmdStepKeepsInv ==
  ASSUME CliInv, NEW p \in Commands, NEW new \in CmdSet, CmdOK(new, during[p]),
         cmd' = [cmd EXCEPT ![p] = new], cmd[p].pc # "idle",
         UNCHANGED <<scene, issued, revoked, now, heads, gone, during>>, FileStep(p)
  PROVE  CliInv'
<1>1. Later
  BY DEF Later, Serials
<1>2. /\ cmd \in [Commands -> CmdSet] /\ during \in [Commands -> DuringSet]
      /\ taken \in Seq(Nat) /\ lost \in BOOLEAN /\ file \in SessionSet
      /\ Len(taken) = Len(heads) /\ Len(heads) \in Nat /\ Serials = 1 .. Len(heads)
      /\ Serials' = Serials
  BY HeadShape DEF CliInv, CliTypeOK, TakenOK, Serials
<1>3. cmd' \in [Commands -> CmdSet]
  BY <1>2
<1>4. ASSUME NEW q \in Commands
      PROVE  CmdOK(cmd[q], during[q])'
  <2>1. PICK k \in CmdSet, d \in DuringSet : k = cmd'[q] /\ d = during'[q] /\ CmdOK(k, d)
    <3>1. CASE q = p
      BY <1>2, <3>1
    <3>2. CASE q # p
      BY <1>2, <3>2, CmdShape
    <3> QED
      BY <3>1, <3>2
  <2>2. CmdOK(k, d)'
    BY <1>1, <2>1, CmdLater
  <2> QED
    BY <2>1, <2>2
<1>5. GoneOK'
  <2> SUFFICES ASSUME NEW s \in Serials, IdOf(heads[s].addr)' = 0
               PROVE  s \in gone
    BY <1>2 DEF GoneOK
  <2>1. IdOf(heads[s].addr)' = IdOf(heads[s].addr)
    BY SameIds
  <2> QED
    BY <2>1 DEF CliInv, GoneOK
<1>6. CASE UNCHANGED <<file, lost, taken>>
  <2>1. FileOK'
    BY <1>1, <1>2, <1>6, StageLater DEF CliInv, FileOK
  <2>2. TakenOK'
    BY <1>2, <1>6 DEF CliInv, TakenOK
  <2> QED
    BY <1>2, <1>3, <1>4, <1>5, <1>6, <2>1, <2>2 DEF CliInv, CliTypeOK, CmdsOK
<1>7. CASE \E c \in SessionSet : Written(p, c)
  <2>1. PICK c \in SessionSet : Written(p, c)
    BY <1>7
  <2>2. PICK k \in CmdSet : k = cmd[p] /\ RunOK(k, during[p])
    BY CmdShape DEF CmdOK
  <2>3. /\ c.serial \in Serials /\ c.serial = k.copy.serial /\ StageOK(c)
        /\ file' = c /\ lost' = (lost \/ file # k.known)
    BY <2>1, <2>2 DEF Written, RunOK, Save
  <2>4. FileOK'
    <3>1. StageOK(c)'
      BY <1>1, <2>3, StageLater
    <3> QED
      BY <1>2, <2>3, <3>1 DEF FileOK
  <2>5. taken' \in Seq(Nat) /\ Len(taken') = Len(taken)
    BY SMTT(20), <1>2, <2>1 DEF Written, Take
  <2>6. ASSUME scene.sdk # "py", ~ lost'
        PROVE  \A s \in Serials : taken'[s] <= 1 /\ (s = c.serial /\ taken'[s] > 0 => c.used)
    <3>1. ~ lost /\ file = k.copy
      BY <2>2, <2>3, <2>6 DEF RunOK
    <3>2. \A s \in Serials : /\ taken[s] \in Nat /\ taken[s] <= 1
                             /\ s = c.serial /\ taken[s] > 0 => k.copy.used
      BY <1>2, <2>3, <2>6, <3>1 DEF CliInv, TakenOK
    <3>3. CASE taken' = taken /\ c.used = k.copy.used
      BY <3>2, <3>3
    <3>4. CASE Take(c.serial) /\ ~ k.copy.used /\ c.used
      <4>1. taken[c.serial] = 0
        BY <2>3, <3>2, <3>4
      <4>2. taken' = [taken EXCEPT ![c.serial] = 1]
        BY <3>4, <4>1 DEF Take
      <4> QED
        BY <1>2, <3>2, <3>4, <4>2
    <3> QED
      BY <2>1, <2>2, <2>6, <3>3, <3>4 DEF Written
  <2>7. TakenOK'
    BY <1>2, <2>3, <2>5, <2>6 DEF TakenOK
  <2>8. lost' \in BOOLEAN /\ file' \in SessionSet
    BY <2>3
  <2> QED
    BY <1>2, <1>3, <1>4, <1>5, <2>4, <2>5, <2>7, <2>8 DEF CliInv, CliTypeOK, CmdsOK
<1> QED
  BY <1>6, <1>7 DEF FileStep

\* What a command that runs knows.
LEMMA RunShape ==
  ASSUME CliInv, NEW p \in Commands, cmd[p].pc # "idle"
  PROVE  /\ cmd[p] \in CmdSet /\ RunOK(cmd[p], during[p]) /\ during[p] \in DuringSet
         /\ now \in Nat /\ scene.timeout \in Nat
BY CmdShape, Bounds DEF CmdOK, CliInv, CliTypeOK

\* A step that writes nothing and reads no more than the number.
LEMMA PlainKeepsInv ==
  ASSUME CliInv, NEW p \in Commands, NEW k \in CmdSet, k = cmd[p], k.pc # "idle",
         k.pc # "closing", NEW new \in CmdSet, new.pc \notin {"idle", "staged", "reached"},
         new.copy = k.copy, new.known = k.known, new.result = k.result,
         new.id = k.id, new.polled = k.polled,
         new.pc = "polling" /\ "id" \notin new.left => Noted(during[p], new.seen.id),
         cmd' = [cmd EXCEPT ![p] = new],
         UNCHANGED <<here, file, history>>
  PROVE  CliInv'
<1>1. RunOK(k, during[p])
  BY RunShape
<1>2. CmdOK(new, during[p])
  BY <1>1 DEF CmdOK, RunOK
<1> QED
  BY <1>2, CmdStepKeepsInv DEF here, chainVars, history, FileStep

\* A step of the page or of the clock.
LEMMA QuietKeepsInv ==
  ASSUME CliInv, UNCHANGED <<scene, chainVars, heads, file, cmd, history>>, now' \in Nat
  PROVE  CliInv'
<1>1. UNCHANGED <<scene, issued, revoked, heads, file, cmd, lost, during, gone, taken>>
  BY DEF chainVars, history
<1>2. Later /\ Serials' = Serials
  BY <1>1 DEF Later, Serials
<1>3. CmdsOK'
  BY <1>1, <1>2, CmdLater DEF CliInv, CmdsOK
<1>4. FileOK'
  BY <1>1, <1>2, StageLater DEF CliInv, FileOK
<1>5. GoneOK'
  <2> SUFFICES ASSUME NEW s \in Serials, IdOf(heads[s].addr)' = 0
               PROVE  s \in gone
    BY <1>1, <1>2 DEF GoneOK
  <2>1. IdOf(heads[s].addr)' = IdOf(heads[s].addr)
    BY <1>1, SameIds
  <2> QED
    BY <2>1 DEF CliInv, GoneOK
<1>6. TakenOK'
  BY <1>1, <1>2 DEF CliInv, TakenOK
<1> QED
  BY <1>1, <1>3, <1>4, <1>5, <1>6 DEF CliInv, CliTypeOK

\* A stage that says nothing of the chain.
LEMMA StageShape ==
  ASSUME NEW c \in SessionSet, StageOK(c),
         NEW st \in Stages \ {"onchain_verified", "onchain_deregistered"},
         NEW new, new = [c EXCEPT !.stage = st]
  PROVE  new \in SessionSet /\ StageOK(new) /\ new.serial = c.serial /\ new.used = c.used
<1>1. /\ new \in SessionSet /\ new.stage = st /\ new.serial = c.serial /\ new.used = c.used
      /\ new.id = c.id
  BY DEF SessionSet
<1>2. StageOK(new)
  BY <1>1 DEF StageOK
<1> QED
  BY <1>1, <1>2

\* A session with a callback.
LEMMA CallbackShape ==
  ASSUME NEW c \in SessionSet, StageOK(c), NEW status \in Statuses,
         NEW new, new = WithCallback(c, status)
  PROVE  new \in SessionSet /\ StageOK(new) /\ new.serial = c.serial /\ new.used
<1>1. /\ new \in SessionSet /\ new.stage \in {"failed", "callback_received"}
      /\ new.serial = c.serial /\ new.used /\ new.id = c.id
  BY DEF SessionSet, WithCallback, Stages
<1>2. StageOK(new)
  BY <1>1 DEF StageOK
<1> QED
  BY <1>1, <1>2

\* A session with the stage that the chain reached, by a number that was read.
LEMMA OnChainShape ==
  ASSUME NEW k \in CmdSet, NEW d \in DuringSet, RunOK(k, d), Noted(d, k.seen.id),
         Reached(heads[k.copy.serial].op, k.seen.verified, k.seen.id),
         NEW new, new = OnChain(heads[k.copy.serial].op, k.copy, k.seen.id)
  PROVE  /\ new \in SessionSet /\ StageOK(new) /\ new.serial = k.copy.serial
         /\ new.used = k.copy.used
<1> DEFINE s == k.copy.serial
           op == heads[s].op
<1>1. k.copy \in SessionSet /\ k.seen.id \in Nat /\ s \in Serials /\ DuringOK(d, s)
  BY DEF CmdSet, RunOK
<1>2. CASE op = "register"
  <2>1. /\ new = [k.copy EXCEPT !.stage = "onchain_verified", !.id = k.seen.id]
        /\ k.seen.id > 0
    BY <1>2 DEF OnChain, Reached
  <2>2. k.seen.id \in DOMAIN issued /\ issued[k.seen.id] = heads[s].addr
    BY <1>1, <2>1 DEF Noted, DuringOK
  <2>3. /\ new \in SessionSet /\ new.stage = "onchain_verified" /\ new.id = k.seen.id
        /\ new.serial = s /\ new.used = k.copy.used
    BY <1>1, <2>1 DEF SessionSet, Stages
  <2>4. StageOK(new)
    BY <1>1, <2>1, <2>2, <2>3 DEF StageOK
  <2> QED
    BY <2>3, <2>4
<1>3. CASE op # "register"
  <2>1. /\ new = [k.copy EXCEPT !.stage = "onchain_deregistered", !.id = 0]
        /\ k.seen.id = 0
    BY <1>3 DEF OnChain, Reached
  <2>2. s \in gone
    BY <1>1, <2>1 DEF Noted, DuringOK
  <2>3. /\ new \in SessionSet /\ new.stage = "onchain_deregistered" /\ new.id = 0
        /\ new.serial = s /\ new.used = k.copy.used
    BY <1>1, <2>1 DEF SessionSet, Stages
  <2>4. StageOK(new)
    BY <1>1, <2>2, <2>3 DEF StageOK
  <2> QED
    BY <2>3, <2>4
<1> QED
  BY <1>2, <1>3

\* What is left of a command that ended.
LEMMA EndShape ==
  ASSUME NEW k \in CmdSet, NEW result \in {"none", "opened", "done", "died"},
         NEW new, new = End(k, result)
  PROVE  /\ new \in CmdSet /\ new.pc = "idle" /\ ~ new.listening /\ new.result = result
         /\ new.copy.serial = k.copy.serial /\ new.id = k.id /\ new.polled = k.polled
         /\ new.error = k.error
<1>1. PICK c \in SessionSet : c = [NoSession EXCEPT !.serial = k.copy.serial]
  BY DEF NoSession, SessionSet, CmdSet, Stages
<1>2. c.serial = k.copy.serial
  BY <1>1 DEF NoSession
<1>3. End(k, result) = [Idle EXCEPT !.copy = c, !.id = k.id, !.polled = k.polled,
                                    !.error = k.error, !.result = result]
  BY <1>1 DEF End, Idle
<1>4. Idle \in CmdSet
  BY DEF Idle, CmdSet, NoSession, SessionSet, Phases, Stages
<1>5. Idle.pc = "idle" /\ ~ Idle.listening
  BY DEF Idle
<1> QED
  BY ZenonT(40), <1>2, <1>3, <1>4, <1>5 DEF CmdSet

\* A command ends; it reports success only with what it read.
LEMMA EndOK ==
  ASSUME NEW k \in CmdSet, NEW d \in DuringSet, RunOK(k, d),
         NEW c \in CmdSet, c.copy.serial = k.copy.serial, c.id = k.id, c.polled = k.polled,
         NEW result \in {"opened", "done", "died"},
         result = "done" => /\ Reached(heads[k.copy.serial].op, k.verified, k.id)
                            /\ scene.sdk = "py" => k.polled
                            /\ scene.sdk = "ts" => ~ c.error
  PROVE  CmdOK(End(c, result), d)
<1>1. PICK new \in CmdSet :
         /\ new = End(c, result) /\ new.pc = "idle" /\ ~ new.listening /\ new.result = result
         /\ new.copy.serial = k.copy.serial /\ new.id = k.id /\ new.polled = k.polled
         /\ new.error = c.error
  BY EndShape
<1>2. ASSUME result = "done"
      PROVE  DoneOK(new, d)
  <2>1. /\ k.copy.serial \in Serials
        /\ IF k.polled THEN Noted(d, k.id) ELSE k.id = 0
        /\ Reached(heads[k.copy.serial].op, k.verified, k.id)
        /\ scene.sdk = "py" => k.polled
    BY <1>2 DEF RunOK
  <2>2. CASE heads[k.copy.serial].op = "register"
    BY <1>1, <2>1, <2>2 DEF DoneOK, Reached, Noted
  <2>3. CASE heads[k.copy.serial].op # "register"
    BY <1>1, <2>1, <2>3 DEF DoneOK, Reached, Noted
  <2> QED
    BY <2>2, <2>3
<1>3. CmdOK(new, d)
  BY <1>1, <1>2 DEF CmdOK
<1> QED
  BY <1>1, <1>3

-----------------------------------------------------------------------------
(* The commands' own steps.                                                *)

\* A command that gives up writes a stage that says nothing of the chain, and ends.
LEMMA DieKeepsInv ==
  ASSUME CliInv, NEW p \in Commands, NEW k \in CmdSet, k = cmd[p], k.pc # "idle",
         NEW st \in Stages \ {"onchain_verified", "onchain_deregistered"},
         NEW c, c = [k.copy EXCEPT !.stage = st],
         NEW result \in {"opened", "died"},
         Save(p, c), cmd' = [cmd EXCEPT ![p] = End(Saved(p, c), result)],
         UNCHANGED <<here, during, gone, taken>>
  PROVE  CliInv'
<1>1. RunOK(k, during[p]) /\ during[p] \in DuringSet /\ k.copy \in SessionSet
  BY RunShape DEF CmdSet
<1>2. c \in SessionSet /\ StageOK(c) /\ c.serial = k.copy.serial /\ c.used = k.copy.used
  BY <1>1, StageShape DEF RunOK
<1> DEFINE saved == [k EXCEPT !.copy = c, !.known = c]
<1>3. /\ saved \in CmdSet /\ saved.copy = c /\ saved.id = k.id /\ saved.polled = k.polled
      /\ saved = Saved(p, c)
  BY <1>2 DEF CmdSet, Saved
<1> HIDE DEF saved
<1>4. PICK new \in CmdSet : new = End(saved, result)
  BY <1>3, EndShape
<1>5. CmdOK(new, during[p]) /\ cmd' = [cmd EXCEPT ![p] = new]
  <2>1. CmdOK(End(saved, result), during[p])
    BY <1>1, <1>2, <1>3, EndOK
  <2> QED
    BY <1>3, <1>4, <2>1
<1>6. FileStep(p)
  BY <1>2 DEF FileStep, Written
<1> QED
  BY <1>4, <1>5, <1>6, CmdStepKeepsInv DEF here, chainVars

\* Expired at once, or after the wait.
LEMMA ExpiryKeepsInv ==
  ASSUME CliInv, NEW p \in Commands, cmd[p].pc # "idle",
         Expired(p) \/ (GiveUp(p) /\ UNCHANGED <<here, during, gone, taken>>)
  PROVE  CliInv'
<1>1. PICK k \in CmdSet : k = cmd[p]
  BY RunShape
<1>2. PICK c : c = [k.copy EXCEPT !.stage = "expired"]
  OBVIOUS
<1>3. /\ Save(p, c) /\ cmd' = [cmd EXCEPT ![p] = End(Saved(p, c), "died")]
      /\ UNCHANGED <<here, during, gone, taken>>
  BY <1>1, <1>2 DEF Expired, GiveUp, Finish
<1> QED
  BY <1>1, <1>2, <1>3, DieKeepsInv DEF Stages

\* A command loads the session, opens it, or ends.
LEMMA LoadKeepsInv ==
  ASSUME CliInv, NEW p \in Commands, NEW pc \in {"open", "wait"}, Load(p, pc)
  PROVE  CliInv'
<1>1. /\ file \in SessionSet /\ file.serial # 0 /\ issued \in Seq(Addrs)
      /\ cmd \in [Commands -> CmdSet] /\ during \in [Commands -> DuringSet]
  BY DEF CliInv, CliTypeOK, Load
<1>2. file.serial \in Serials /\ StageOK(file)
  BY <1>1, HeadShape DEF CliInv, FileOK, SessionSet
<1>3. UNCHANGED <<scene, issued, revoked, now, heads, file, lost, gone, taken>>
  BY DEF Load, chainVars
<1>4. Later /\ Serials' = Serials
  BY <1>3 DEF Later, Serials
<1> DEFINE a == heads[file.serial].addr
<1>5. PICK id \in Nat : id = IdOf(a)
  BY <1>1, IdShape
<1>6. PICK off \in BOOLEAN : off = (id = 0)
  OBVIOUS
<1>7. PICK d \in DuringSet : d = [on |-> {id} \ {0}, off |-> off]
  BY DEF DuringSet
<1>8. DuringOK(d, file.serial)
  <2>1. \A i \in d.on : i \in DOMAIN issued /\ issued[i] = a
    BY <1>1, <1>5, <1>7, IdShape
  <2>2. d.off => file.serial \in gone
    BY <1>2, <1>5, <1>6, <1>7 DEF CliInv, GoneOK
  <2>3. Noted(d, id)
    BY <1>6, <1>7 DEF Noted
  <2> QED
    BY <1>5, <2>1, <2>2, <2>3 DEF DuringOK
<1>9. Idle \in CmdSet
  BY DEF Idle, CmdSet, NoSession, SessionSet, Phases, Stages
<1> DEFINE new == [Idle EXCEPT !.pc = pc, !.copy = file, !.known = file]
<1>10. /\ new \in CmdSet /\ new.pc = pc /\ new.copy = file /\ new.known = file
      /\ new.result = "none" /\ ~ new.polled /\ new.id = 0
  BY <1>1, <1>9 DEF CmdSet, Idle, Phases
<1>11. cmd' = [cmd EXCEPT ![p] = new] /\ during' = [during EXCEPT ![p] = d]
  BY <1>5, <1>6, <1>7 DEF Load
<1> HIDE DEF new
<1>12. CmdOK(new, d)
  BY <1>2, <1>8, <1>10 DEF CmdOK, RunOK
<1>13. ASSUME NEW q \in Commands
       PROVE  CmdOK(cmd[q], during[q])'
  <2>1. PICK k \in CmdSet, e \in DuringSet : k = cmd'[q] /\ e = during'[q] /\ CmdOK(k, e)
    <3>1. CASE q = p
      BY <1>1, <1>10, <1>11, <1>12, <3>1
    <3>2. CASE q # p
      BY <1>1, <1>11, <3>2, CmdShape
    <3> QED
      BY <3>1, <3>2
  <2>2. CmdOK(k, e)'
    BY <1>3, <1>4, <2>1, CmdLater
  <2> QED
    BY <2>1, <2>2
<1>14. FileOK'
  BY <1>3, <1>4, StageLater DEF CliInv, FileOK
<1>15. GoneOK'
  <2> SUFFICES ASSUME NEW s \in Serials, IdOf(heads[s].addr)' = 0
               PROVE  s \in gone
    BY <1>3, <1>4 DEF GoneOK
  <2>1. IdOf(heads[s].addr)' = IdOf(heads[s].addr)
    BY <1>3, SameIds
  <2> QED
    BY <2>1 DEF CliInv, GoneOK
<1>16. TakenOK'
  BY <1>3, <1>4 DEF CliInv, TakenOK
<1>17. CliTypeOK'
  BY <1>1, <1>3, <1>10, <1>11 DEF CliInv, CliTypeOK
<1> QED
  BY <1>13, <1>14, <1>15, <1>16, <1>17 DEF CliInv, CmdsOK

\* Once the session is handed off, "open" ends and "wait" goes on to its listener.
LEMMA HandOffKeepsInv ==
  ASSUME CliInv, NEW p \in Commands, cmd[p].pc \in {"open", "wait"}, HandOff(p),
         \/ cmd' = [cmd EXCEPT ![p] = End(Saved(p, file'), "opened")]
         \/ cmd' = [cmd EXCEPT ![p] = [Saved(p, file') EXCEPT !.pc = "listen"]],
         UNCHANGED <<here, during, gone, taken>>
  PROVE  CliInv'
<1>1. PICK k \in CmdSet : k = cmd[p] /\ RunOK(k, during[p])
  BY RunShape
<1>2. PICK c : c = [k.copy EXCEPT !.stage = "handoff_opened"]
  OBVIOUS
<1>3. Save(p, c) /\ file' = c
  BY <1>1, <1>2 DEF HandOff, Save
<1>4. CASE cmd' = [cmd EXCEPT ![p] = End(Saved(p, file'), "opened")]
  BY <1>1, <1>2, <1>3, <1>4, DieKeepsInv DEF Stages
<1>5. CASE cmd' = [cmd EXCEPT ![p] = [Saved(p, file') EXCEPT !.pc = "listen"]]
  <2>1. c \in SessionSet /\ StageOK(c) /\ c.serial = k.copy.serial /\ c.used = k.copy.used
    BY <1>1, <1>2, StageShape DEF CmdSet, Stages, RunOK
  <2> DEFINE new == [k EXCEPT !.copy = c, !.known = c, !.pc = "listen"]
  <2>2. /\ new \in CmdSet /\ new.copy = c /\ new.known = c /\ new.pc = "listen"
        /\ new.id = k.id /\ new.polled = k.polled /\ new.result = k.result
    BY <2>1 DEF CmdSet, Phases
  <2>3. cmd' = [cmd EXCEPT ![p] = new]
    BY <1>1, <1>3, <1>5 DEF Saved
  <2> HIDE DEF new
  <2>4. CmdOK(new, during[p])
    BY <1>1, <2>1, <2>2 DEF CmdOK, RunOK
  <2>5. FileStep(p)
    BY <1>1, <1>3, <2>1 DEF FileStep, Written
  <2> QED
    BY <2>2, <2>3, <2>4, <2>5, CmdStepKeepsInv DEF here, chainVars
<1> QED
  BY <1>4, <1>5

\* A command ends without a word to the file.
LEMMA EndKeepsInv ==
  ASSUME CliInv, NEW p \in Commands, NEW k \in CmdSet, k = cmd[p], k.pc # "idle",
         NEW result \in {"done", "died"}, Finish(p, cmd[p], result),
         result = "done" => /\ Reached(heads[k.copy.serial].op, k.verified, k.id)
                            /\ scene.sdk # "py" /\ (scene.sdk = "ts" => ~ k.error),
         UNCHANGED <<here, file, history>>
  PROVE  CliInv'
<1>1. RunOK(k, during[p]) /\ during[p] \in DuringSet
  BY RunShape
<1>2. PICK new \in CmdSet : new = End(k, result)
  BY EndShape
<1>3. CmdOK(End(k, result), during[p])
  BY <1>1, EndOK
<1>4. CmdOK(new, during[p]) /\ cmd' = [cmd EXCEPT ![p] = new]
  BY <1>2, <1>3 DEF Finish
<1> QED
  BY <1>4, CmdStepKeepsInv DEF here, chainVars, history, FileStep

\* A read tells the number that the agent has while the command runs.
LEMMA ReadKeepsInv ==
  ASSUME CliInv, NEW p \in Commands, NEW what \in {"verified", "id"}, Read(p, what)
  PROVE  CliInv'
<1>1. PICK k \in CmdSet : k = cmd[p] /\ k.pc = "polling" /\ RunOK(k, during[p])
  BY RunShape DEF Read
<1>2. PICK id \in Nat : id = IdOf(AddrOf(p)) /\ Noted(during[p], id)
  BY <1>1, IdShape DEF CliInv, CliTypeOK, RunOK, DuringOK, AddrOf
<1>3. PICK on \in BOOLEAN : on = (id # 0)
  OBVIOUS
<1>4. PICK left \in SUBSET {"verified", "id"} : left = k.left \ {what}
  BY DEF CmdSet
<1>5. UNCHANGED <<here, file, history>>
  BY DEF Read
<1>6. CASE what = "id"
  <2>1. PICK seen \in [verified : BOOLEAN, id : Nat] : seen = [k.seen EXCEPT !.id = id]
    BY DEF CmdSet
  <2>2. seen.id = id
    BY <2>1 DEF CmdSet
  <2> DEFINE new == [k EXCEPT !.left = left, !.seen = seen]
  <2>3. /\ new \in CmdSet /\ new.pc = k.pc /\ new.copy = k.copy /\ new.known = k.known
        /\ new.result = k.result /\ new.id = k.id /\ new.polled = k.polled /\ new.seen = seen
    BY DEF CmdSet
  <2>4. cmd' = [cmd EXCEPT ![p] = new]
    BY <1>1, <1>2, <1>4, <1>6, <2>1 DEF Read
  <2> HIDE DEF new
  <2> QED
    BY <1>1, <1>2, <1>5, <2>2, <2>3, <2>4, PlainKeepsInv
<1>7. CASE what = "verified"
  <2>1. PICK seen \in [verified : BOOLEAN, id : Nat] : seen = [k.seen EXCEPT !.verified = on]
    BY DEF CmdSet
  <2>2. seen.id = k.seen.id
    BY <2>1 DEF CmdSet
  <2> DEFINE new == [k EXCEPT !.left = left, !.seen = seen]
  <2>3. /\ new \in CmdSet /\ new.pc = k.pc /\ new.copy = k.copy /\ new.known = k.known
        /\ new.result = k.result /\ new.id = k.id /\ new.polled = k.polled /\ new.seen = seen
        /\ new.left = left
    BY DEF CmdSet
  <2>4. cmd' = [cmd EXCEPT ![p] = new]
    BY <1>1, <1>2, <1>3, <1>4, <1>7, <2>1 DEF Read
  <2> HIDE DEF new
  <2>5. "id" \notin new.left => Noted(during[p], new.seen.id)
    BY <1>1, <1>4, <1>7, <2>2, <2>3 DEF RunOK
  <2> QED
    BY <1>1, <1>5, <2>3, <2>4, <2>5, PlainKeepsInv
<1> QED
  BY <1>6, <1>7

\* The times that a wait sets are natural numbers.
LEMMA ClockShape ==
  ASSUME CliInv
  PROVE  now + scene.timeout \in Nat /\ now + Interval \in Nat
BY Bounds DEF CliInv, CliTypeOK

\* Listening, sleeping, waking, and a poll that begins or fails.
LEMMA PauseKeepsInv ==
  ASSUME CliInv, NEW p \in Commands, cmd[p].pc \notin {"idle", "closing"},
         UNCHANGED <<here, file, history>>,
         \/ \E pc \in {"listen", "head", "closing"} : Go(p, pc)
         \/ \E listening \in BOOLEAN :
               cmd' = [cmd EXCEPT ![p].listening = listening, ![p].pc = "head",
                                  ![p].deadline = now + scene.timeout]
         \/ cmd' = [cmd EXCEPT ![p] = Sleep(cmd[p])]
         \/ cmd' = [cmd EXCEPT ![p] = StartPoll(cmd[p])]
  PROVE  CliInv'
<1>1. PICK k \in CmdSet : k = cmd[p] /\ RunOK(k, during[p])
  BY RunShape
<1>2. k.pc # "idle" /\ k.pc # "closing"
  BY <1>1
<1> PICK deadline \in Nat : deadline = now + scene.timeout
  BY ClockShape
<1> PICK until \in Nat : until = now + Interval
  BY ClockShape
<1>3. CASE \E pc \in {"listen", "head", "closing"} : Go(p, pc)
  <2>1. PICK pc \in {"listen", "head", "closing"} : Go(p, pc)
    BY <1>3
  <2> DEFINE new == [k EXCEPT !.pc = pc]
  <2>2. /\ new \in CmdSet /\ new.pc = pc /\ new.copy = k.copy /\ new.known = k.known
        /\ new.result = k.result /\ new.id = k.id /\ new.polled = k.polled
    BY DEF CmdSet, Phases
  <2>3. cmd' = [cmd EXCEPT ![p] = new]
    BY <1>1, <2>1 DEF Go
  <2> HIDE DEF new
  <2> QED
    BY <1>1, <1>2, <2>2, <2>3, PlainKeepsInv
<1>4. CASE \E listening \in BOOLEAN :
             cmd' = [cmd EXCEPT ![p].listening = listening, ![p].pc = "head",
                                ![p].deadline = now + scene.timeout]
  <2>1. PICK listening \in BOOLEAN :
            cmd' = [cmd EXCEPT ![p].listening = listening, ![p].pc = "head",
                               ![p].deadline = now + scene.timeout]
    BY <1>4
  <2> DEFINE new == [k EXCEPT !.listening = listening, !.pc = "head", !.deadline = deadline]
  <2>3. /\ new \in CmdSet /\ new.pc = "head" /\ new.copy = k.copy /\ new.known = k.known
        /\ new.result = k.result /\ new.id = k.id /\ new.polled = k.polled
    BY DEF CmdSet, Phases
  <2>4. cmd' = [cmd EXCEPT ![p] = new]
    BY <1>1, <2>1
  <2> HIDE DEF new
  <2> QED
    BY <1>1, <1>2, <2>3, <2>4, PlainKeepsInv
<1>5. CASE cmd' = [cmd EXCEPT ![p] = Sleep(cmd[p])]
  <2> DEFINE new == [k EXCEPT !.pc = "sleep", !.until = until, !.left = {}]
  <2>2. /\ new \in CmdSet /\ new.pc = "sleep" /\ new.copy = k.copy /\ new.known = k.known
        /\ new.result = k.result /\ new.id = k.id /\ new.polled = k.polled
    BY DEF CmdSet, Phases
  <2>3. cmd' = [cmd EXCEPT ![p] = new]
    BY <1>1, <1>5 DEF Sleep
  <2> HIDE DEF new
  <2> QED
    BY <1>1, <1>2, <2>2, <2>3, PlainKeepsInv
<1>6. CASE cmd' = [cmd EXCEPT ![p] = StartPoll(cmd[p])]
  <2> DEFINE new == [k EXCEPT !.pc = "polling", !.left = {"verified", "id"}]
  <2>1. /\ new \in CmdSet /\ new.pc = "polling" /\ new.copy = k.copy /\ new.known = k.known
        /\ new.result = k.result /\ new.id = k.id /\ new.polled = k.polled
        /\ "id" \in new.left
    BY DEF CmdSet, Phases
  <2>2. cmd' = [cmd EXCEPT ![p] = new]
    BY <1>1, <1>6 DEF StartPoll
  <2> HIDE DEF new
  <2> QED
    BY <1>1, <1>2, <2>1, <2>2, PlainKeepsInv
<1> QED
  BY <1>3, <1>4, <1>5, <1>6

\* What a poll read stays with the command.
LEMMA NotYetKeepsInv ==
  ASSUME CliInv, NEW p \in Commands, NotYet(p)
  PROVE  CliInv'
<1>1. PICK k \in CmdSet : /\ k = cmd[p] /\ k.pc = "polling" /\ k.left = {}
                          /\ RunOK(k, during[p])
  BY RunShape DEF NotYet, Polled
<1>2. Noted(during[p], k.seen.id)
  BY <1>1 DEF RunOK
<1>3. PICK until \in Nat : until = now + Interval
  BY <1>1, RunShape, Bounds
<1> DEFINE new == [k EXCEPT !.verified = k.seen.verified, !.id = k.seen.id, !.polled = TRUE,
                            !.pc = "sleep", !.until = until, !.left = {}]
<1>4. /\ new \in CmdSet /\ new.pc = "sleep" /\ new.copy = k.copy /\ new.known = k.known
      /\ new.result = k.result /\ new.id = k.seen.id /\ new.polled
  BY DEF CmdSet, Phases
<1>5. cmd' = [cmd EXCEPT ![p] = new] /\ UNCHANGED <<here, file, history>>
  BY <1>1, <1>3 DEF NotYet, Sleep, Kept
<1> HIDE DEF new
<1>6. CmdOK(new, during[p])
  BY <1>1, <1>2, <1>4 DEF CmdOK, RunOK
<1> QED
  BY <1>1, <1>4, <1>5, <1>6, CmdStepKeepsInv DEF here, chainVars, history, FileStep

\* A poll that found what was waited for sets the stage and writes it.  (TypeScript, Rust)
LEMMA ReachedKeepsInv ==
  ASSUME CliInv, NEW p \in Commands, Polled(p),
         Reached(OpOf(p), cmd[p].seen.verified, cmd[p].seen.id),
         NEW c, c = OnChain(OpOf(p), cmd[p].copy, cmd[p].seen.id),
         Save(p, c),
         cmd' = [cmd EXCEPT ![p] = [Kept(p) EXCEPT !.copy = c, !.known = c, !.pc = "closing"]],
         UNCHANGED <<here, during, gone, taken>>
  PROVE  CliInv'
<1>1. PICK k \in CmdSet : /\ k = cmd[p] /\ k.pc = "polling" /\ k.left = {}
                          /\ RunOK(k, during[p])
  BY RunShape DEF Polled
<1>2. Noted(during[p], k.seen.id) /\ during[p] \in DuringSet
  BY <1>1, RunShape DEF RunOK
<1>3. /\ c \in SessionSet /\ StageOK(c) /\ c.serial = k.copy.serial /\ c.used = k.copy.used
  BY <1>1, <1>2, OnChainShape DEF OpOf
<1> DEFINE new == [k EXCEPT !.verified = k.seen.verified, !.id = k.seen.id, !.polled = TRUE,
                            !.copy = c, !.known = c, !.pc = "closing"]
<1>4. /\ new \in CmdSet /\ new.pc = "closing" /\ new.copy = c /\ new.known = c
      /\ new.result = k.result /\ new.id = k.seen.id /\ new.polled
  BY <1>3 DEF CmdSet, Phases
<1>5. cmd' = [cmd EXCEPT ![p] = new]
  BY <1>1 DEF Kept
<1> HIDE DEF new
<1>6. CmdOK(new, during[p])
  BY <1>1, <1>2, <1>3, <1>4 DEF CmdOK, RunOK
<1>7. FileStep(p)
  BY <1>1, <1>3 DEF FileStep, Written
<1> QED
  BY <1>1, <1>4, <1>5, <1>6, <1>7, CmdStepKeepsInv DEF here, chainVars

-----------------------------------------------------------------------------
(* The callbacks.                                                          *)

\* A listener belongs to a command that runs.
LEMMA ListenerShape ==
  ASSUME CliInv, NEW p \in Commands, NEW b \in Pages, NEW status \in Statuses,
         Request(p, b, status)
  PROVE  cmd[p].pc # "idle"
BY CmdShape DEF Request, CmdOK

\* A callback that is taken in: written with the stage it gives, by the listener itself, or
\* by the loop that picks it up.
LEMMA TakeInKeepsInv ==
  ASSUME CliInv, NEW p \in Commands, NEW k \in CmdSet, k = cmd[p], k.pc # "idle",
         NEW status \in Statuses, scene.sdk # "py", ~ k.copy.used,
         NEW c, c = WithCallback(k.copy, status), Save(p, c), Take(c.serial),
         UNCHANGED <<here, during, gone>>,
         \/ \E e \in BOOLEAN : cmd' = [cmd EXCEPT ![p] = [Saved(p, c) EXCEPT !.error = e]]
         \/ cmd' = [cmd EXCEPT ![p] = StartPoll(Saved(p, c))]
         \/ Finish(p, Saved(p, c), "died")
  PROVE  CliInv'
<1>1. RunOK(k, during[p]) /\ during[p] \in DuringSet /\ k.copy \in SessionSet
  BY RunShape DEF CmdSet
<1>2. c \in SessionSet /\ StageOK(c) /\ c.serial = k.copy.serial /\ c.used
  BY <1>1, CallbackShape DEF RunOK
<1>3. FileStep(p)
  BY <1>2 DEF FileStep, Written
<1> DEFINE saved == [k EXCEPT !.copy = c, !.known = c]
<1>4. /\ saved \in CmdSet /\ saved.copy = c /\ saved.known = c /\ saved.id = k.id
      /\ saved.polled = k.polled /\ saved.pc = k.pc /\ saved.result = k.result
      /\ saved.seen = k.seen /\ saved.left = k.left /\ saved.verified = k.verified
      /\ saved = Saved(p, c)
  BY <1>2 DEF CmdSet, Saved
<1> HIDE DEF saved
<1>5. ASSUME NEW new \in CmdSet, cmd' = [cmd EXCEPT ![p] = new],
             CmdOK(new, during[p])
      PROVE  CliInv'
  BY <1>3, <1>5, CmdStepKeepsInv DEF here, chainVars
<1>6. CASE \E e \in BOOLEAN : cmd' = [cmd EXCEPT ![p] = [Saved(p, c) EXCEPT !.error = e]]
  <2>1. PICK e \in BOOLEAN : cmd' = [cmd EXCEPT ![p] = [saved EXCEPT !.error = e]]
    BY <1>4, <1>6
  <2> DEFINE new == [saved EXCEPT !.error = e]
  <2>2. /\ new \in CmdSet /\ new.copy = c /\ new.known = c /\ new.id = k.id
        /\ new.polled = k.polled /\ new.pc = k.pc /\ new.result = k.result
        /\ new.seen = k.seen /\ new.left = k.left /\ new.verified = k.verified
    BY ZenonT(40), <1>4 DEF CmdSet
  <2>3. cmd' = [cmd EXCEPT ![p] = new]
    BY <2>1
  <2> HIDE DEF new
  <2>4. CmdOK(new, during[p])
    BY <1>1, <1>2, <2>2 DEF CmdOK, RunOK
  <2> QED
    BY <1>5, <2>2, <2>3, <2>4
<1>7. CASE cmd' = [cmd EXCEPT ![p] = StartPoll(Saved(p, c))]
  <2> DEFINE new == [saved EXCEPT !.pc = "polling", !.left = {"verified", "id"}]
  <2>1. /\ new \in CmdSet /\ new.copy = c /\ new.known = c /\ new.id = k.id
        /\ new.polled = k.polled /\ new.pc = "polling" /\ new.result = k.result
        /\ "id" \in new.left
    BY ZenonT(40), <1>4 DEF CmdSet, Phases
  <2>2. cmd' = [cmd EXCEPT ![p] = new]
    BY <1>4, <1>7 DEF StartPoll
  <2> HIDE DEF new
  <2>3. CmdOK(new, during[p])
    BY <1>1, <1>2, <2>1 DEF CmdOK, RunOK
  <2> QED
    BY <1>5, <2>1, <2>2, <2>3
<1>8. CASE Finish(p, Saved(p, c), "died")
  <2>1. PICK new \in CmdSet : new = End(saved, "died")
    BY <1>4, EndShape
  <2>2. CmdOK(End(saved, "died"), during[p])
    BY <1>1, <1>2, <1>4, EndOK
  <2>3. CmdOK(new, during[p]) /\ cmd' = [cmd EXCEPT ![p] = new]
    BY <1>4, <1>8, <2>1, <2>2 DEF Finish
  <2> QED
    BY <1>5, <2>3
<1> QED
  BY <1>6, <1>7, <1>8

\* A Python handler changes the dictionary, or writes it, whatever the loop is at.
LEMMA HandlerKeepsInv ==
  ASSUME CliInv, NEW p \in Commands, NEW k \in CmdSet, k = cmd[p], k.pc # "idle",
         scene.sdk = "py", NEW new \in CmdSet,
         StageOK(new.copy), new.copy.serial = k.copy.serial, new.pc = k.pc,
         new.result = k.result, new.id = k.id, new.polled = k.polled, new.seen = k.seen,
         new.left = k.left, new.verified = k.verified,
         cmd' = [cmd EXCEPT ![p] = new], UNCHANGED <<here, during, gone>>, FileStep(p)
  PROVE  CliInv'
<1>1. RunOK(k, during[p]) /\ (k.result = "done" => DoneOK(k, during[p]))
  BY RunShape, CmdShape DEF CmdOK
<1>2. CmdOK(new, during[p])
  BY <1>1 DEF CmdOK, RunOK, DoneOK
<1> QED
  BY <1>2, CmdStepKeepsInv DEF here, chainVars

\* A session that a handler marks.
LEMMA MarkShape ==
  ASSUME NEW c \in SessionSet, StageOK(c), NEW status \in Statuses,
         NEW new, new = [c EXCEPT !.used = TRUE, !.last = status]
  PROVE  new \in SessionSet /\ StageOK(new) /\ new.serial = c.serial
<1>1. /\ new \in SessionSet /\ new.stage = c.stage /\ new.serial = c.serial /\ new.id = c.id
  BY DEF SessionSet
<1>2. StageOK(new)
  BY <1>1 DEF StageOK
<1> QED
  BY <1>1, <1>2

\* The steps of a Python handler, one by one.
LEMMA PyCallbackKeepsInv ==
  ASSUME CliInv, NEW p \in Commands, NEW k \in CmdSet, k = cmd[p], k.pc # "idle",
         NEW b \in Pages, NEW status \in Statuses, scene.sdk = "py", PyCallback(p, b, status)
  PROVE  CliInv'
<1>1. RunOK(k, during[p]) /\ StageOK(k.copy) /\ k.copy \in SessionSet /\ now \in Nat
  BY RunShape DEF RunOK, CmdSet
<1> DEFINE c == WithCallback(k.copy, status)
<1>2. /\ c.used /\ c.last = status
      /\ c.stage \in Stages \ {"onchain_verified", "onchain_deregistered"}
  BY <1>1 DEF WithCallback, SessionSet, Stages
<1> HIDE DEF c
<1>3. CASE UNCHANGED <<here, file, cmd, history>>
  BY <1>1, <1>3, QuietKeepsInv DEF here
<1>4. CASE /\ cmd' = [cmd EXCEPT ![p].told = status, ![p].copy.used = c.used,
                                 ![p].copy.last = c.last]
           /\ UNCHANGED <<here, file, urls, history>>
  <2> DEFINE marked == [k.copy EXCEPT !.used = TRUE, !.last = status]
             new == [k EXCEPT !.told = status, !.copy = marked]
  <2>1. marked \in SessionSet /\ StageOK(marked) /\ marked.serial = k.copy.serial
    BY <1>1, MarkShape
  <2>2. cmd' = [cmd EXCEPT ![p] = new]
    BY <1>2, <1>4
  <2> HIDE DEF marked
  <2>3. /\ new \in CmdSet /\ new.copy = marked /\ new.pc = k.pc /\ new.result = k.result
        /\ new.id = k.id /\ new.polled = k.polled /\ new.seen = k.seen /\ new.left = k.left
        /\ new.verified = k.verified
    BY <2>1 DEF CmdSet
  <2> HIDE DEF new
  <2>4. UNCHANGED <<here, during, gone>> /\ FileStep(p)
    BY <1>4 DEF history, FileStep
  <2> QED
    BY <2>1, <2>2, <2>3, <2>4, HandlerKeepsInv
<1>5. CASE /\ cmd' = [cmd EXCEPT ![p].error = @ \/ status = "error", ![p].copy.stage = c.stage]
           /\ UNCHANGED <<here, file, urls, history>>
  <2>1. PICK e \in BOOLEAN : e = (k.error \/ status = "error")
    OBVIOUS
  <2>2. PICK st \in Stages \ {"onchain_verified", "onchain_deregistered"} : st = c.stage
    BY <1>2
  <2> DEFINE set == [k.copy EXCEPT !.stage = st]
             new == [k EXCEPT !.error = e, !.copy = set]
  <2>3. set \in SessionSet /\ StageOK(set) /\ set.serial = k.copy.serial
    BY <1>1, StageShape
  <2>4. cmd' = [cmd EXCEPT ![p] = new]
    BY <1>5, <2>1, <2>2
  <2> HIDE DEF set
  <2>5. /\ new \in CmdSet /\ new.copy = set /\ new.pc = k.pc /\ new.result = k.result
        /\ new.id = k.id /\ new.polled = k.polled /\ new.seen = k.seen /\ new.left = k.left
        /\ new.verified = k.verified
    BY <2>3 DEF CmdSet
  <2> HIDE DEF new
  <2>6. UNCHANGED <<here, during, gone>> /\ FileStep(p)
    BY <1>5 DEF history, FileStep
  <2> QED
    BY <2>3, <2>4, <2>5, <2>6, HandlerKeepsInv
<1>6. CASE /\ Matching(p, b, status) /\ Save(p, k.copy) /\ cmd' = [cmd EXCEPT ![p] = Saved(p, k.copy)]
           /\ Take(page[b].serial)
           /\ UNCHANGED <<here, urls, during, gone>>
  <2> DEFINE new == [k EXCEPT !.copy = k.copy, !.known = k.copy]
  <2>1. cmd' = [cmd EXCEPT ![p] = new]
    BY <1>6 DEF Saved
  <2>2. /\ new \in CmdSet /\ new.copy = k.copy /\ new.pc = k.pc /\ new.result = k.result
        /\ new.id = k.id /\ new.polled = k.polled /\ new.seen = k.seen /\ new.left = k.left
        /\ new.verified = k.verified
    BY <1>1 DEF CmdSet
  <2> HIDE DEF new
  <2>3. Take(k.copy.serial)
    BY <1>6 DEF Matching
  <2>4. FileStep(p)
    BY <1>1, <1>6, <2>3 DEF FileStep, Written
  <2> QED
    BY <1>1, <1>6, <2>1, <2>2, <2>4, HandlerKeepsInv
<1> QED
  BY <1>3, <1>4, <1>5, <1>6 DEF PyCallback, Mismatch, c

\* The request of a page is refused, put in a mailbox or taken in.
LEMMA CallbackKeepsInv ==
  ASSUME CliInv, NEW p \in Commands, Callbacks(p)
  PROVE  CliInv'
<1>1. PICK b \in Pages, status \in Statuses :
         \/ scene.sdk = "ts" /\ TsCallback(p, b, status)
         \/ scene.sdk = "rust" /\ RustCallback(p, b, status)
         \/ scene.sdk = "py" /\ PyCallback(p, b, status)
  BY DEF Callbacks
<1>2. cmd[p].pc # "idle"
  BY <1>1, ListenerShape DEF TsCallback, RustCallback, PyCallback, Mismatch, Matching
<1>3. PICK k \in CmdSet : k = cmd[p] /\ k.pc # "idle" /\ RunOK(k, during[p])
  BY <1>2, RunShape
<1>4. now \in Nat
  BY DEF CliInv, CliTypeOK
<1>5. PICK c : c = WithCallback(k.copy, status)
  OBVIOUS
<1>6. c.serial = k.copy.serial
  BY <1>3, <1>5, CallbackShape DEF CmdSet, RunOK
<1>7. CASE UNCHANGED <<here, file, cmd, history>>
  BY <1>4, <1>7, QuietKeepsInv DEF here
<1>8. CASE scene.sdk = "ts" /\ TsCallback(p, b, status) /\ ~ UNCHANGED <<here, file, cmd, history>>
  <2>1. /\ Matching(p, b, status) /\ ~ k.copy.used /\ Save(p, c)
        /\ cmd' = [cmd EXCEPT ![p] = [Saved(p, c) EXCEPT !.error = @ \/ status = "error"]]
        /\ Take(page[b].serial)
        /\ UNCHANGED <<here, urls, during, gone>>
    BY <1>3, <1>5, <1>8 DEF TsCallback, Mismatch
  <2>2. Take(c.serial)
    BY <1>3, <1>6, <2>1 DEF Matching
  <2>3. PICK e \in BOOLEAN : e = (k.error \/ status = "error")
    OBVIOUS
  <2>4. cmd' = [cmd EXCEPT ![p] = [Saved(p, c) EXCEPT !.error = e]]
    BY <1>3, <2>1, <2>3 DEF Saved
  <2> QED
    BY <1>3, <1>5, <1>8, <2>1, <2>2, <2>4, TakeInKeepsInv
<1>9. CASE scene.sdk = "rust" /\ RustCallback(p, b, status)
           /\ ~ UNCHANGED <<here, file, cmd, history>>
  <2>1. /\ cmd' = [cmd EXCEPT ![p].told = IF @ = "none" THEN status ELSE @]
        /\ UNCHANGED <<here, file, urls, history>>
    BY <1>9 DEF RustCallback, Mismatch
  <2>2. PICK told \in Statuses \cup {"none"} : told = IF k.told = "none" THEN status ELSE k.told
    BY DEF CmdSet
  <2> DEFINE new == [k EXCEPT !.told = told]
  <2>3. /\ new \in CmdSet /\ new.pc = k.pc /\ new.copy = k.copy /\ new.known = k.known
        /\ new.result = k.result /\ new.id = k.id /\ new.polled = k.polled
        /\ new.seen = k.seen /\ new.left = k.left /\ new.verified = k.verified
    BY DEF CmdSet
  <2>4. cmd' = [cmd EXCEPT ![p] = new]
    BY <1>3, <2>1, <2>2
  <2> HIDE DEF new
  <2>5. CmdOK(new, during[p])
    BY <1>3, <1>9, <2>3 DEF CmdOK, RunOK
  <2> QED
    BY <1>3, <2>1, <2>3, <2>4, <2>5, CmdStepKeepsInv DEF here, chainVars, history, FileStep
<1>10. CASE scene.sdk = "py" /\ PyCallback(p, b, status)
  BY <1>3, <1>10, PyCallbackKeepsInv
<1> QED
  BY <1>1, <1>7, <1>8, <1>9, <1>10

-----------------------------------------------------------------------------
(* The loops of the three tools.                                           *)

\* What the three have in common.
LEMMA SharedKeepsInv ==
  ASSUME CliInv, NEW p \in Commands,
         \/ BeginWait(p) \/ Open(p) \/ (\E what \in {"verified", "id"} : Read(p, what))
         \/ PollFails(p) \/ NotYet(p) \/ Wake(p)
         \/ (\E listening \in BOOLEAN : Listen(p, listening))
  PROVE  CliInv'
<1>1. CASE Load(p, "open") \/ Load(p, "wait")
  BY <1>1, LoadKeepsInv
<1>2. CASE Expired(p)
  BY <1>2, ExpiryKeepsInv DEF Expired
<1>3. CASE cmd[p].pc = "open" /\ Open(p) /\ ~ Expired(p)
  BY <1>3, HandOffKeepsInv DEF Open, Load
<1>4. CASE cmd[p].pc = "wait" /\ BeginWait(p)
  <2>1. CASE HandOff(p) /\ cmd' = [cmd EXCEPT ![p] = [Saved(p, file') EXCEPT !.pc = "listen"]]
             /\ UNCHANGED <<here, page, during, gone, taken>>
    BY <1>4, <2>1, HandOffKeepsInv
  <2>2. CASE Go(p, "listen") /\ UNCHANGED <<here, file, urls, page, history>>
    BY <1>4, <2>2, PauseKeepsInv
  <2> QED
    BY <1>4, <2>1, <2>2 DEF BeginWait, Load
<1>5. CASE \E what \in {"verified", "id"} : Read(p, what)
  BY <1>5, ReadKeepsInv
<1>6. CASE PollFails(p)
  BY <1>6, PauseKeepsInv DEF PollFails
<1>7. CASE NotYet(p)
  BY <1>7, NotYetKeepsInv
<1>8. CASE Wake(p)
  BY <1>8, PauseKeepsInv DEF Wake
<1>9. CASE \E listening \in BOOLEAN : Listen(p, listening)
  BY <1>9, PauseKeepsInv DEF Listen
<1> QED
  BY <1>1, <1>2, <1>3, <1>4, <1>5, <1>6, <1>7, <1>8, <1>9 DEF BeginWait, Open, Load

\* TypeScript: a port that is taken, a callback that is asked about last.
LEMMA TsKeepsInv ==
  ASSUME CliInv, NEW p \in Commands, TsWait(p)
  PROVE  CliInv'
<1>1. PICK k \in CmdSet : k = cmd[p]
  BY CmdShape
<1>2. scene.sdk = "ts"
  BY DEF TsWait
<1>3. CASE TsListen(p)
  <2>1. CASE \E listening \in BOOLEAN : Listen(p, listening)
    BY <2>1, SharedKeepsInv
  <2>2. CASE /\ k.pc = "listen" /\ Finish(p, cmd[p], "died")
             /\ UNCHANGED <<here, file, urls, history>>
    BY <1>1, <2>2, EndKeepsInv
  <2> QED
    BY <1>1, <1>3, <2>1, <2>2 DEF TsListen
<1>4. CASE TsHead(p)
  <2>1. Go(p, "closing") \/ cmd' = [cmd EXCEPT ![p] = StartPoll(cmd[p])]
    BY <1>4 DEF TsHead, Go
  <2> QED
    BY <1>4, <2>1, PauseKeepsInv DEF TsHead
<1>5. CASE TsReached(p)
  BY <1>5, ReachedKeepsInv DEF TsReached
<1>6. CASE TsEnd(p)
  <2>1. k.pc = "closing" /\ UNCHANGED <<here, urls, during, gone, taken>>
    BY <1>1, <1>6 DEF TsEnd
  <2>2. CASE k.error /\ Finish(p, cmd[p], "died") /\ UNCHANGED <<file, lost>>
    BY <1>1, <2>1, <2>2, EndKeepsInv DEF history
  <2>3. CASE /\ ~ k.error /\ Completed(p)
             /\ Finish(p, cmd[p], "done") /\ UNCHANGED <<file, lost>>
    BY <1>1, <1>2, <2>1, <2>3, EndKeepsInv DEF history, Completed, OpOf
  <2>4. CASE GiveUp(p)
    BY <1>1, <2>1, <2>4, ExpiryKeepsInv
  <2> QED
    BY <1>1, <1>6, <2>2, <2>3, <2>4 DEF TsEnd
<1> QED
  BY <1>3, <1>4, <1>5, <1>6, SharedKeepsInv DEF TsWait

\* Rust: the loop looks into the mailbox at its head.
LEMMA RustKeepsInv ==
  ASSUME CliInv, NEW p \in Commands, RustWait(p)
  PROVE  CliInv'
<1>1. PICK k \in CmdSet : k = cmd[p]
  BY CmdShape
<1>2. scene.sdk = "rust"
  BY DEF RustWait
<1>3. CASE RustListen(p) \/ RustRead(p)
  BY <1>3, SharedKeepsInv DEF RustListen, RustRead
<1>4. CASE RustHead(p)
  <2>1. k.pc = "head" /\ UNCHANGED <<here, urls, during, gone>>
    BY <1>1, <1>4 DEF RustHead
  <2>2. CASE Go(p, "closing") /\ UNCHANGED <<file, page, lost, taken>>
    BY <1>1, <2>1, <2>2, PauseKeepsInv DEF history
  <2>3. CASE cmd' = [cmd EXCEPT ![p] = StartPoll(cmd[p])] /\ UNCHANGED <<file, page, lost, taken>>
    BY <1>1, <2>1, <2>3, PauseKeepsInv DEF history
  <2>4. CASE \E c : /\ Heard(p) /\ c = WithCallback(k.copy, k.told)
                    /\ Save(p, c) /\ Take(c.serial)
                    /\ \/ Finish(p, Saved(p, c), "died")
                       \/ cmd' = [cmd EXCEPT ![p] = StartPoll(Saved(p, c))]
    <3>1. PICK status \in Statuses : status = k.told
      BY <1>1, <2>4 DEF Heard, CmdSet
    <3>2. PICK c : /\ ~ k.copy.used /\ c = WithCallback(k.copy, status)
                   /\ Save(p, c) /\ Take(c.serial)
                   /\ \/ Finish(p, Saved(p, c), "died")
                      \/ cmd' = [cmd EXCEPT ![p] = StartPoll(Saved(p, c))]
      BY <1>1, <2>4, <3>1 DEF Heard
    <3> QED
      BY <1>1, <1>2, <2>1, <3>2, TakeInKeepsInv
  <2> QED
    BY <1>1, <1>4, <2>2, <2>3, <2>4 DEF RustHead
<1>5. CASE RustReached(p)
  BY <1>5, ReachedKeepsInv DEF RustReached
<1>6. CASE RustEnd(p)
  <2>1. k.pc = "closing" /\ UNCHANGED <<here, urls, during, gone, taken>>
    BY <1>1, <1>6 DEF RustEnd
  <2>2. CASE Completed(p) /\ Finish(p, cmd[p], "done") /\ UNCHANGED <<file, lost>>
    BY <1>1, <1>2, <2>1, <2>2, EndKeepsInv DEF history, Completed, OpOf
  <2>3. CASE GiveUp(p)
    BY <1>1, <2>1, <2>3, ExpiryKeepsInv
  <2> QED
    BY <1>6, <2>2, <2>3 DEF RustEnd
<1> QED
  BY <1>3, <1>4, <1>5, <1>6, SharedKeepsInv DEF RustWait

\* What a Python loop makes of its dictionary, a line at a time.
LEMMA LoopKeepsInv ==
  ASSUME CliInv, NEW p \in Commands, NEW k \in CmdSet, k = cmd[p],
         k.pc \notin {"idle", "closing"}, scene.sdk = "py", NEW new \in CmdSet,
         new.pc \in {"staged", "reached", "failing"}, StageOK(new.copy),
         new.copy.serial = k.copy.serial, new.result = k.result,
         IF new.polled THEN Noted(during[p], new.id) ELSE new.id = 0,
         new.pc # "failing" => /\ new.polled
                               /\ Reached(heads[k.copy.serial].op, new.verified, new.id),
         cmd' = [cmd EXCEPT ![p] = new], UNCHANGED <<here, file, history>>
  PROVE  CliInv'
<1>1. RunOK(k, during[p])
  BY RunShape
<1>2. CmdOK(new, during[p])
  BY <1>1 DEF CmdOK, RunOK
<1> QED
  BY <1>2, CmdStepKeepsInv DEF here, chainVars, history, FileStep

\* The stage without the number: the agent has one.
LEMMA StagedShape ==
  ASSUME NEW k \in CmdSet, NEW d \in DuringSet, RunOK(k, d), Noted(d, k.seen.id),
         scene.sdk = "py", Reached(heads[k.copy.serial].op, k.seen.verified, k.seen.id),
         NEW st, st = OnChain(heads[k.copy.serial].op, k.copy, k.seen.id).stage,
         NEW new, new = [k.copy EXCEPT !.stage = st]
  PROVE  new \in SessionSet /\ StageOK(new) /\ new.serial = k.copy.serial
<1> DEFINE s == k.copy.serial
           op == heads[s].op
<1>1. /\ k.copy \in SessionSet /\ k.seen.id \in Nat /\ s \in Serials /\ DuringOK(d, s)
      /\ StageOK(k.copy)
  BY DEF CmdSet, RunOK
<1>2. st = IF op = "register" THEN "onchain_verified" ELSE "onchain_deregistered"
  BY <1>1 DEF OnChain, SessionSet
<1>3. /\ new \in SessionSet /\ new.stage = st /\ new.serial = s /\ new.id = k.copy.id
  BY <1>1, <1>2 DEF SessionSet, Stages
<1>4. new.id # 0 => new.id \in DOMAIN issued /\ issued[new.id] = heads[s].addr
  BY <1>1, <1>3 DEF StageOK
<1>5. CASE op = "register"
  <2>1. k.seen.id > 0
    BY <1>5 DEF Reached
  <2>2. k.seen.id \in DOMAIN issued /\ issued[k.seen.id] = heads[s].addr
    BY <1>1, <2>1 DEF Noted, DuringOK
  <2>3. Numbered(s)
    BY <2>2 DEF Numbered
  <2>4. new.stage # "onchain_deregistered"
    BY <1>2, <1>3, <1>5
  <2> QED
    BY <1>1, <1>3, <1>4, <2>3, <2>4 DEF StageOK
<1>6. CASE op # "register"
  <2>1. k.seen.id = 0 /\ new.stage # "onchain_verified"
    BY <1>2, <1>3, <1>6 DEF Reached
  <2>2. s \in gone
    BY <1>1, <2>1 DEF Noted, DuringOK
  <2> QED
    BY <1>1, <1>3, <1>4, <2>1, <2>2 DEF StageOK
<1> QED
  BY <1>5, <1>6

\* The number, whatever the stage is by then.
LEMMA NumberShape ==
  ASSUME NEW k \in CmdSet, NEW d \in DuringSet, RunOK(k, d), k.pc = "staged",
         scene.sdk = "py",
         NEW id, id = OnChain(heads[k.copy.serial].op, k.copy, k.id).id,
         NEW new, new = [k.copy EXCEPT !.id = id]
  PROVE  new \in SessionSet /\ StageOK(new) /\ new.serial = k.copy.serial
<1> DEFINE s == k.copy.serial
           op == heads[s].op
<1>1. /\ k.copy \in SessionSet /\ k.id \in Nat /\ s \in Serials /\ DuringOK(d, s)
      /\ StageOK(k.copy) /\ Noted(d, k.id) /\ Reached(op, k.verified, k.id)
  BY DEF CmdSet, RunOK
<1>2. id = IF op = "register" THEN k.id ELSE 0
  BY <1>1 DEF OnChain, SessionSet
<1>3. /\ new \in SessionSet /\ new.stage = k.copy.stage /\ new.serial = s /\ new.id = id
  BY <1>1, <1>2 DEF SessionSet
<1>4. id # 0 => id \in DOMAIN issued /\ issued[id] = heads[s].addr
  BY <1>1, <1>2 DEF Noted, DuringOK
<1>5. new.stage = "onchain_verified" => Numbered(s)
  BY <1>1, <1>3 DEF StageOK, Numbered
<1>6. new.stage = "onchain_deregistered" => s \in gone
  BY <1>1, <1>3 DEF StageOK
<1> QED
  BY <1>1, <1>3, <1>4, <1>5, <1>6 DEF StageOK

\* A Python command ends with what it reported.
LEMMA ExitKeepsInv ==
  ASSUME CliInv, NEW p \in Commands, NEW k \in CmdSet, k = cmd[p], k.pc # "idle",
         scene.sdk = "py", cmd' = [cmd EXCEPT ![p] = End(k, k.result)],
         UNCHANGED <<here, file, history>>
  PROVE  CliInv'
<1>1. k.result \in {"none", "opened", "done", "died"} /\ CmdOK(k, during[p])
  BY CmdShape DEF CmdSet
<1>2. PICK new \in CmdSet :
         /\ new = End(k, k.result) /\ new.pc = "idle" /\ ~ new.listening
         /\ new.result = k.result /\ new.copy.serial = k.copy.serial /\ new.id = k.id
         /\ new.polled = k.polled
  BY <1>1, EndShape
<1>3. CmdOK(new, during[p])
  BY <1>1, <1>2 DEF CmdOK, DoneOK
<1>4. cmd' = [cmd EXCEPT ![p] = new]
  BY <1>2
<1> QED
  BY <1>3, <1>4, CmdStepKeepsInv DEF here, chainVars, history, FileStep

\* Python: the stage, the number, the file and the end are steps of their own.
LEMMA PyKeepsInv ==
  ASSUME CliInv, NEW p \in Commands, PyWait(p)
  PROVE  CliInv'
<1>1. PICK k \in CmdSet : k = cmd[p] /\ CmdOK(k, during[p])
  BY CmdShape
<1>2. scene.sdk = "py" /\ during[p] \in DuringSet /\ k.copy \in SessionSet
  BY CmdShape DEF PyWait, CmdSet
<1>3. CASE PyListen(p) \/ RustRead(p)
  BY <1>3, SharedKeepsInv DEF PyListen, RustListen, RustRead
<1>4. CASE PyHead(p)
  <2>1. k.pc = "head" /\ RunOK(k, during[p]) /\ UNCHANGED <<here, file, history>>
    BY <1>1, <1>4 DEF PyHead, CmdOK
  <2>2. CASE cmd' = [cmd EXCEPT ![p] = StartPoll(cmd[p])]
    BY <1>1, <2>1, <2>2, PauseKeepsInv
  <2>3. ASSUME NEW st \in {"expired", "failed"},
               cmd' = [cmd EXCEPT ![p] = [cmd[p] EXCEPT !.copy.stage = st, !.pc = "failing"]]
        PROVE  CliInv'
    <3> DEFINE c == [k.copy EXCEPT !.stage = st]
               new == [k EXCEPT !.copy = c, !.pc = "failing"]
    <3>1. c \in SessionSet /\ StageOK(c) /\ c.serial = k.copy.serial
      BY <1>2, <2>1, StageShape DEF Stages, RunOK
    <3>2. cmd' = [cmd EXCEPT ![p] = new]
      BY <1>1, <2>3
    <3> HIDE DEF c
    <3>3. /\ new \in CmdSet /\ new.copy = c /\ new.pc = "failing" /\ new.result = k.result
          /\ new.id = k.id /\ new.polled = k.polled
      BY <3>1 DEF CmdSet, Phases
    <3> HIDE DEF new
    <3>4. IF new.polled THEN Noted(during[p], new.id) ELSE new.id = 0
      BY <2>1, <3>3 DEF RunOK
    <3> QED
      BY <1>1, <1>2, <2>1, <3>1, <3>2, <3>3, <3>4, LoopKeepsInv
  <2> QED
    BY <1>4, <2>2, <2>3 DEF PyHead
<1>5. CASE PyReached(p)
  <2>1. /\ k.pc = "polling" /\ k.left = {} /\ RunOK(k, during[p])
        /\ Reached(heads[k.copy.serial].op, k.seen.verified, k.seen.id)
        /\ UNCHANGED <<here, file, history>>
    BY <1>1, <1>5 DEF PyReached, Polled, CmdOK, OpOf
  <2>2. Noted(during[p], k.seen.id)
    BY <2>1 DEF RunOK
  <2>3. PICK st : st = OnChain(heads[k.copy.serial].op, k.copy, k.seen.id).stage
    OBVIOUS
  <2> DEFINE c == [k.copy EXCEPT !.stage = st]
             new == [k EXCEPT !.verified = k.seen.verified, !.id = k.seen.id, !.polled = TRUE,
                              !.copy = c, !.pc = "staged"]
  <2>4. c \in SessionSet /\ StageOK(c) /\ c.serial = k.copy.serial
    BY <1>2, <2>1, <2>2, <2>3, StagedShape
  <2>5. cmd' = [cmd EXCEPT ![p] = new]
    BY <1>1, <1>5, <2>3 DEF PyReached, Kept, OpOf
  <2> HIDE DEF c
  <2>6. /\ new \in CmdSet /\ new.copy = c /\ new.pc = "staged" /\ new.result = k.result
        /\ new.id = k.seen.id /\ new.polled /\ new.verified = k.seen.verified
    BY <2>4 DEF CmdSet, Phases
  <2> HIDE DEF new
  <2> QED
    BY <1>1, <1>2, <2>1, <2>2, <2>4, <2>5, <2>6, LoopKeepsInv
<1>6. CASE PyNumber(p)
  <2>1. k.pc = "staged" /\ RunOK(k, during[p]) /\ UNCHANGED <<here, file, history>>
    BY <1>1, <1>6 DEF PyNumber, CmdOK
  <2>2. /\ k.polled /\ Noted(during[p], k.id)
        /\ Reached(heads[k.copy.serial].op, k.verified, k.id)
    BY <2>1 DEF RunOK
  <2>3. PICK id : id = OnChain(heads[k.copy.serial].op, k.copy, k.id).id
    OBVIOUS
  <2> DEFINE c == [k.copy EXCEPT !.id = id]
             new == [k EXCEPT !.copy = c, !.pc = "reached"]
  <2>4. c \in SessionSet /\ StageOK(c) /\ c.serial = k.copy.serial
    BY <1>2, <2>1, <2>3, NumberShape
  <2>5. cmd' = [cmd EXCEPT ![p] = new]
    BY <1>1, <1>6, <2>3 DEF PyNumber, OpOf
  <2> HIDE DEF c
  <2>6. /\ new \in CmdSet /\ new.copy = c /\ new.pc = "reached" /\ new.result = k.result
        /\ new.id = k.id /\ new.polled = k.polled /\ new.verified = k.verified
    BY <2>4 DEF CmdSet, Phases
  <2> HIDE DEF new
  <2> QED
    BY <1>1, <1>2, <2>1, <2>2, <2>4, <2>5, <2>6, LoopKeepsInv
<1>7. CASE PySave(p)
  <2>1. /\ k.pc \in {"reached", "failing"} /\ RunOK(k, during[p]) /\ Save(p, k.copy)
        /\ UNCHANGED <<here, during, gone, taken>>
    BY <1>1, <1>7 DEF PySave, CmdOK
  <2>2. PICK result \in {"done", "died"} :
           result = IF k.pc = "reached" THEN "done" ELSE "died"
    OBVIOUS
  <2> DEFINE new == [k EXCEPT !.copy = k.copy, !.known = k.copy, !.pc = "closing",
                              !.result = result]
  <2>3. cmd' = [cmd EXCEPT ![p] = new]
    BY <1>1, <1>7, <2>2 DEF PySave, Saved
  <2>4. /\ new \in CmdSet /\ new.copy = k.copy /\ new.pc = "closing" /\ new.result = result
        /\ new.id = k.id /\ new.polled = k.polled
    BY <1>2 DEF CmdSet, Phases
  <2> HIDE DEF new
  <2>5. result = "done" => DoneOK(new, during[p])
    <3> SUFFICES ASSUME k.pc = "reached"
                 PROVE  DoneOK(new, during[p])
      BY <2>1, <2>2
    <3>1. /\ k.copy.serial \in Serials /\ Noted(during[p], k.id)
          /\ Reached(heads[k.copy.serial].op, k.verified, k.id)
      BY <2>1 DEF RunOK
    <3> QED
      BY <2>4, <3>1 DEF DoneOK, Reached, Noted
  <2>6. CmdOK(new, during[p])
    BY <1>2, <2>1, <2>4, <2>5 DEF CmdOK, RunOK
  <2>7. FileStep(p)
    BY <1>1, <1>2, <2>1 DEF FileStep, Written, RunOK
  <2> QED
    BY <1>1, <2>1, <2>3, <2>4, <2>6, <2>7, CmdStepKeepsInv DEF here, chainVars
<1>8. CASE PyExit(p)
  <2>1. /\ k.pc = "closing" /\ RunOK(k, during[p]) /\ UNCHANGED <<here, file, history>>
        /\ cmd' = [cmd EXCEPT ![p] = End(k, k.result)]
    BY <1>1, <1>8 DEF PyExit, CmdOK, Finish
  <2> QED
    BY <1>1, <1>2, <2>1, ExitKeepsInv
<1> QED
  BY <1>3, <1>4, <1>5, <1>6, <1>7, <1>8, SharedKeepsInv DEF PyWait

-----------------------------------------------------------------------------
(* "init", the page and the clock.                                         *)

\* What "init" settles is the head of a session.
LEMMA HeadMade ==
  ASSUME NEW op \in Operations, NEW mode \in Modes, NEW a \in Addrs \cup {NoAddr},
         NEW expires \in Nat
  PROVE  \E h \in HeadSet : /\ h = [op |-> op, mode |-> mode, addr |-> a, expires |-> expires]
                            /\ h.addr = a
<1> DEFINE h == [op |-> op, mode |-> mode, addr |-> a, expires |-> expires]
<1>1. h \in HeadSet
  BY DEF HeadSet
<1>2. h.addr = a
  OBVIOUS
<1> QED
  BY <1>1, <1>2

\* The file that "init" writes.
LEMMA FileMade ==
  ASSUME NEW serial \in Nat, NEW new, new = [NoSession EXCEPT !.serial = serial]
  PROVE  new \in SessionSet /\ new.serial = serial /\ new.stage = "initialized" /\ new.id = 0
BY DEF NoSession, SessionSet, Stages

\* A session is added, and the file says nothing but its number.
LEMMA InitSessionKeepsInv ==
  ASSUME CliInv, NEW op \in scene.ops, NEW mode \in scene.modes, NEW a \in Addrs \cup {NoAddr},
         InitSession(op, mode, a)
  PROVE  CliInv'
<1>1. /\ UNCHANGED <<scene, issued, revoked, now, cmd, lost, during>>
      /\ issued \in Seq(Addrs) /\ now \in Nat /\ heads \in Seq(HeadSet) /\ taken \in Seq(Nat)
      /\ Len(taken) = Len(heads)
  BY DEF InitSession, chainVars, CliInv, CliTypeOK, TakenOK
<1>2. op \in Operations /\ mode \in Modes
  BY Bounds DEF CliInv, CliTypeOK
<1>3. PICK expires \in Nat : expires = now + Ttl
  BY <1>1, Bounds
<1>4. PICK h \in HeadSet : /\ h = [op |-> op, mode |-> mode, addr |-> a, expires |-> expires]
                           /\ h.addr = a
  BY <1>2, HeadMade
<1>5. heads' = Append(heads, h)
  BY <1>3, <1>4 DEF InitSession
<1>6. PICK n \in Nat : n = Len(heads)
  BY <1>1
<1>7. /\ heads' \in Seq(HeadSet) /\ Len(heads') = n + 1 /\ heads'[n + 1] = h
      /\ \A s \in 1 .. n : heads'[s] = heads[s]
  BY <1>1, <1>5, <1>6
<1>8. /\ taken' = Append(taken, 0) /\ taken' \in Seq(Nat) /\ Len(taken') = n + 1
      /\ taken'[n + 1] = 0 /\ \A s \in 1 .. n : taken'[s] = taken[s]
  BY <1>1, <1>6 DEF InitSession
<1>9. Serials = 1 .. n /\ Serials' = 1 .. n + 1
  BY <1>6, <1>7 DEF Serials
<1>10. gone \subseteq gone' /\ (IdOf(a) = 0 => n + 1 \in gone')
  BY <1>7 DEF InitSession
<1>11. Later
  BY <1>1, <1>7, <1>9, <1>10 DEF Later
<1>12. PICK serial \in Nat : serial = n + 1
  OBVIOUS
<1>13. file' = [NoSession EXCEPT !.serial = serial]
  <2>1. file' = [NoSession EXCEPT !.serial = Len(heads')]
    BY DEF InitSession
  <2>2. Len(heads') = serial
    BY <1>7, <1>12
  <2> QED
    BY <2>1, <2>2
<1>14. /\ file' \in SessionSet /\ file'.serial = n + 1 /\ file'.stage = "initialized"
       /\ file'.id = 0
  BY <1>12, <1>13, FileMade
<1>15. FileOK'
  <2>1. StageOK(file)'
    BY <1>14 DEF StageOK
  <2> QED
    BY <1>7, <1>14, <2>1 DEF FileOK
<1>16. CmdsOK'
  BY <1>1, <1>11, CmdLater DEF CliInv, CmdsOK
<1>17. GoneOK'
  <2> SUFFICES ASSUME NEW s \in 1 .. n + 1, IdOf(heads[s].addr)' = 0
               PROVE  s \in gone'
    BY <1>9 DEF GoneOK
  <2>1. IdOf(heads'[s].addr) = 0
    BY <1>1 DEF IdOf
  <2>2. CASE s = n + 1
    BY <1>4, <1>7, <1>10, <2>1, <2>2
  <2>3. CASE s # n + 1
    <3>1. s \in 1 .. n
      BY <2>3
    <3> QED
      BY <1>7, <1>9, <1>10, <2>1, <3>1 DEF CliInv, GoneOK
  <2> QED
    BY <2>2, <2>3
<1>18. TakenOK'
  <2>1. Len(taken') = Len(heads')
    BY <1>7, <1>8
  <2> SUFFICES ASSUME scene.sdk # "py", ~ lost, NEW s \in 1 .. n + 1
               PROVE  taken'[s] <= 1 /\ (s = file'.serial /\ taken'[s] > 0 => file'.used)
    BY <1>1, <1>9, <2>1 DEF TakenOK
  <2>2. CASE s = n + 1
    BY <1>8, <2>2
  <2>3. CASE s # n + 1
    <3>1. s \in 1 .. n
      BY <2>3
    <3>2. taken[s] <= 1
      BY <1>9, <3>1 DEF CliInv, TakenOK
    <3> QED
      BY <1>8, <1>14, <2>3, <3>1, <3>2
  <2> QED
    BY <2>2, <2>3
<1>19. CliTypeOK'
  BY <1>1, <1>7, <1>8, <1>14 DEF CliInv, CliTypeOK
<1> QED
  BY <1>15, <1>16, <1>17, <1>18, <1>19 DEF CliInv

\* The page and the clock leave the commands and the chain alone.
LEMMA PageKeepsInv ==
  ASSUME CliInv, NEW b \in Pages,
         \/ \E s \in Serials : LoadPage(b, s)
         \/ PrepareSmartWallet(b) \/ Scan(b)
         \/ \E status \in Statuses : SelfSays(b, status)
  PROVE  CliInv'
<1>1. UNCHANGED elsewhere
  BY DEF LoadPage, PrepareSmartWallet, Scan, SelfSays
<1>2. now' \in Nat
  BY <1>1 DEF elsewhere, here, CliInv, CliTypeOK
<1> QED
  BY <1>1, <1>2, QuietKeepsInv DEF elsewhere, here

\* So does the clock.
LEMMA TickKeepsInv ==
  ASSUME CliInv, Tick
  PROVE  CliInv'
<1>1. now \in Nat /\ now' = now + 1
  BY DEF Tick, CliInv, CliTypeOK
<1>2. now' \in Nat
  BY <1>1
<1> QED
  BY <1>2, QuietKeepsInv DEF Tick

-----------------------------------------------------------------------------
(* The chain.                                                              *)

\* The number that an address has after it was issued or burnt.
LEMMA NumberAfter ==
  ASSUME issued' \in Seq(Addrs), NEW a
  PROVE  /\ IdOf(a)' \in Nat
         /\ IdOf(a)' # 0 => IdOf(a)' \in DOMAIN issued' /\ issued'[IdOf(a)'] = a
<1>1. IdOf(a)' = AnyOf(Live(a)')
  BY DEF IdOf, AnyOf, Live
<1>2. Live(a)' = {i \in 1 .. Len(issued') : issued'[i] = a /\ i \notin revoked'}
  BY DEF Live
<1>3. Len(issued') \in Nat /\ DOMAIN issued' = 1 .. Len(issued')
  OBVIOUS
<1>4. CASE Live(a)' = {}
  BY <1>1, <1>4 DEF AnyOf
<1>5. CASE Live(a)' # {}
  <2>1. IdOf(a)' \in Live(a)'
    BY <1>1, <1>5 DEF AnyOf
  <2> QED
    BY <1>2, <1>3, <2>1
<1> QED
  BY <1>4, <1>5

\* What a command noted of the chain, after the chain changed for address a and the
\* commands that wait for it saw the new number.
LEMMA ObservedOK ==
  ASSUME Later, NEW k \in CmdSet, NEW d \in DuringSet, CmdOK(k, d), NEW a, NEW id,
         id = IdOf(a)', id # 0 => id \in DOMAIN issued' /\ issued'[id] = a,
         \A b : b # a => IdOf(b)' = IdOf(b),
         gone' = gone \cup {s \in Serials : heads[s].addr = a /\ id = 0},
         NEW e \in DuringSet,
         IF k.pc # "idle" /\ heads[k.copy.serial].addr = a
            THEN e = [on |-> d.on \cup ({id} \ {0}), off |-> d.off \/ id = 0]
            ELSE e = d
  PROVE  CmdOK(k, e)'
<1>1. CASE k.pc = "idle"
  BY <1>1 DEF CmdOK, DoneOK, Later
<1>2. CASE k.pc # "idle"
  <2> DEFINE s == k.copy.serial
  <2>1. RunOK(k, d) /\ s \in Serials /\ DuringOK(d, s) /\ s \in Serials' /\ heads'[s] = heads[s]
    BY <1>2 DEF CmdOK, RunOK, Later
  <2>2. d.on \subseteq e.on /\ (d.off => e.off)
    <3>1. CASE heads[s].addr = a
      BY <1>2, <3>1 DEF DuringSet
    <3>2. CASE heads[s].addr # a
      BY <1>2, <3>2
    <3> QED
      BY <3>1, <3>2
  <2>3. DuringOK(e, s)'
    <3>1. CASE heads[s].addr = a
      <4>1. e = [on |-> d.on \cup ({id} \ {0}), off |-> d.off \/ id = 0]
        BY <1>2, <3>1
      <4>2. e.on = d.on \cup ({id} \ {0})
        BY <4>1
      <4>3. e.off = (d.off \/ id = 0)
        BY <4>1
      <4>4. \A i \in d.on : i \in DOMAIN issued' /\ issued'[i] = a
        BY <2>1, <3>1 DEF DuringOK, Later
      <4>5. \A i \in e.on : i \in DOMAIN issued' /\ issued'[i] = a
        BY <4>2, <4>4
      <4>6. e.off => s \in gone'
        BY <2>1, <3>1, <4>3 DEF DuringOK
      <4>7. Noted(e, id)
        BY <4>2, <4>3 DEF Noted
      <4> QED
        BY <2>1, <3>1, <4>5, <4>6, <4>7 DEF DuringOK
    <3>2. CASE heads[s].addr # a
      <4>1. e = d
        BY <3>2
      <4>2. heads'[s].addr # a /\ IdOf(heads[s].addr)' = IdOf(heads[s].addr)
        BY <2>1, <3>2
      <4> QED
        BY <2>1, <4>1, <4>2 DEF DuringOK, Later, Noted
    <3> QED
      BY <3>1, <3>2
  <2>4. StageOK(k.copy)'
    BY <2>1, StageLater DEF RunOK
  <2>5. /\ k.pc = "polling" /\ "id" \notin k.left => Noted(e, k.seen.id)
        /\ IF k.polled THEN Noted(e, k.id) ELSE k.id = 0
    BY <2>1, <2>2 DEF RunOK, Noted
  <2>6. RunOK(k, e)'
    BY <2>1, <2>3, <2>4, <2>5 DEF RunOK, Later
  <2>7. k.result = "done" => DoneOK(k, e)'
    BY <2>1, <2>2 DEF CmdOK, DoneOK, Later
  <2> QED
    BY <1>2, <2>6, <2>7 DEF CmdOK, Later
<1> QED
  BY <1>1, <1>2

\* A registration or a deregistration, whoever made it.
LEMMA ChainKeepsInv ==
  ASSUME CliInv, NEW a \in Addrs, Registers(a) \/ Deregisters(a),
         UNCHANGED <<scene, now, heads, file, cmd, lost, taken>>
  PROVE  CliInv'
<1>1. /\ issued \in Seq(Addrs) /\ during \in [Commands -> DuringSet]
      /\ cmd \in [Commands -> CmdSet]
  BY DEF CliInv, CliTypeOK
<1>2. /\ issued' \in Seq(Addrs)
      /\ \A i \in DOMAIN issued : i \in DOMAIN issued' /\ issued'[i] = issued[i]
      /\ \A b : b # a => IdOf(b)' = IdOf(b)
  BY <1>1, RegistersShape, DeregistersShape
<1>3. PICK id \in Nat : /\ id = IdOf(a)'
                        /\ id # 0 => id \in DOMAIN issued' /\ issued'[id] = a
  BY <1>2, NumberAfter
<1>4. /\ during' = [p \in Commands |->
                       IF cmd[p].pc # "idle" /\ AddrOf(p) = a
                       THEN [on |-> during[p].on \cup ({id} \ {0}), off |-> during[p].off \/ id = 0]
                       ELSE during[p]]
      /\ gone' = gone \cup {s \in Serials : heads[s].addr = a /\ id = 0}
  BY <1>3 DEF Registers, Deregisters, Observe
<1>5. Serials' = Serials
  BY DEF Serials
<1>6. Later
  BY <1>2, <1>4, <1>5 DEF Later
<1>7. ASSUME NEW p \in Commands
      PROVE  during'[p] \in DuringSet /\ CmdOK(cmd[p], during[p])'
  <2>1. PICK k \in CmdSet, d \in DuringSet : k = cmd[p] /\ d = during[p] /\ CmdOK(k, d)
    BY CmdShape
  <2>2. PICK off \in BOOLEAN : off = (d.off \/ id = 0)
    OBVIOUS
  <2>3. PICK seen \in DuringSet : /\ seen = [on |-> d.on \cup ({id} \ {0}), off |-> off]
    BY DEF DuringSet
  <2>4. PICK e \in DuringSet :
           /\ e = during'[p]
           /\ IF k.pc # "idle" /\ heads[k.copy.serial].addr = a
              THEN e = [on |-> d.on \cup ({id} \ {0}), off |-> d.off \/ id = 0]
              ELSE e = d
    BY <1>4, <2>1, <2>2, <2>3 DEF AddrOf
  <2>5. CmdOK(k, e)'
    BY <1>2, <1>3, <1>4, <1>6, <2>1, <2>4, ObservedOK
  <2> QED
    BY <2>1, <2>4, <2>5
<1>8. during' \in [Commands -> DuringSet]
  BY <1>4, <1>7
<1>9. CmdsOK'
  BY <1>7 DEF CmdsOK
<1>10. FileOK'
  BY <1>6, StageLater DEF CliInv, FileOK
<1>11. GoneOK'
  <2> SUFFICES ASSUME NEW s \in Serials, IdOf(heads[s].addr)' = 0
               PROVE  s \in gone'
    BY <1>5 DEF GoneOK
  <2>1. CASE heads[s].addr = a
    BY <1>3, <1>4, <2>1
  <2>2. CASE heads[s].addr # a
    BY <1>2, <1>4, <2>2 DEF CliInv, GoneOK
  <2> QED
    BY <2>1, <2>2
<1>12. TakenOK'
  BY <1>5 DEF CliInv, TakenOK
<1>13. CliTypeOK'
  BY <1>2, <1>8 DEF CliInv, CliTypeOK
<1> QED
  BY <1>9, <1>10, <1>11, <1>12, <1>13 DEF CliInv

-----------------------------------------------------------------------------
(* The theorems.                                                           *)

\* At the start no command runs and the file holds no session.
LEMMA InitOK == Init => CliInv
<1> SUFFICES ASSUME Init
             PROVE  CliInv
  OBVIOUS
<1>1. Idle \in CmdSet /\ NoSession \in SessionSet
  BY DEF Idle, CmdSet, NoSession, SessionSet, Phases, Stages
<1>2. Len(heads) = 0 /\ Len(taken) = 0 /\ Serials = {}
  BY DEF Init, Serials
<1>3. CliTypeOK
  <2>1. scene \in Scenes /\ issued \in Seq(Addrs) /\ now \in Nat /\ lost \in BOOLEAN
    BY Bounds DEF Init
  <2>2. heads \in Seq(HeadSet) /\ taken \in Seq(Nat)
    BY DEF Init
  <2>3. file \in SessionSet /\ cmd \in [Commands -> CmdSet]
    BY <1>1 DEF Init
  <2>4. during \in [Commands -> DuringSet]
    BY DEF Init, DuringSet
  <2> QED
    BY <2>1, <2>2, <2>3, <2>4 DEF CliTypeOK
<1>4. CmdsOK
  BY DEF Init, CmdsOK, CmdOK, Idle
<1>5. FileOK
  BY <1>2 DEF Init, FileOK, StageOK, NoSession
<1> QED
  BY <1>2, <1>3, <1>4, <1>5 DEF CliInv, GoneOK, TakenOK

\* Every step keeps the invariant.
LEMMA NextKeepsInv == CliInv /\ [Next]_vars => CliInv'
<1> SUFFICES ASSUME CliInv, [Next]_vars
             PROVE  CliInv'
  OBVIOUS
<1>1. CASE UNCHANGED vars
  <2>1. now' \in Nat
    BY <1>1 DEF vars, CliInv, CliTypeOK
  <2> QED
    BY <1>1, <2>1, QuietKeepsInv DEF vars
<1>2. ASSUME NEW op \in scene.ops, NEW mode \in scene.modes, NEW a \in Addrs \cup {NoAddr},
             TsInit(op, mode, a) \/ RustInit(op, mode, a) \/ PyInit(op, mode, a)
      PROVE  CliInv'
  BY <1>2, InitSessionKeepsInv DEF TsInit, RustInit, PyInit
<1>3. ASSUME NEW p \in Commands,
             TsOpen(p) \/ RustOpen(p) \/ PyOpen(p) \/ Loop(p) \/ Callbacks(p)
      PROVE  CliInv'
  BY <1>3, SharedKeepsInv, TsKeepsInv, RustKeepsInv, PyKeepsInv, CallbackKeepsInv
     DEF TsOpen, RustOpen, PyOpen, Loop
<1>4. ASSUME NEW b \in Pages,
             \/ \E s \in Serials : LoadPage(b, s)
             \/ PrepareSmartWallet(b) \/ Scan(b)
             \/ \E status \in Statuses : SelfSays(b, status)
      PROVE  CliInv'
  BY <1>4, PageKeepsInv
<1>5. ASSUME NEW b \in Pages, Lands(b)
      PROVE  CliInv'
  BY <1>5, ChainKeepsInv DEF Lands
<1>6. ASSUME NEW a \in Addrs, Others(a)
      PROVE  CliInv'
  BY <1>6, ChainKeepsInv DEF Others
<1>7. CASE Tick
  BY <1>7, TickKeepsInv
<1> QED
  BY <1>1, <1>2, <1>3, <1>4, <1>5, <1>6, <1>7 DEF Next

\* The invariant of the sessions of the command line tools: their types, what a command
\* knows while it runs and when it ends, what the file says of the chain, and which
\* sessions took a callback in.
THEOREM CliCorrect == Spec => []CliInv
BY InitOK, NextKeepsInv, PTL DEF Spec

\* A "wait" that reports success saw what it reports while it ran.
THEOREM DoneCorrect == Spec => []DoneWasTrue
<1>1. CliInv => DoneWasTrue
  BY DEF CliInv, CmdsOK, CmdOK, DoneOK, DoneWasTrue, OpOf
<1> QED
  BY <1>1, CliCorrect, PTL

\* What the session file says of the chain was so, whichever command wrote it last.
THEOREM StageCorrect == Spec => []StageWasTrue
<1>1. CliInv => StageWasTrue
  <2> SUFFICES ASSUME CliInv
               PROVE  StageWasTrue
    OBVIOUS
  <2>1. StageOK(file)
    BY DEF CliInv, FileOK
  <2>2. ASSUME file.stage = "onchain_verified"
        PROVE  \E i \in DOMAIN issued : /\ issued[i] = heads[file.serial].addr
                                        /\ file.id = i \/ (scene.sdk = "py" /\ file.id = 0)
    <3>1. CASE file.id # 0
      BY <2>1, <3>1 DEF StageOK
    <3>2. CASE file.id = 0
      BY <2>1, <2>2, <3>2 DEF StageOK, Numbered
    <3> QED
      BY <3>1, <3>2
  <2> QED
    BY <2>1, <2>2 DEF StageOK, StageWasTrue
<1> QED
  BY <1>1, CliCorrect, PTL

\* A session takes in one callback as long as no command wrote over another's writing.
THEOREM CallbackCorrect == Spec => []CallbackOnce
<1>1. CliInv => CallbackOnce
  BY DEF CliInv, TakenOK, CallbackOnce
<1> QED
  BY <1>1, CliCorrect, PTL

\* A TypeScript "wait" that took in an error of the page does not report success.
THEOREM ErrorCorrect == Spec => []ErrorIsFatal
<1>1. CliInv => ErrorIsFatal
  BY DEF CliInv, CmdsOK, CmdOK, ErrorIsFatal
<1> QED
  BY <1>1, CliCorrect, PTL
=============================================================================
