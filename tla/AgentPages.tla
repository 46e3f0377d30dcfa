---------------------------- MODULE AgentPages ----------------------------
(***************************************************************************)
(* The pages "My Agents" and "Verify" of the web front end.                *)
(*                                                                         *)
(* A lookup is a chain of reads of the registry with an "await" after      *)
(* each.  The registry changes between the reads, and nothing stops a      *)
(* second lookup from starting before the first has ended: tabs, the Enter *)
(* key, pollers and the reload after a transaction all start one.  Every   *)
(* lookup empties the list when it starts and fills it when it ends.       *)
(*                                                                         *)
(* "list.of" is a record for the properties of what the list answers: the  *)
(* kind of lookup, its argument, the height at its start, and whether a    *)
(* read failed on the way and was skipped.                                 *)
(***************************************************************************)
EXTENDS Browser

VARIABLES
  mine,          \* the state of "My Agents"
  polls,         \* intervals of "My Agents" that are running
  ver            \* the state of "Verify"

pagesVars == <<mine, polls, ver>>

Tabs == {"wallet", "key", "passkey", "privy", "passport"}

NoList == [shown |-> {}, of |-> None]

PagesInit ==
  /\ mine = [tab |-> "wallet", list |-> NoList, loading |-> FALSE, wallet |-> None,
             smart |-> None, social |-> None, revoking |-> 0, minting |-> 0,
             siblings |-> NoList, siblingsOf |-> 0, siblingsLoading |-> FALSE,
             refreshing |-> 0, refreshPoll |-> 0, identifyPoll |-> 0, sessions |-> 0]
  /\ polls = {}
  /\ ver = [resolved |-> None, info |-> None, loading |-> FALSE, wallet |-> None,
            app |-> None, revoking |-> FALSE]

------------------------------------------------------------------------------
(* Lookups.                                                                *)

\* A lookup at its first read.  "then" is what its caller does after it.
Lookup(by, arg, first, then) ==
  [kind |-> "load", by |-> by, arg |-> arg, at |-> first, since |-> height, latest |-> 0,
   todo |-> {}, found |-> {}, verified |-> FALSE, failed |-> FALSE, all |-> FALSE,
   then |-> then]

Emptied == [mine EXCEPT !.loading = TRUE, !.list = NoList]

LoadAgentsByOwner(n, page, owner, then) ==
  /\ mine' = page
  /\ Run(n, Lookup("owner", owner, "simple", then))

LoadAgentsByGuardian(n, page, guardian, then) ==
  /\ mine' = page
  /\ Run(n, Lookup("guardian", guardian, "latest", then))

LoadAgentsByNullifier(n, page, human) ==
  /\ mine' = page
  /\ Run(n, Lookup("human", human, "ids", "nothing"))

\* What the caller of a lookup clears when the lookup has ended.
Cleared(page, j) ==
  [page EXCEPT !.revoking = IF j.then = "revoking" THEN 0 ELSE @,
               !.minting = IF j.then = "minting" THEN 0 ELSE @]

Answer(j) == [shown |-> j.found,
              of |-> [by |-> j.by, arg |-> j.arg, since |-> j.since, whole |-> ~ j.failed]]

\* The list is filled, or the siblings' panel.
ShowResult(n, j) ==
  /\ \/ /\ j.by = "siblings"
        /\ mine' = [mine EXCEPT !.siblings = Answer(j), !.siblingsLoading = FALSE]
     \/ /\ j.by # "siblings"
        /\ mine' = Cleared([mine EXCEPT !.list = Answer(j), !.loading = FALSE], j)
  /\ Done(n)

\* A read outside the per-agent try: the list stays as it is.
GiveUp(n, j) ==
  /\ mine' = IF j.by = "siblings" THEN [mine EXCEPT !.siblingsLoading = FALSE]
             ELSE Cleared([mine EXCEPT !.loading = FALSE], j)
  /\ Done(n)

\* To the next agent, to the next stage, or to the end.
Proceed(n, j) ==
  \/ j.todo # {} /\ Run(n, [j EXCEPT !.at = "check"]) /\ UNCHANGED mine
  \/ j.todo = {} /\ j.by = "owner" /\ ~ j.all
     /\ Run(n, [j EXCEPT !.at = "balance"]) /\ UNCHANGED mine
  \/ j.todo = {} /\ (j.by # "owner" \/ j.all) /\ ShowResult(n, j)

NextId(j) == CHOOSE id \in j.todo : \A other \in j.todo : id <= other

\* getAgentId(zeroPadValue(owner)): the owner may be its own agent.
ReadSimple(n) ==
  /\ At(n, "load") /\ job[n].at = "simple"
  /\ \/ Proceed(n, [job[n] EXCEPT !.todo = {a.id : a \in {b \in Alive : b.key = job[n].arg}}])
     \/ scene.faults /\ GiveUp(n, job[n])

\* balanceOf: the scan is left out when the fast path found them all.
ReadBalance(n) ==
  /\ At(n, "load") /\ job[n].at = "balance"
  /\ LET j == job[n]
         balance == Cardinality({a \in Alive : a.owner = j.arg})
     IN \/ balance > Cardinality(j.found)
           /\ Run(n, [j EXCEPT !.at = "latest"]) /\ UNCHANGED mine
        \/ balance <= Cardinality(j.found) /\ ShowResult(n, j)
        \/ scene.faults /\ GiveUp(n, j)

\* paginatedQueryFilter, first its last block.
ReadLatestBlock(n) ==
  /\ At(n, "load") /\ job[n].at = "latest"
  /\ \/ Run(n, [job[n] EXCEPT !.at = "events", !.latest = height]) /\ UNCHANGED mine
     \/ scene.faults /\ GiveUp(n, job[n])

\* Then its windows.  Without a floor, which only the guardian's scan passes,
\* mints of more than a million blocks ago (scene.ancient) are not seen.
MintEvents(j) ==
  {a \in agents : /\ a.born <= j.latest
                  /\ j.by = "owner" => a.owner = j.arg /\ a.id \notin scene.ancient}

ReadEvents(n) ==
  /\ At(n, "load") /\ job[n].at = "events"
  /\ LET j == job[n]
         known == {e.id : e \in j.found}
     IN \/ Proceed(n, [j EXCEPT !.all = TRUE, !.todo = {a.id : a \in MintEvents(j)} \ known])
        \/ scene.faults /\ GiveUp(n, j)

\* getAgentsForNullifier; for siblings, getHumanNullifier has come first.
ReadNullifier(n) ==
  /\ At(n, "load") /\ job[n].at = "nullifier"
  /\ \/ /\ IsAlive(job[n].arg)
        /\ Run(n, [job[n] EXCEPT !.at = "ids"]) /\ UNCHANGED mine
     \/ (~ IsAlive(job[n].arg) \/ scene.faults) /\ GiveUp(n, job[n])

ReadIds(n) ==
  /\ At(n, "load") /\ job[n].at = "ids"
  /\ LET j == job[n]
         human == IF j.by = "siblings" THEN AgentById(j.arg).human ELSE j.arg
         ids == {a.id : a \in {b \in Alive : b.human = human}}
         others == IF j.by = "siblings" THEN ids \ {j.arg} ELSE ids
     IN \/ (ids # {} \/ j.by = "siblings") /\ Proceed(n, [j EXCEPT !.todo = others])
        \/ ids = {} /\ j.by = "human" /\ GiveUp(n, j)
        \/ scene.faults /\ GiveUp(n, j)

\* Slip: the guardian of an agent is not compared.
AnyGuardian(j, id) == IsAlive(id)

\* Whether an agent still belongs on the list, by the read that comes first.
Belongs(j, id) ==
  CASE j.by = "guardian" -> IsAlive(id) /\ AgentById(id).guardian = j.arg
    [] j.by = "owner" -> IsAlive(id) /\ AgentById(id).owner = j.arg
    [] OTHER -> IsAlive(id)

\* A failed read of one agent is taken for a burnt token and skipped; a lookup
\* by key has only this agent and ends.
Check(n) ==
  /\ At(n, "load") /\ job[n].at = "check"
  /\ LET j == job[n]
         id == NextId(j)
     IN \/ Belongs(j, id) /\ Run(n, [j EXCEPT !.at = "build"]) /\ UNCHANGED mine
        \/ ~ Belongs(j, id) /\ j.by # "key" /\ Proceed(n, [j EXCEPT !.todo = @ \ {id}])
        \/ scene.faults /\ j.by # "key"
             /\ Proceed(n, [j EXCEPT !.todo = @ \ {id}, !.failed = TRUE])
        \/ (~ Belongs(j, id) \/ scene.faults) /\ j.by = "key" /\ GiveUp(n, j)

\* The cards' buttons depend on these.  A burnt token has no guardian; a
\* lookup by guardian has read it already.
Entry(j, a, readable) ==
  LET guardian == IF j.by = "guardian" THEN j.arg
                  ELSE IF a.died = 0 /\ readable THEN a.guardian ELSE None
  IN [id |-> a.id, verified |-> j.verified, card |-> a.died = 0 /\ readable /\ a.card,
      guardian |-> guardian,
      mode |-> IF j.by = "guardian" THEN "walletfree"
               ELSE IF a.key # a.owner THEN "linked"
               ELSE IF guardian # None THEN "walletfree" ELSE "self-custody"]

\* buildAgentEntry, and the same reads written out in two of the lookups:
\* isVerifiedAgent first.
BuildVerified(n) ==
  /\ At(n, "load") /\ job[n].at = "build"
  /\ Run(n, [job[n] EXCEPT !.at = "rest", !.verified = IsAlive(NextId(job[n]))])
  /\ UNCHANGED mine

\* Then the guardian and the card, whose failed reads count as "none".
BuildRest(n) ==
  /\ At(n, "load") /\ job[n].at = "rest"
  /\ LET j == job[n]
         id == NextId(j)
         with(readable) == j.found \cup {Entry(j, AgentById(id), readable)}
         rest == [j EXCEPT !.todo = @ \ {id}, !.verified = FALSE]
     IN \/ Proceed(n, [rest EXCEPT !.found = with(TRUE)])
        \/ scene.faults /\ Proceed(n, [rest EXCEPT !.found = with(FALSE), !.failed = TRUE])

\* A failed read of isVerifiedAgent, or of the registration's block: no entry.
BuildFails(n) ==
  /\ scene.faults /\ At(n, "load") /\ job[n].at = "build"
  /\ LET j == job[n]
     IN \/ j.by # "key" /\ Proceed(n, [j EXCEPT !.todo = @ \ {NextId(j)}, !.failed = TRUE])
        \/ j.by = "key" /\ GiveUp(n, j)

LookupGoesOn(n) ==
  \/ ReadSimple(n) \/ ReadBalance(n) \/ ReadLatestBlock(n) \/ ReadEvents(n)
  \/ ReadNullifier(n) \/ ReadIds(n) \/ Check(n)
  \/ BuildVerified(n) \/ BuildRest(n) \/ BuildFails(n)

------------------------------------------------------------------------------
(* "My Agents": the tabs and what they start.                              *)

\* A tab empties the list.  The tab of the social login loads at once when
\* its wallet is known.
ChooseTab(n) ==
  \E t \in Tabs \cap scene.tabs :
    LET page == [mine EXCEPT !.tab = t, !.list = NoList,
                             !.smart = IF t = "passkey" THEN None ELSE @,
                             !.identifyPoll = IF t = "passport" THEN 0 ELSE @]
        known == IF mine.social # None THEN {mine.social}
                 ELSE IF signedIn THEN SocialWallets ELSE {}
    IN /\ polls' = IF t = "passport"
                   THEN {p \in polls : p.session # mine.identifyPoll} ELSE polls
       /\ \/ /\ t = "privy" /\ known # {}
             /\ \E v \in known :
                  LoadAgentsByOwner(n, [page EXCEPT !.social = v, !.loading = TRUE], v, "nothing")
          \/ (t # "privy" \/ known = {}) /\ mine' = page /\ UNCHANGED job

\* The user signs in with Privy on its tab, and the effect loads the agents.
PrivySignsIn(n) ==
  /\ mine.tab = "privy" /\ mine.social = None /\ ~ signedIn
  /\ signedIn' = TRUE
  /\ \E v \in SocialWallets :
       LoadAgentsByOwner(n, [Emptied EXCEPT !.social = v], v, "nothing")

HandleConnect(n) ==
  /\ mine.tab = "wallet" /\ mine.wallet = None
  /\ Run(n, [kind |-> "wallet"])
  /\ UNCHANGED mine

WalletAnswers(n) ==
  /\ At(n, "wallet")
  /\ \/ Done(n) /\ UNCHANGED mine
     \/ \E w \in Wallets : LoadAgentsByOwner(n, [Emptied EXCEPT !.wallet = w], w, "nothing")

\* The arrow beside the address, disabled while a lookup runs.
LoadAgain(n) ==
  /\ ~ mine.loading
  /\ \/ mine.tab = "wallet" /\ mine.wallet # None
        /\ LoadAgentsByOwner(n, Emptied, mine.wallet, "nothing")
     \/ mine.tab = "privy" /\ mine.social # None
        /\ LoadAgentsByOwner(n, Emptied, mine.social, "nothing")
     \/ mine.tab = "passkey" /\ mine.smart # None
        /\ LoadAgentsByGuardian(n, Emptied, mine.smart, "nothing")

\* The Enter key starts another one while a lookup runs.
HandleKeyLookup(n) ==
  /\ mine.tab = "key"
  /\ \E k \in scene.keys :
       Run(n, Lookup("key", k, "id", "nothing"))
  /\ mine' = Emptied

ReadKeysAgent(n) ==
  /\ At(n, "load") /\ job[n].at = "id"
  /\ LET j == job[n]
     IN \/ /\ Registered(j.arg)
           /\ Run(n, [j EXCEPT !.at = "check", !.todo = {AgentOf(j.arg).id}])
           /\ UNCHANGED mine
        \/ (~ Registered(j.arg) \/ scene.faults) /\ GiveUp(n, j)

HandlePasskeySignIn(n) ==
  /\ mine.tab = "passkey" /\ ~ mine.loading /\ mine.smart = None
  /\ mine' = Emptied
  /\ Run(n, [kind |-> "signin"])

\* The authenticator answers with the wallet of one of its passkeys.
PasskeyAnswers(n) ==
  /\ At(n, "signin")
  /\ \/ \E s \in SmartWallets : LoadAgentsByGuardian(n, [Emptied EXCEPT !.smart = s], s, "nothing")
     \/ Done(n) /\ mine' = [mine EXCEPT !.loading = FALSE]

\* The buttons of a card on the list.
HandlePasskeyRevoke(n) ==
  /\ "revoke" \in scene.buttons /\ scene.mainnet /\ mine.tab = "passkey"
  /\ \E e \in mine.list.shown :
       /\ e.verified /\ e.guardian # None /\ mine.revoking # e.id
       /\ mine' = [mine EXCEPT !.revoking = e.id]
       /\ Run(n, [kind |-> "userOp", page |-> "mine", id |-> e.id, reload |-> mine.smart,
                  sent |-> FALSE])

\* The token of the proxy, the passkey, then the bundler: the operation is
\* mined if the agent's guardian signed it.
UserOperationMined(n) ==
  /\ At(n, "userOp") /\ ~ job[n].sent /\ height < scene.changes
  /\ IsAlive(job[n].id) /\ AgentById(job[n].id).guardian \in SmartWallets
  /\ Burn(job[n].id)
  /\ Run(n, [job[n] EXCEPT !.sent = TRUE])

RevocationFails(n) ==
  /\ At(n, "userOp") /\ job[n].page = "mine"
  /\ ~ job[n].sent \/ scene.faults
  /\ mine' = [mine EXCEPT !.revoking = 0]
  /\ Done(n)

\* The list is read again for the passkey that was signed in at the click.
RevocationDone(n) ==
  /\ At(n, "userOp") /\ job[n].page = "mine" /\ job[n].sent
  /\ \/ /\ job[n].reload # None
        /\ LoadAgentsByGuardian(n, Emptied, job[n].reload, "revoking")
     \/ /\ job[n].reload = None
        /\ mine' = [mine EXCEPT !.revoking = 0] /\ Done(n)

OwnerToReload == IF mine.wallet # None THEN mine.wallet ELSE mine.social

HandleMintCard(n) ==
  /\ "mint" \in scene.buttons /\ mine.tab \in {"wallet", "privy"}
  /\ \E e \in mine.list.shown :
       /\ e.verified /\ ~ e.card /\ mine.minting # e.id
       /\ mine' = [mine EXCEPT !.minting = e.id]
       /\ Run(n, [kind |-> "mint", id |-> e.id, owner |-> OwnerToReload, written |-> FALSE])

\* writeAgentCard: only the owner's transaction counts.
AgentCardWritten(n) ==
  /\ At(n, "mint") /\ ~ job[n].written
  /\ IsAlive(job[n].id) /\ AgentById(job[n].id).owner \in Wallets
  /\ agents' = {IF a.id = job[n].id THEN [a EXCEPT !.card = TRUE] ELSE a : a \in agents}
  /\ UNCHANGED <<height, nonces>>
  /\ Run(n, [job[n] EXCEPT !.written = TRUE])

MintEnds(n) ==
  /\ At(n, "mint")
  /\ \/ /\ job[n].written /\ job[n].owner # None
        /\ LoadAgentsByOwner(n, Emptied, job[n].owner, "minting")
     \/ /\ ~ job[n].written \/ scene.faults \/ job[n].owner = None
        /\ mine' = [mine EXCEPT !.minting = 0] /\ Done(n)

HandleShowSiblings(n) ==
  /\ "siblings" \in scene.buttons
  /\ \E e \in mine.list.shown :
       /\ e.verified /\ ~ (mine.siblingsLoading /\ mine.siblingsOf = e.id)
       /\ mine' = [mine EXCEPT !.siblingsLoading = TRUE, !.siblings = NoList,
                               !.siblingsOf = e.id]
       /\ Run(n, Lookup("siblings", e.id, "nullifier", "nothing"))
-----------------------------------------------------------------------------
(* The pollers of "My Agents".                                             *)

Stopped(session) == {p \in polls : p.session # session}

\* A session is asked for: the interval the page knows of stops at once.
HandleRefreshProof(n) ==
  /\ \E e \in mine.list.shown :
       /\ e.id \in scene.expiring /\ mine.refreshing # e.id
       /\ mine' = [mine EXCEPT !.refreshing = e.id]
       /\ polls' = Stopped(mine.refreshPoll)
       /\ Run(n, [kind |-> "ask", what |-> "refresh", owner |-> OwnerToReload,
                  guardian |-> mine.smart])

HandleStartIdentify(n) ==
  /\ mine.tab = "passport" /\ ~ mine.loading
  /\ mine' = Emptied
  /\ polls' = Stopped(mine.identifyPoll)
  /\ Run(n, [kind |-> "ask", what |-> "identify", owner |-> None, guardian |-> None])

\* The session is there and an interval starts; what the click captured is
\* what it reloads.
PollStarts(n) ==
  /\ At(n, "ask") /\ mine.sessions < scene.sessions
  /\ LET session == mine.sessions + 1
         refresh == job[n].what = "refresh"
     IN /\ polls' = polls \cup {[session |-> session, what |-> job[n].what,
                                 owner |-> job[n].owner, guardian |-> job[n].guardian]}
        /\ mine' = [mine EXCEPT !.sessions = session,
                                !.refreshPoll = IF refresh THEN session ELSE @,
                                !.identifyPoll = IF refresh THEN @ ELSE session,
                                !.loading = IF refresh THEN @ ELSE FALSE]
  /\ Done(n)

SessionRefused(n) ==
  /\ At(n, "ask")
  /\ mine' = IF job[n].what = "refresh" THEN [mine EXCEPT !.refreshing = 0]
             ELSE [mine EXCEPT !.loading = FALSE]
  /\ Done(n)
  /\ UNCHANGED polls

HandleCloseRefresh ==
  /\ mine.refreshPoll # 0
  /\ polls' = Stopped(mine.refreshPoll)
  /\ mine' = [mine EXCEPT !.refreshPoll = 0, !.refreshing = 0]

HandleCloseIdentify ==
  /\ mine.identifyPoll # 0
  /\ polls' = Stopped(mine.identifyPoll)
  /\ mine' = [mine EXCEPT !.identifyPoll = 0]

\* An interval fires; it does not wait for the answer to the tick before.
Poll(n) ==
  /\ \E p \in polls : Run(n, [kind |-> "status", poll |-> p])
  /\ UNCHANGED <<mine, polls>>

\* Not yet, or an error that is swallowed.
StatusPending(n) ==
  /\ At(n, "status")
  /\ Done(n)
  /\ UNCHANGED <<mine, polls>>

\* The answer counts even if the interval has been stopped since.
RefreshCompleted(n) ==
  /\ At(n, "status") /\ job[n].poll.what = "refresh"
  /\ LET p == job[n].poll
         page == [mine EXCEPT !.refreshPoll = 0, !.refreshing = 0]
     IN /\ polls' = Stopped(p.session)
        /\ \/ /\ p.owner # None
              /\ LoadAgentsByOwner(n, [page EXCEPT !.loading = TRUE, !.list = NoList],
                                   p.owner, "nothing")
           \/ /\ p.owner = None /\ p.guardian # None
              /\ LoadAgentsByGuardian(n, [page EXCEPT !.loading = TRUE, !.list = NoList],
                                      p.guardian, "nothing")
           \/ /\ {p.owner, p.guardian} = {None}
              /\ mine' = page /\ Done(n)

RefreshFailed(n) ==
  /\ At(n, "status") /\ job[n].poll.what = "refresh"
  /\ polls' = Stopped(job[n].poll.session)
  /\ mine' = [mine EXCEPT !.refreshPoll = 0, !.refreshing = 0]
  /\ Done(n)

IdentifyCompleted(n) ==
  /\ At(n, "status") /\ job[n].poll.what = "identify"
  /\ polls' = Stopped(job[n].poll.session)
  /\ \E h \in Humans :
       LoadAgentsByNullifier(n, [Emptied EXCEPT !.identifyPoll = 0], h)

\* The handlers of this page.
MineHandlers ==
  {n \in Slots : \/ \E kind \in {"load", "wallet", "signin", "mint", "ask", "status"} : At(n, kind)
                 \/ At(n, "userOp") /\ job[n].page = "mine"}

\* The page is left: the two intervals it knows of stop.  What is under way
\* then writes to a page that is gone.
LeaveMyAgents ==
  /\ scene.reloads
  /\ polls' = {p \in polls : p.session \notin {mine.refreshPoll, mine.identifyPoll}}
  /\ mine' = [mine EXCEPT !.tab = "wallet", !.list = NoList, !.loading = FALSE,
                          !.wallet = None, !.smart = None, !.social = None, !.revoking = 0,
                          !.minting = 0, !.siblings = NoList, !.siblingsOf = 0,
                          !.siblingsLoading = FALSE, !.refreshing = 0, !.refreshPoll = 0,
                          !.identifyPoll = 0]
  /\ Abandon(MineHandlers)

-----------------------------------------------------------------------------
(* "Verify": one agent, by its key.                                        *)

\* lookupAgent: from the form, the address bar, or after a revocation.
StartVerify(n, page, key) ==
  /\ ver' = [page EXCEPT !.loading = TRUE, !.info = None, !.resolved = key]
  /\ Run(n, [kind |-> "verify", at |-> "verified", key |-> key, verified |-> FALSE, id |-> 0,
             owner |-> None, whole |-> TRUE, since |-> height])

\* The form is disabled while a lookup runs; a change of the network or of
\* the address is not.
LookupAgent(n) ==
  /\ ~ ver.loading \/ scene.addressBar
  /\ \E k \in scene.keys : StartVerify(n, ver, k)

\* The first two reads are outside the inner try.
VerifyFails(n) ==
  /\ scene.faults /\ At(n, "verify") /\ job[n].at \in {"verified", "id"}
  /\ ver' = [ver EXCEPT !.loading = FALSE]
  /\ Done(n)

ReadVerified(n) ==
  /\ At(n, "verify") /\ job[n].at = "verified"
  /\ Run(n, [job[n] EXCEPT !.at = "id", !.verified = Registered(job[n].key)])
  /\ UNCHANGED ver

Unregistered(j) ==
  [key |-> j.key, id |-> 0, verified |-> FALSE, owner |-> None, guardian |-> None,
   mode |-> "self-custody", since |-> j.since, whole |-> TRUE]

\* Slip: the key is taken from the page, not from this lookup.
ReadResolvedId(n) ==
  /\ At(n, "verify") /\ job[n].at = "id"
  /\ IF Registered(ver.resolved)
     THEN /\ Run(n, [job[n] EXCEPT !.at = "owner", !.id = AgentOf(ver.resolved).id])
          /\ UNCHANGED ver
     ELSE /\ ver' = [ver EXCEPT !.info = Unregistered(job[n]), !.loading = FALSE]
          /\ Done(n)

ReadAgentId(n) ==
  /\ At(n, "verify") /\ job[n].at = "id"
  /\ \/ /\ Registered(job[n].key)
        /\ Run(n, [job[n] EXCEPT !.at = "owner", !.id = AgentOf(job[n].key).id])
        /\ UNCHANGED ver
     \/ /\ ~ Registered(job[n].key)
        /\ ver' = [ver EXCEPT !.info = Unregistered(job[n]), !.loading = FALSE]
        /\ Done(n)

ModeOf(key, owner, guardian) ==
  IF key \in EdKeys THEN IF guardian # None THEN "ed25519-linked" ELSE "ed25519"
  ELSE IF owner = None THEN "linked"
  ELSE IF key = owner THEN IF guardian # None THEN "walletfree" ELSE "self-custody"
  ELSE IF guardian \in SmartWallets THEN "smartwallet" ELSE "linked"

\* A burnt token has no owner; a failed read counts as one.
ReadOwner(n) ==
  /\ At(n, "verify") /\ job[n].at = "owner"
  /\ \/ /\ IsAlive(job[n].id)
        /\ Run(n, [job[n] EXCEPT !.at = "guardian", !.owner = AgentById(job[n].id).owner])
     \/ /\ ~ IsAlive(job[n].id) \/ scene.faults
        /\ Run(n, [job[n] EXCEPT !.at = "nothing", !.whole = ~ IsAlive(job[n].id)])
  /\ UNCHANGED ver

\* The page shows no number without an owner; the answer of the first read
\* stays.
ShowInfo(n) ==
  /\ At(n, "verify") /\ job[n].at \in {"guardian", "nothing"}
  /\ LET j == job[n]
         lives == j.at = "guardian" /\ IsAlive(j.id)
         info(guardian, whole) ==
           [key |-> j.key, id |-> IF j.owner = None THEN 0 ELSE j.id, verified |-> j.verified,
            owner |-> j.owner, guardian |-> guardian, mode |-> ModeOf(j.key, j.owner, guardian),
            since |-> j.since, whole |-> whole]
     IN \/ ver' = [ver EXCEPT !.loading = FALSE,
                     !.info = info(IF lives THEN AgentById(j.id).guardian ELSE None, j.whole)]
        \/ scene.faults /\ ver' = [ver EXCEPT !.loading = FALSE, !.info = info(None, FALSE)]
  /\ Done(n)

ConnectForDeregister ==
  /\ ver.info # None /\ ver.info.verified /\ ver.info.mode \notin {"walletfree", "ed25519"}
  /\ ver.wallet = None
  /\ \E w \in Wallets : ver' = [ver EXCEPT !.wallet = w]
  /\ UNCHANGED job

\* The code of a deregistration: its key is the one asked for last, its mode
\* that of the agent shown.
HandleDeregister ==
  /\ ver.info # None /\ ver.info.verified /\ ver.app = None
  /\ \/ ver.info.mode \in {"walletfree", "ed25519"}
     \/ ver.wallet # None /\ ver.wallet = ver.info.owner
  /\ LET address == IF ver.resolved \notin EdKeys THEN ver.resolved ELSE None
         user == IF ver.wallet # None THEN ver.wallet ELSE address
         code(action, who) == [action |-> action, user |-> who, key |-> address]
     IN ver' = [ver EXCEPT !.app =
          CASE ver.info.mode = "self-custody" -> code("D", user)
            [] ver.info.mode = "ed25519" -> code("D", address)
            [] ver.info.mode = "walletfree" -> code("D", address)
            [] OTHER -> code("X", user)]
  /\ UNCHANGED job

CancelDeregister ==
  /\ ver.app # None
  /\ ver' = [ver EXCEPT !.app = None]
  /\ UNCHANGED job

\* The websocket of the code: the key in the form, which may have been
\* edited since, is looked up.
HandleDeregisterSuccess(n) ==
  /\ ver.app # None
  /\ \E s \in scans : s.page = "verify" /\ s.landed /\ s.qr = ver.app
  /\ \E k \in scene.keys : StartVerify(n, [ver EXCEPT !.app = None], k)

\* The passkey that this browser registered revokes without gas.
PasskeyRevoke(n) ==
  /\ ver.info # None /\ ver.info.verified /\ ver.info.guardian \in SmartWallets
  /\ passkey = ver.info.guardian /\ scene.mainnet /\ ~ ver.revoking
  /\ ver' = [ver EXCEPT !.revoking = TRUE]
  /\ Run(n, [kind |-> "userOp", page |-> "verify", id |-> ver.info.id, sent |-> FALSE])

PasskeyRevokeEnds(n) ==
  /\ At(n, "userOp") /\ job[n].page = "verify"
  /\ \/ /\ job[n].sent
        /\ \E k \in scene.keys : StartVerify(n, [ver EXCEPT !.revoking = FALSE], k)
     \/ /\ ~ job[n].sent \/ scene.faults
        /\ ver' = [ver EXCEPT !.revoking = FALSE] /\ Done(n)
-----------------------------------------------------------------------------

MineHandler ==
  \/ \E n \in Slots : Free(n) /\ \/ HandleStartIdentify(n) \/ HandleRefreshProof(n) \/ Poll(n)
                                 \/ ChooseTab(n) /\ UNCHANGED signedIn
  \/ \E n \in Slots : \/ PollStarts(n) \/ SessionRefused(n) \/ StatusPending(n)
                      \/ RefreshCompleted(n) \/ RefreshFailed(n) \/ IdentifyCompleted(n)
  \/ (HandleCloseRefresh \/ HandleCloseIdentify) /\ UNCHANGED job
  \/ LeaveMyAgents

MineLookup ==
  \/ \E n \in Slots : Free(n) /\ \/ HandleConnect(n) \/ LoadAgain(n) \/ HandleKeyLookup(n)
                                 \/ HandlePasskeySignIn(n) \/ HandlePasskeyRevoke(n)
                                 \/ HandleMintCard(n) \/ HandleShowSiblings(n)
  \/ \E n \in Slots : \/ WalletAnswers(n) \/ ReadKeysAgent(n) \/ PasskeyAnswers(n)
                      \/ LookupGoesOn(n) \/ RevocationFails(n) \/ RevocationDone(n)
                      \/ MintEnds(n)

VerifyHandler ==
  \/ \E n \in Slots : Free(n) /\ \/ LookupAgent(n) \/ HandleDeregisterSuccess(n)
                                 \/ PasskeyRevoke(n)
  \/ \E n \in Slots : \/ VerifyFails(n) \/ ReadVerified(n) \/ ReadAgentId(n)
                      \/ ReadOwner(n) \/ ShowInfo(n) \/ PasskeyRevokeEnds(n)
  \/ ConnectForDeregister \/ HandleDeregister \/ CancelDeregister

Transaction == \E n \in Slots : UserOperationMined(n) \/ AgentCardWritten(n)

PagesNext ==
  \/ /\ Open("mine")
     /\ \/ MineHandler /\ UNCHANGED signedIn
        \/ MineLookup /\ UNCHANGED <<signedIn, polls>>
        \/ \E n \in Slots : Free(n) /\ PrivySignsIn(n) /\ UNCHANGED polls
     /\ UNCHANGED <<scene, chainVars, storeVars, scans, ver>>
  \/ /\ Open("verify") /\ VerifyHandler
     /\ UNCHANGED <<scene, chainVars, storeVars, signedIn, scans, mine, polls>>
  \/ Transaction /\ UNCHANGED <<scene, storeVars, signedIn, scans, pagesVars>>
  \/ ver.app # None /\ Scan("verify", ver.app) /\ UNCHANGED pagesVars

------------------------------------------------------------------------------
(* Properties. *)

LivedSince(a, since) == a.died = 0 \/ a.died > since

\* What a lookup asks for.
Asked(of, a) ==
  CASE of.by = "owner" -> a.owner = of.arg
    [] of.by = "guardian" -> a.guardian = of.arg
    [] of.by = "key" -> a.key = of.arg
    [] of.by = "human" -> a.human = of.arg
    [] of.by = "siblings" -> a.human = AgentById(of.arg).human /\ a.id # of.arg

Answers(list) ==
  list.of # None =>
    /\ \A e \in list.shown : \E a \in agents :
         /\ a.id = e.id /\ Asked(list.of, a) /\ LivedSince(a, list.of.since)
         /\ a.died = 0 /\ list.of.whole => e.guardian = a.guardian
    /\ list.of.by # "owner" /\ list.of.whole =>
         \A a \in Alive : a.born <= list.of.since /\ Asked(list.of, a) =>
           \E e \in list.shown : e.id = a.id

\* A list that was filled answers its lookup: each agent on it was asked for
\* and lived after the lookup began; and, unless a read failed, every agent
\* of the guardian, the key or the human that lived all along is there.  This
\* in spite of registrations and revocations between any two reads, of lookups
\* that overlap, and of pollers and transactions that start more of them.
ListIsTrue == Answers(mine.list) /\ Answers(mine.siblings)

\* The agent that "Verify" shows as verified, with its owner and its guardian,
\* was one after the lookup began; an agent that has lived since before the
\* lookup is not shown as unknown.
InfoIsTrue ==
  ver.info # None =>
    /\ ver.info.verified => \E a \in agents :
         a.key = ver.info.key /\ LivedSince(a, ver.info.since)
    /\ ver.info.owner # None => \E a \in agents :
         /\ a.id = ver.info.id /\ a.key = ver.info.key /\ a.owner = ver.info.owner
         /\ LivedSince(a, ver.info.since)
         /\ a.died = 0 /\ ver.info.whole => a.guardian = ver.info.guardian
    /\ \A a \in Alive : a.key = ver.info.key /\ a.born <= ver.info.since =>
         ver.info.verified /\ (ver.info.whole => ver.info.id = a.id)
===============================================================================
