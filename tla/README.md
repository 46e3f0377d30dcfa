# A verification project for Self Agent ID

Self Agent ID gives a software agent an on-chain identity that a human stands
behind: the human proves with a passport, in zero knowledge, to be one, and the
registry contract binds the agent's key to the *nullifier* of that human.
Services then ask the chain whether the key that signed a request belongs to an
agent with a live human proof.

This directory holds TLA+ models of the parts of the system where order, time
and concurrency decide whether that promise is kept, the TLC configurations that
check them, and proofs that TLAPS checks. Paths below are relative to `src/`.

1. [The system](#1-the-system)
2. [Modules](#2-modules)
3. [The registry](#3-the-registry)
4. [The other contracts](#4-the-other-contracts)
5. [The request verifier](#5-the-request-verifier)
6. [Sessions](#6-sessions)
7. [The app's services and their store](#7-the-apps-services-and-their-store)
8. [The A2A endpoint and agent lookups](#8-the-a2a-endpoint-and-agent-lookups)
9. [The command line](#9-the-command-line)
10. [The web front end](#10-the-web-front-end)
11. [Runs, bounds and fairness](#11-runs-bounds-and-fairness)
12. [Proofs](#12-proofs)
13. [Where code and text disagree](#13-where-code-and-text-disagree)
14. [What is not modelled](#14-what-is-not-modelled)
15. [Plan](#15-plan)

To repeat a check: `tlc -config RegistryIndex.cfg MCSelfAgentRegistry.tla`,
`tlapm SelfAgentRegistryProofs.tla`.

## 1. The system

| Component | State it keeps | Operations | Hard behaviour | What makes it correct |
|---|---|---|---|---|
| Agent registry contract, `contracts/src/SelfAgentRegistry.sol` | tokens, proofs, two key maps, the index of agents per human, nonces, settings | Hub callback (register, advanced, wallet-free, Ed25519, deregister, refresh, identify), register overloads, provider registration and revocation, guardian and self deregistration, profile, admin | callbacks delivered late or twice, keys used again, limits and ages that change, ten mappings cleared together | exact indexes, keys that identify, one agent per key and nonce, identity fixed for life, no proof outliving its document |
| Reputation registry, `SelfReputationRegistry.sol`, `SelfReputationSignal.sol` | feedback, responses, document weights | give, revoke, respond, summarise, automatic proof feedback | refuses a whole registration for an unweighted document; summaries over mixed decimals | one proof score per registration, exact summaries |
| Validation registry, `SelfValidationRegistry.sol`, `SelfFreshnessChecker.sol` | requests, responses, one freshness record a day | request, respond, submit and read freshness | records outlive the freshness they record; callers can take a record's hash | an answer was true when it says |
| Demo contracts, `AgentDemoVerifier*.sol`, `AgentGate.sol` | nonces, counters | meta-transactions gated on the registry | replay, retries by several relays | a meta-transaction is verified once |
| SDK verifier, `typescript-sdk/src/SelfAgentVerifier.ts` | replay cache, cache of chain answers, provider cache, rate buckets | `verify`, `clearCache` | concurrent calls, awaits, a moving chain, eviction | a valid result was true, requests pass once, rates hold |
| SDK registration flow, `typescript-sdk/src/registration-flow.ts` | the rolling session token | `requestX`, `waitForCompletion`, `exportKey` | polling, deadlines, resumed waits | a wait ends, with what happened |
| Agent session API, `app/app/api/agent/*`, `app/lib/session-token.ts` | none: the session lives in encrypted tokens | open, callback, status, export | old tokens, races with the chain, other people's sessions | completed means it happened |
| Security store, `app/lib/{securityStore,replayGuard,rateLimit}.ts` | counters and keys with expiry, shared or per process | increment, set once | a command fails before or after it is carried out; fall-back to memory | once per store; at most the quota per window |
| Account abstraction proxy, `app/lib/aaProxyAuth.ts`, `app/app/api/aa/*` | tokens, quotas in the store | issue, forward | the seam of two windows, processes that end | less than twice the quota in any window's time |
| Demo services, `app/app/api/demo/*` | the relay's rate, the census, the callers counted | relay, verify, census, agent-to-agent, chat | a lost transaction hash, two processes, agents that go between reads | verified once; "same human" is true when said |
| A2A server and client, `app/app/api/a2a/route.ts`, `typescript-sdk/src/a2a` | tasks, session tokens and push addresses per process | send, stream, get, cancel | polls that overtake each other, lost answers, restarts, reads at different blocks | an answer was so while it was given; a registration reported is the one asked for |
| Agent lookups, `app/app/api/agent/{info,verify,agents}`, `app/lib/mcp/handlers/verify.ts`, `typescript-sdk/src/{SelfAgentVerifier,SelfAgent}.ts` | none | answers put together from several reads | each read at an instant of its own, the agent refreshed, revoked or replaced between two | every part of an answer was so while the lookup ran |
| Command line tools, `typescript-sdk/src/cli.ts`, `rust-sdk/src/bin/self-agent-cli.rs`, `python-sdk/src/self_agent_sdk/cli.py`, page `app/app/cli/register/page.tsx` | a session file that each command copies and writes back | init, open, wait; the page's callback | a callback between any two awaits, two commands on one file, failing reads | what a wait reports and the file says was so |
| Web front end, `app/app/{agents,demo}`, `app/lib/{agentKeyVault,passkey-storage,wallet,aa}.ts` | page state, refs, local storage, intervals, a websocket | register, look up, revoke, refresh, identify, verify, demo tests and chat | overlapping lookups, late answers, reloads, a second start | keys are kept, lists and badges are true, the shown agent signs |
| The rest of the MCP server and of the agents' own clients, discovery, Python and Rust ports of the libraries, demo functions | none between requests, or ports | translation | - | - |

The parts meet on the chain. The Self app sends a passport proof to the Hub, the
Hub calls the registry back; the session API, the command line and the pages
build the QR code that the Self app scans and afterwards *ask* the chain whether
the proof arrived, since nothing calls them back reliably; the verifier and the
demo services read the chain for every request they cannot answer from a cache.
So the registry is modelled first and in full, its promise is stated as an
abstract ledger, and the rest is modelled against that ledger.

## 2. Modules

| Module | What it is |
|---|---|
| `AgentLedger` | what the registry promises: live agents with number, human and key |
| `SelfAgentRegistry` | the contract, one action per function or Hub action |
| `Attestations` | reputation, validation and freshness contracts over an `AgentLedger` |
| `SelfAgentVerifier` | the verifier of the SDK over an `AgentLedger` |
| `AgentSession` | the session API and the client that polls it, over an `AgentLedger` |
| `LookupAnswers` | what a lookup says of an agent, and when that is true |
| `AgentLookups` | how a lookup comes about, read by read, over an `AgentLedger` |
| `SecurityStore` | keys and counters with a lifetime, shared and in memory |
| `AppServices` | relay, demos and proxy, on `SecurityStore` and an `AgentLedger` |
| `A2AEndpoint` | the A2A server in several processes, and the client's stream reader |
| `CliSession` | the three command line tools, their session file and their browser page |
| `Browser` | registry, phone, storage and pending handlers as every page sees them |
| `RegisterPage`, `AgentPages`, `DemoPage` | the pages, each on `Browser` |
| `WebFrontEnd` | their composition: one browser, several pages |
| `SelfAgentRegistryProofs`, `AttestationsProofs`, `SelfAgentVerifierProofs`, `AgentSessionProofs`, `AppServicesProofs`, `CliSessionProofs`, `WebFrontEndProofs` | the theorems about each, see section 12 |
| `AgentAnswersProofs` | the theorems about the two modules that say something of an agent from several reads: `A2AEndpoint`, which it extends, and `AgentLookups`, an instance beside it |
| `MC...` | values of the constants for TLC: symmetry, and the *scenes* below |

`SelfAgentRegistry` implements `AgentLedger` (proved and checked). `Attestations`,
`SelfAgentVerifier`, `AgentSession`, `AgentLookups`, `AppServices` and `A2AEndpoint` instantiate the
ledger's actions `Admit` and `Remove` for everything that registers or revokes, so
what holds there holds over the registry. `CliSession` and `Browser` need less of a
registry (who is on it, under which number, since when) and keep just that. A
definition whose comment begins with *Slip* is a plausible misreading of the
definition after it; nothing uses it, it is there to show that a property notices.

Several modules have a constant `Scenes` (`Services` in the verifier) and a variable
`scene` that never changes: a behaviour picks one of the situations that the `MC`
module describes, with the routes, options, faults and bounds of its own. One run then
covers many situations, each small, whose product would be out of reach.

## 3. The registry

A transaction is one atomic action; a revert is a guard that is false. The
variables have the names of the storage mappings, and zero is the default.
`HubCallback` is `customVerificationHook` with the seven action bytes;
`PublicCall`, `ProfileCall` and `AdminStep` are the other entry points. What happens
outside is modelled where the contract depends on it: agents sign challenges
(`SignChallenge`), wallets sign consents (`SignWalletConsent`), and both kinds
stay available for ever, so that any callback may carry them, late or again;
time passes (`Tick`).

- `NullifierIndexExact`: array, index map and counter of each human's agents
  agree after every order of registrations and swap-and-pop removals.
- `KeysIdentifyAgents`: the two key maps are inverse on live agents.
- `NoResidue`: a revocation leaves nothing that another contract could act on.
- `ChallengeSpentPerKey`: the history `consentOf` records the key each registration was
  under and the challenge it consumed; no two registrations share key and nonce. An address
  key is the signer, so there a challenge registers one agent. Under Ed25519 the signature is
  checked against the point in the payload, which nothing compares with the public key that is
  registered, and the challenge does not name one: `HubRegisterEd25519` takes a challenge of
  any signer for any public key whose nonce it has (section 13).
- `WalletConsented`, `FreshOnlyWhileDocumentValid`: payment addresses have a spent
  consent; no refresh makes a proof outlive its document.
- `IdentityFixedForLife`, `RegistrationRespectsLimit`: action properties, the second one
  proved and on no run. The limit is stated over the agents that carry the proof, not over
  the counter the code consults.
- `ImplementsLedger`: the refinement, under the map that takes the agents with a
  human proof, by number, nullifier and key.

Abstractions: an ECDSA agent's key is its padded address and is the same model
value; a credential is its expiry date; signatures are unforgeable records; the
block number and the timestamp move together; a nullifier is never 0. Each of
these is an assumption about the Hub, the chain or cryptography.

## 4. The other contracts

`Attestations` has an action per external function: giving, revoking and answering
feedback, weights, linking the reputation registry, validation requests and responses,
freshness submissions and the checker's threshold, with owners and operators as the contracts
ask for them. Registration is one transaction with the feedback it records
(`SelfAgentRegistry.sol:851`): an unweighted document reverts both.

- `HumanProofRecorded`: an agent has one proof feedback with the weight its document
  had then, exactly when it was registered by a document under a linked registry.
- `SummariesExact`: a summary counts every active feedback once and reports the
  decimals when the values agree on them; a summary of validators is their mean,
  though freshness records share the mapping of requests.
- `LatestFreshnessWasTrue`: an agent that `getLatestFreshness` calls fresh was so at
  the time the record gives, today or yesterday. Stated for records made by a
  submission (validator = the contract): whoever owns an agent may also file a request under
  the hash that a later submission would use, and answer it.

## 5. The request verifier

JavaScript runs from one `await` to the next without interruption, so an action is
such a stretch: `Receive` (headers to signature), `SignatureVerified` (Ed25519 only),
`Answered` (one of the reads of a `Promise.all`, each at its own instant),
`AskDetails`, `StoreAnswers`, `ProviderAnswered`, `CredentialsAnswered`,
`CredentialsFailed`, `CallFailed`, `ClearCache`. Several calls share the caches and
the limiter. The chain moves between any two of them.

- `ValidWasTrue`: a valid result names an agent that was registered under the
  signing key by the human it names, and no longer ago than the cache and one
  wait its proof was fresh and the human within the limit, although the answers
  may have been read across a revocation and a new registration of the key.
  It is the strongest bound we found that holds; exactness at the time of the
  result does not, since answers are cached from the time they are stored.
- `ProviderWasSelf`: under `RequireSelfProvider` the provider of a valid result was the
  registry's own while the call ran, or before it for no longer than its address is cached,
  which is twelve times as long (2 in TLC: only that it is longer matters).
- `RememberedUnlessFull`: a request that passed the replay check stays remembered
  while its timestamp is good, unless the cache is full of others that stay good
  at least as long.
- `RateHolds`: counted over every window, wherever it begins. A bucket is a set of numbered
  `Passage`s with their times, as is the history of those let through: the limiter asks
  only how many are younger than a minute or an hour, never for their order.

`Services` are the options of a verifier; in the runs five of them, each with the
calls, requests and agents that its options are about.

Assumed: the service and the chain share a clock, answers of a node do not go
back in time, and a call gets an answer or an error within `RpcTimeout`.

## 6. Sessions

A session is of one kind, settled from the start, and the rest of the chain that
such a session cannot see is left out. `token` is what the client holds,
`session` what every token of the session repeats. One status request is up to
three steps: `Poll` (the client wakes and sends its token), `FirstAnswer` and
`SecondAnswer` (the reads of the route: `isVerifiedAgent` then `getAgentId`;
`getBlockNumber` then the event query), with the chain moving between, or
`RequestFailed`. The new token replaces the old one only when the answer comes,
so an answer can overwrite a token that a callback produced meanwhile.
Registration modes are three: `generated` stands for linked, wallet-free, privy
and smartwallet, which make a fresh key; `ed25519` and `ed25519-linked` bring one.

`Scan` is the session's own proof reaching the registry (also after the session
ended, as the QR code carries no expiry). `Others` is everybody else; nobody else
has the key of a generated agent until it is exported.

- `RegistrationWasReal`, `DeregistrationIsFinal`, `RefreshHappened`: what
  "completed" means per kind. `DeregistrationIsFinal`
  matters because the route asks for the key, which anyone may register again.
- `CompletedIsFinal`: no callback, poll or resumed wait takes a result back.
  (*Failed* is not final: a later callback makes it proof-received again.)
- `NoMissedCompletion`: a wait that times out did not overlook anything that was
  true before its last request.
- `EveryWaitEnds`: a wait that began comes to an end.

Seen on the way and modelled, but promised by no text that a run could test:

- The SDK sends its token as `?token=`, which `readSessionTokenFromRequest` accepts
  only with `ALLOW_LEGACY_QUERY_SESSION_TOKEN=true` (default false): under the
  default every `waitForCompletion` ends with an error at its first poll. The run
  sets it to TRUE, since with FALSE nothing else happens.
- `register/status` looks for an agent of mode `ed25519-linked` under the address
  derived from the key (`register/status/route.ts:70` tests for `ed25519` only),
  though the registry files it under the public key; such a wait never succeeds.
  `PolledKey` models it and `NoMissedCompletion` excludes the mode.
- A refresh whose new expiry is not later than the old one, as with a proof capped
  by its document, never completes (`refresh/status/route.ts:84`).
- An agent revoked between the two reads makes a registration complete with
  number 0.

## 7. The app's services and their store

`SecurityStore` has the two operations of `securityStore.ts`. Each command to the shared
store may fail before or after it is carried out (`faults`), and the operation then
falls back to the memory of its process. A counter is incremented by one command and given
its expiry by the next. A server process may end (`Restart`) and takes its memory along.

`AppServices` runs the demo routes and the proxy's three routes on it, one action from
one `await` to the next. The relay sends a transaction that is mined later or
never (`Send`, `Mine`), loses the answer (`CallFailed`) or stops waiting for the
receipt (`ReceiptLate`). What the verifier answers is any answer: its module has the rest.

- `VerifiedOnce`: a signed meta-transaction is verified on chain once, whoever relays it
  how often; the contract's counts are exact and an answer's count includes its own.
- `PassedOncePerStore`: a request passes the replay check once through the shared store,
  and once more in the life of each process that had to use its memory. That is what the
  fall-back costs, and no more.
- `QuotaHolds`: the store calls its windows rolling, they are fixed; in any time of one window
  fewer than two quotas are let through. The history `allowed` keeps the count and the time
  of each request (`Allowance`): that no store gives two requests of one time the same count,
  and so loses none of them in the set, is part of the proof.
- `SameHumanIsTrue`: when the demo agent says that a caller has its human, both agents are
  registered to one human at that moment, though the numbers were read before. It rests on
  numbers being given out once and on `sameHuman` refusing agents without a proof.

## 8. The A2A endpoint and agent lookups

`Arrive` is a JSON-RPC request that reaches a process: the method, the data part's intent
or the words of the text that `parseIntent` looks for, and `X-Agent-Id` when it is
there. `Step` is the handler up to its next await. The endpoint reads the registry in pieces
(`isVerifiedAgent`, `getHumanNullifier`, `isProofFresh`, `ownerOf`, ...), each at its own
instant, and opens and polls sessions of the agent API for its callers. Those answer
in one step here (section 6 has their steps), except that an agent found registered may be revoked
before the second read asks for its number, which is then 0 (`StatusOf`). The answer takes its
time to come back (`Told`), or is lost. Tasks, tokens and push addresses are
per process, as the module-level maps are.

- `AnswersWereTrue`: what is said of an agent was so at some time while the question was
  being answered. The exceptions, `lenient`, are in the code: an expiry that
  cannot be read does not stop the `verify` intent, and a lookup answers some errors of the node
  with a completed "not found" (`ReadFails`).
- `RegistrationReported`: each token stays with the task that opened its session, so a
  registration reported complete is that of the task asked for, and its agent was
  registered under the number reported; number 0 is reported only of one that is gone.
- `PolledToTheEnd`: "no registration" for a task that opened one is said only after a
  poll of it ended, or the process was restarted.

`AgentLookups` is one lookup of any of six kinds: `verifyAgent` and `getInfo` of the SDK, the
MCP tool that verifies an agent, and the routes `info`, `verify` and `agents`. `Reads` gives the
reads of each, await by await; those of one await are answered in any order (`Answered`),
`Proceed` denies, concludes or goes on, `ReadFails` ends it. The registry moves meanwhile, and
`noted` collects what was so since the lookup began. `LookupAnswers` has the property, which is about
the lookup and `noted` alone.

- `LookupWasTrue`: an agent that is called verified with an expiry ahead, or fresh, was
  registered under the key asked about and had a proof that had not expired; a denied one was
  not there; a count was right; and a proof that is called fresh is called a proof.

## 9. The command line

A command reads the session file, works on its copy and writes the whole of it back; the page
posts one callback to a listener that the waiting command runs. `scene.sdk` tells the
tools apart by how the two meet: an event handler that runs at any await and saves
(TypeScript), a channel that the loop reads at its head (Rust), a thread that writes
the dictionary of the loop (Python). There both sides are line by line as far as what they
share goes: the loop sets the stage (`PyReached`), then the number (`PyNumber`), then saves (`PySave`),
and the handler checks `used`, marks the session, sets its own stage and saves (`PyCallback`, by
`Steps`); either may save what the other has half written. A poll is two reads, in either order in TypeScript
(`Promise.all`), and a failing read skips it. `lost` says whether a command wrote
over what another had written.

- `DoneWasTrue`: a wait that reports success saw it while it ran.
- `StageWasTrue`: the stage in the file was so on the chain since the session began,
  whoever wrote over whom. A Python handler that saves between the loop's stage and its number
  leaves a file that says `onchain_verified` and names no agent: then there was one all the same.
- `CallbackOnce`: a session takes in one callback, while nothing was written over.
- `ErrorIsFatal`: an error of the page that a wait took in is not turned into a success.

Seen on the way: a stage `callback_received` comes after `onchain_verified` when the callback
is late; a session to deregister an Ed25519 agent has an empty
address, so each of its polls fails.

## 10. The web front end

A page's handler runs to its next `await`, the page goes on, and the rest runs when the
answer is there. The rests are records in `job`, one per slot of `Slots`; the state of a
page is one record with the names of its hooks, reducer fields and refs. Reads happen one by one,
as the code awaits them: a lookup of agents reads the balance or the events, then each agent's proof
and its details; "Verify" reads `isVerifiedAgent`, the number, the owner and the guardian.
`Reload` forgets a page and keeps local storage; `ProofArrives` is a scanned code reaching the
registry, which may be long after the page showed another; `OthersRegister` and
`OthersDeregister` are everybody else.

- `RegisteredKeyKept`: the private key of every agent registered with a passkey or a
  social login is in local storage, whatever became of the page meanwhile. It holds because
  the key is stored before the code is shown.
- `SuccessWasReal`: "registered" appears only when an agent the page offered is on chain.
- `ListIsTrue`: each agent on a list was asked for and lived after the lookup
  began, and none that lived all along is missing, unless a read failed.
- `InfoIsTrue`: what "Verify" shows was true after the lookup began; the number, owner and guardian
  belong together even when the agent changes between the reads.
- `ShownAgentSigns`: the demo's key is the shown agent's, although the agent is reducer
  state and its key is in refs that a reset leaves alone.
- `PassWasVerified`: a test passes only for a key that was an agent's during its run, or at
  or after a moment whose answer its service still remembered when the run began.

The demo services are behind the tests. `/verify` and the census share one verifier, the demo agent
and the chat another (`lib/selfVerifier.ts:31`), and each remembers an answer for a minute:
`services` holds the passes that some process of them remembers, with the time of the read.
They come from this page's requests and from others' (`OthersAsk`), may go at any
time (`Forget`), and let an agent pass that has been revoked since. So a run may begin with a
pass from before; the gate's test asks its contract and never does. An answer that refuses may
come at any time.

## 11. Runs, bounds and fairness

| Run | Question | Instance |
|---|---|---|
| `RegistryIndex` | indexes, keys, refinement | two humans, four registrations, one ECDSA and two Ed25519 keys, limits 0 and 2 besides the default 1 |
| `RegistryConsent` | signatures used late, twice, by others, for other keys | two accounts, two Ed25519 keys, two signatures of each kind, three registrations |
| `RegistryProfile` | residue, freshness, wallets over time | one agent, three instants, documents with and without expiry, two ages, two configs |
| `Attestations` | what others say about an agent | one agent, a stranger who may be its operator, two decimals, two days of two instants, three calls |
| `Verifier` | truth of a valid result, rates, replay, provider | five services: one agent per human; a key that changes hands; a shared cache and limiter (2 a minute, 3 an hour); a shared replay cache of one entry; a strict service with credentials and two providers |
| `Sessions` | meaning and end of a session | all four kinds, two humans, a wallet key and an Ed25519 key, two registrations, two polls per wait, seven instants |
| `AppServices` | relay, demos, proxy, store | nine scenes: two relays at once, retries with losses, Ed25519, a repeated request in two processes that end, census and chat, the demo agent, tokens in turn and at once, the bundler |
| `Lookups` | answers from several reads | all six kinds, two keys, two humans, two providers, two registrations, two instants |
| `A2A` | answers, registrations, polls | seven scenes: two polls of a registration, two processes that end, modes and methods, sessions to end or renew, questions, failing reads, a stream in any chunks |
| `Cli` | waits, file, callbacks | one session, two tabs, an agent that comes and goes, a second `init`, every mode with failing reads, each in three tools (the Python tool with an instant less, and its two tabs while the clock stands still); two commands on one file in TypeScript |
| `Web` | keys, lists, badges, tests | nineteen scenes: four of registration, seven of "My Agents", two of "Verify", five of the demo, and a passkey's agent used on another page while it is registered |
| `ClaimDeregistered` | a sentence of `cli.ts` that the code does not keep | a wait whose reads all fail |

Why the bounds are enough. Four registrations of two humans make every shape of
swap-and-pop: removal of the only, first, middle and last entry, and a key
registered a second time by the other human. A second signature at one nonce is
what makes two humans compete, a third registration what makes a replay visible.
Two calls are all that can meet on one cache entry, one task or one counter; two windows need
one request more than the smaller limit; the seam of two quota windows needs both quotas, four requests
for a quota of two. A session needs an agent before and one after it, a
poll before and one after the change it waits for, and more time than one wait
takes for its end and its expiry to fall on either side of each other. A freshness record is read
on its day, on the next and on the one after. Two commands suffice to write over each other,
two slots for one handler to overtake another, and one of them may be a poller while the
other is a lookup. What others do to the registry while the pages are open is at most two changes
a scene: one takes an agent away, one registers its key again. In one scene others also ask the demo
services about the agent, before its page does. What is proved does not depend on the bounds.

Symmetry: humans in `RegistryIndex`; accounts and Ed25519 keys in `RegistryConsent`;
calls in the verifier's run; keys, humans and providers in `Lookups`;
processes and calls in `AppServices` and `A2A`; commands and tabs in `Cli`; slots in
`Web`. Scenes name single members, but as sets: permuting the rest of a scene gives the same
behaviours. None in `Sessions`, which checks liveness. Deadlock is off everywhere:
the bounds on registrations, signatures and the clock make every instance stop; the systems
themselves never have to act.

Fairness: only in `AgentSession`; everything else is safety, and nothing in those parts
promises progress. A session assumes weak fairness of `Tick` and of the client and nodes together
(`Poll \/ FirstAnswer \/ SecondAnswer`): the client's runtime fires its timers,
and a request is answered. No fairness for scans, callbacks, others or failures:
a wait must end when nothing happens. `Tick` does not pass a sleep that is over
nor a request older than `RouteTimeout`, which stands for the platform's limit.

Each property of a passing run has a mutant in `PROJECT.json`: replacing one
definition by its slip makes TLC find the property violated.

## 12. Proofs

Every theorem holds for every value of the constants, from one assumption per module, which
TLC evaluates in its runs: `BoundsAssumption`, `ZeroAssumption` and `KeyAssumption` of the
registry (bounds are numbers, the zero values no real ones, addresses and Ed25519 keys
disjoint); elsewhere that bounds, ages, limits and lifetimes are natural numbers, that what
stands for "none" is no member of the set it is added to, and that scenes and services are made
of members of the sets they choose from. No assumption limits how many actors there are or in
which order they act.

| Module | Theorem | Says |
|---|---|---|
| `SelfAgentRegistryProofs` | `TypeCorrect`, `RegistryCorrect` | types; the inductive invariant |
| | `IndexCorrect`, `KeysCorrect`, `ResidueCorrect` | its three parts that the runs check |
| | `IdentityCorrect` | `IdentityFixedForLife` |
| | `ConsentCorrect`, `WalletCorrect`, `FreshnessCorrect` | the three safety properties, each with a strengthening of its own |
| | `LimitCorrect` | `RegistrationRespectsLimit` |
| | `RegistryRefinesLedger` | `Spec => ImplementsLedger` |
| `AttestationsProofs` | `AttestationsCorrect` | the inductive invariant `AttestInv` |
| | `HumanProofCorrect`, `FreshnessCorrect` | `HumanProofRecorded`, `LatestFreshnessWasTrue` |
| | `ListsCorrect`, `SummariesCorrect` | the invariant `SummaryInv` of the lists, and `SummariesExact` |
| `SelfAgentVerifierProofs` | `VerifierCorrect` | the inductive invariant `VerifierInv` |
| | `ValidCorrect`, `ProviderCorrect`, `RememberedCorrect`, `RateCorrect` | `ValidWasTrue`, `ProviderWasSelf`, `RememberedUnlessFull`, `RateHolds` |
| `AgentSessionProofs` | `SessionCorrect` | the inductive invariant `SessionInv` |
| | `RegistrationCorrect`, `DeregistrationCorrect`, `RefreshCorrect`, `NothingMissed` | `RegistrationWasReal`, `DeregistrationIsFinal`, `RefreshHappened`, `NoMissedCompletion` |
| | `CompletedCorrect` | the action property `CompletedIsFinal` |
| `AgentAnswersProofs` | `LookupCorrect` | `LookupWasTrue` of the lookups |
| | `A2AAnswersWereTrue`, `A2ARegistrationReported`, `A2APolledToTheEnd` | `AnswersWereTrue`, `RegistrationReported`, `PolledToTheEnd` of the endpoint, from its inductive invariant `A2AInv` |
| `AppServicesProofs` | `ServicesCorrect` | the inductive invariant `ServicesInv` |
| | `VerifiedOnceCorrect`, `PassedOnceCorrect`, `QuotaCorrect` | `VerifiedOnce`, `PassedOncePerStore`, `QuotaHolds` |
| | `SameHumanCorrect` | the action property `SameHumanIsTrue` |
| `CliSessionProofs` | `CliCorrect` | the inductive invariant `CliInv` |
| | `DoneCorrect`, `StageCorrect`, `CallbackCorrect`, `ErrorCorrect` | `DoneWasTrue`, `StageWasTrue`, `CallbackOnce`, `ErrorIsFatal` |
| `WebFrontEndProofs` | `BaseAlways` | the inductive invariant `BaseInv` of registry, storage, handlers and registration |
| | `RegisteredKeyAlwaysKept`, `SuccessAlwaysReal` | `RegisteredKeyKept`, `SuccessWasReal`, which are part of it |
| | `PassAlwaysVerified`, `ShownAgentAlwaysSigns` | `PassWasVerified`, `ShownAgentSigns`, with `TestsInv` and `SignerInv` |
| | `InfoAlwaysTrue`, `ListAlwaysTrue` | `InfoIsTrue`, `ListIsTrue`, with `InfoInv` and `ListInv` |

The argument of each, and what its invariant is for:

**The ledger.** `Init`, `Admit`, `Remove`, `SetLimit` and a stutter of `AgentLedger` keep
`LedgerOK`: the numbers and the keys of live agents differ, and no number is above
`issued`. The proofs about each module over a ledger begin with these lemmas for its own
instance, and all of them use the same consequence: a number read for a key is that of one
agent, for ever.

**The registry.** `RegistryInv` is the conjunction of `TypeOK`, `UnissuedUnused` (a number not yet
given out has no owner and no proof), `UnprovenUnlisted` (the array of nullifier 0 is
empty), `NullifierIndexExact`, `KeysIdentifyAgents` and
`NoResidue`. The index alone is not inductive: a mint keeps it because the fresh
number is unused, a revocation because only agents with a proof and a nullifier
(`NoResidue`) pass its subtraction and every listed agent is this human's; and
releasing a key leaves the others because the maps are inverse. `NextShape`
sorts the steps of `Next` into mints, base registrations, revocations, refreshes
and quiet steps, and each is shown to keep each conjunct. `ConsentInv` adds that
a consumed nonce is below the current one, `WalletInv` that a payment address
has a consent, `ExpiryCapped` that a stored expiry is at most the document's. The
limit needs counting: the array has no repetitions and lists exactly the
human's agents, so the counter is their number (`CountIsAgents`), which is also
what the refinement needs for the ledger's guard.

**Attestations.** `HumanProofRecorded` needs that a number not given out has no score to record
(`ScoresOK`), `LatestFreshnessWasTrue` that every record under the hash of an agent's day that
only submissions answered is of that day and true (`RecordsOK`), over a history that always has
the present (`FreshOK`). What strangers may write under such a hash is in the invariant only
as what it excludes: another validator.
`SummariesExact` needs the lists: every client with feedback is listed once, and so is every request
with its validator (`SummaryInv`). The rest is about sums. A summary is a fold over entries in
their order, the property counts and adds over a set. Each fold is unfolded to the recursive
function it is defined by, whose existence is shown by induction on cardinality, as an instance of
the well-founded order on the natural numbers; sums over disjoint parts add up; a client's tally is
followed entry by entry, and the total client by client.

**The verifier.** The history gives each fact the last instant at which it was so
(`lastFresh`, `lastFew`, `lastSelf`), and `VerifierInv` says of every place where an answer
lies what it still says of the chain: a call that asked the first question (`IdentOK`), the
next ones (`DetailOK`), a judged one (`JudgedOK`), a screened one (`ScreenedOK`), a cache entry
(`EntryOK`), the cached provider. `ValidWasTrue` is the last station of that way. Its number
survives a revocation and a new registration of the key because numbers in `ever` differ. `RateInv` says
that what lies within an hour is kept, so that what the limiter counts is what it let through;
a window that begins anywhere is then bounded by the one that ends at its last passage.
`RememberedUnlessFull` is inductive with the types alone.

**Sessions.** `SessionInv` has the properties themselves and what they rest on: a number that
a deregistration is about belongs to the session's key as long as it lives, an expiry that moved
was refreshed (`SessionOK`), a first answer that named an agent was so (`WaitOK`), and the
instant since which what is awaited is so is not before the first of two answers that missed
it (`DoneOK`); that last one is what `NoMissedCompletion` needs, as the second read may
see the chain later than the first.

**Lookups.** `LookupInv`: each answer that has come was so at some time since the lookup began
(`AnswersOK`), reads come in their order and later ones only when the earlier named an agent
(`OrderOK`), what is so now has been seen (`SeenOK`). Two answers depend on each other
through the chain: a proof that is called fresh is called a proof because a number without
one never gets one again. The lookups are an instance of their module here, so what
that module assumes of its constants (`LookupConstants`, the body of its `LookupAssumption`) is
the hypothesis of `LookupCorrect`.

**The A2A endpoint.** `A2AInv` follows an answer from where it is asked for to where it is given.
`CallsOK` says of each place a handler waits at what it knows there, from the facts that were
seen since the request came: what it has read so far (`ReadingOK`), which token it polls and
what that poll was told (`WaitOK`), and what a finished answer rests on (`AnswerOK`). The other
parts are what keeps that knowledge from going stale while others act. `SessionsOK`: a session is of one
task and no two are of the same, and it is about the agent that was named. `StoresOK`: a token
is kept in the process and under the task that opened its session, and one that is gone was dropped
for a reason (`GoneFor`), which is what `PolledToTheEnd` says to the client. `TasksOK`: a handler at work
has its task for itself, nobody asks about that task yet and no session has it, so that the
session it opens is the task's first; without it a token could be stored over another's.
`RegistrationReported` is not inductive without all of them: the reply of a poll may come
when its token has been renewed by a poll that overtook it, and is right because the
token it brought along names a session of the same task. That an opened session, a later instant and a
larger `ever` spoil nothing that is known is shown once (`CallStays`), and each step of a handler
only for the call that takes it (`CallMoves`). `A2AAssumption` says that numbers are numbers, that
what stands for "none" is no key, human or call, and that scenes are made of the constants' members.

**The app's services.** `ServicesInv` says that a contract's nonce is the number of its
verified transactions under the key and ahead of each of their nonces (`TxsOK`), which makes each of
them the only one; that a store which let a request pass holds it while its timestamp is good
(`ReplayOK`); and that a number which was read for a key is no other key's (`CallsOK`). `QuotaInv`
says what a counter tells of all the requests it counted (`WindowsOK`): a count that is still
to come in this window came in earlier windows only, and of any two requests with one count, one
is as far back as a window is long. It is inductive only over *all* counted requests, so
it includes those of calls that have their count and are not judged yet; that at most one of them
is still to set the window's end, and finds it open, is part of it, and so is that a counter whose
end was never set goes on and admits nothing more once it is above the quota. From it: first counts are
a window apart, and so are two of any three others, so that any time of one window has at
most one of the first and two of each other (`TwiceTheQuota`, by an injection into
`1 .. 2 * Quota - 1`).

**The command line.** `CliInv` relates three places that may disagree, the file, a command's copy and what
the command noted while it ran: what a copy or the file says of the chain is so (`StageOK`), what was
read was noted (`RunOK`), a session whose agent is off was off it
(`GoneOK`), and a file over which nobody wrote says whether a callback was taken in (`TakenOK`).
The Python thread makes `StageOK` weaker than for the others: between the two lines of the
loop the dictionary has the stage and not yet the number, so what it says then is that the agent
had one, which is what the loop's copy knows from its read.

**The web front end.** The steps of all three pages are sorted once by what they do to the
handlers of the others (`Moves`), so that each invariant is shown for the handlers it is about and
framed elsewhere (`PagesSee`). `BaseInv` has the registry (`ChainOK`: a number is one agent's, a
key one live agent's; every step keeps an agent but for its end and its card, `Kept`), the storage, and
that every code on display, on a phone or in a handler was made after its key was stored
(`CodeOK`, `RegisterJobOK`, `ScanOK`). Storing a key takes the old entry out of the list: that no
other key is lost is a lemma about sequences. `TestsInv` keeps for each test under way the
moments its answers may be from, and that whatever a service remembers now was read at one of them
or since; a pass names an agent that lived after one. `SignerInv` is about three copies that may disagree, the shown
agent, the refs and the closures of handlers: `ShownAgentSigns` holds because every handler that
shows an agent has put its key there before or puts it there in the same step. `InfoInv` and `ListInv` say
what a lookup knows between two of its reads: everything found was asked for and has lived since it
began; what is still to be read, with what is found, is everybody who has to be named
(`Filled`); and what was read of the next agent is so of an agent that lived since (`LoadJobOK`).
That time cannot spoil it is one lemma (`LoadStays`): an agent that was there when a lookup began is either
still there or died after, and nobody who comes later has to be named. That the lookup takes the
ids one at a time needs that a set of numbers that is not empty has a least one (`NextIsOne`,
from the well-foundedness of `<`). The assumption about scenes (`BrowserAssumption`) says that earlier
agents are numbered and have different keys, and that the keys a browser is about to
generate are nobody's: keys are made of 256 random bits.

Only model-checked:
- `EveryWaitEnds` of `AgentSession`: liveness under fairness.
- The disagreement of `ClaimDeregistered`, which is a counterexample.

## 13. Where code and text disagree

`ClaimDeregistered` finds the counterexample to `typescript-sdk/src/cli.ts:936`, which says that
a wait "polls the on-chain registry until the operation completes or times out" and exits
with an error at the timeout: a wait to deregister that never got an answer takes the
initial values of its variables for those of an agent that is gone, and reports the
deregistration (`cli.ts:1117`, likewise in Rust).

Others, met while modelling; the models follow the code in each, and no run is spent on them.

Contracts and SDK:
- A smaller `maxProofAge` ends earlier proofs at once, says
  `docs/EIP_DRAFT_PROOF_OF_HUMAN.md:165`; expiries are fixed when stored
  (`SelfAgentRegistry.sol:386`).
- An owner may deregister, says
  `plugin/skills/self-agent-id-overview/references/contracts.md:145`; for a token
  minted by a `register` overload the call underflows (`SelfAgentRegistry.sol:994`).
- A freshness threshold of 0 is "no freshness requirement"
  (`SelfFreshnessChecker.sol:63`); it accepts an agent only in the block of its registration.
- `AgentDemoVerifierEd25519` takes the digest of a public key for the agent key (:93), the registry
  the public key itself, so no registered Ed25519 agent passes.
- Duplicates are rejected within the validity window, says
  `SelfAgentVerifier.ts:54`; at its last instant the replay entry is already pruned (:936).
- A valid result may carry a `proofExpiresAt` that has passed, since freshness is cached.
- A burnt token's `agentWallet` entry stays readable.
- "Verify an Ed25519 challenge signature from the agent" (`SelfAgentRegistry.sol:1099`): the signature is
  verified under `extKpub` of the payload (:1118), which nothing ties to `ed25519Pubkey`, the key
  that is registered. One signed challenge registers several public keys at their nonce 0.
- `verified` of the standalone `verifyAgent` promises a current human proof
  (`typescript-sdk/src/types.ts:4`); of an agent that is revoked between its second and third read
  the expiry is 0, which is taken for a proof without end. `VerifiedWasTrue` has the condition.
- "Distinguish RPC failures from 'not found'" (`app/app/api/agent/info/[chainId]/[agentId]/route.ts:95`):
  an error of the node that the client library calls "could not coalesce" is answered with 404 (:98).
  The lookup of the A2A endpoint does the same, and answers with a completed
  "Agent #N not found" of an agent that is there (`a2a/route.ts:954`).

Session API, command line, A2A:
- "Your agents will be shown", says `identify/route.ts:130`; the status
  route takes the latest `NullifierIdentified` event of anyone, in a window that assumes
  five-second blocks.
- A session file of the Python tool may say `onchain_verified` without an agent's number, when a
  callback is saved between two lines of the loop (`cli.py:703`).
- A second callback is refused, says `docs/CLI_REGISTRATION.md:468`; the Python listener
  forgets between two waits that one was taken (`cli.py:567`).
- The answer that opens a refresh over A2A invites polling (`a2a/route.ts:1500`), the status intent
  knows registrations only.
- "Send push notification if configured" (`a2a/route.ts:733`): the configuration was deleted
  with the token a few lines earlier (:708), so no completion is ever sent.
- The context of the current request (`a2a/route.ts:1886`) is one per process: a handler
  may forward the headers of the request that came after its own.
- A poll over A2A of a registration whose agent is revoked between `isVerifiedAgent` and
  `getAgentId` reports it complete with number 0 (`register/status/route.ts:71`).
- The stream reader of `a2a/client.ts` (:179) begins each chunk without what the last one left of an event:
  an event that two chunks share is lost or cut.

Pages:
- After a double click on start, or Back and another start, the code shown may register
  a key other than the one the page polls for and saves.
- Owner lookups scan the last million blocks only; older agents are not found, and a tab that
  is opened without a lookup says that there are none.
- "Verify" shows a registered agent without number or owner when an inner read fails, and a
  deregistration code stays on display when another agent is looked up.
- The data to deregister an Ed25519 agent from "Verify" match no agent of the registry.
- Overlapping starts of a refresh leave a poller running that nothing stops
  (`agents/page.tsx:620`).
- The demo's service and peer tests pass for an agent that was revoked before the run, as long as the
  shared verifier remembers it (`lib/selfVerifier.ts:41`).
- After "Change" the demo's chat can be unlocked by a late result, and is then signed with the
  key that is still in the refs; the key type stays Ed25519 after such an agent.
- Registration with `ed25519-linked` on the page is not polled for; with Privy it stops for
  good after one failed nonce read.

## 14. What is not modelled

- Registry: ERC-721 approvals, arbitrary `setMetadata` keys and the setter of the validation registry
  (no modelled guard reads them), the Hub's payload layout, signatures' byte forms, and the
  calendar arithmetic of `_parseYYMMDDToTimestamp` (:1181). The registry's call into
  the reputation registry is in `Attestations`, not in `SelfAgentRegistry`, where it would only
  remove mints.
- Other contracts: views without a property (`SelfReputationSignal`, `AgentGate`;
  `SelfFreshnessChecker` is there for its threshold), `SelfHumanProofProvider` (always reverts).
- Verifier: the Express middleware. `clearCache` also forgets
  the replay cache, as in the code, and the history `passed` begins again with it.
  When credentials cannot be fetched the checks that need them are skipped
  (`SelfAgentVerifier.ts:904`), and a request is recorded as seen before the chain is asked, so
  that a retry after an error is refused (:552): both are modelled, and by design.
- Sessions: request validation, the QR payload, credentials in the answer, the encryption
  of tokens.
- Lookups: credentials and what is required of them, the block of a registration, the strength
  that a provider claims for itself.
- Services: origins, request bodies, lists of JSON-RPC methods, the statistics over census
  credentials, the language model behind the chat. A counter
  whose expiry was lost (`securityStore.ts:113`) is modelled and keeps counting, which
  refuses requests and breaks no property here.
- A2A: agent cards, histories, two processes that make up one task id,
  and the copies of tasks in `A2AServer` that nothing reads.
- Command line: `status` and `export`, which only read the file, the guardian's address, and
  a write of the file that is interrupted; the Python dictionary is written out at one
  instant, though its thread might change it meanwhile.
- Pages: wording, snippets, API reference and static pages, credentials, the cache of proxy
  tokens, the halving of event windows when a node refuses one (one read of events here). A poll of a session
  answers anything there (section 6 has the routes).
- The Python and Rust libraries (ports of what is modelled; their command lines are modelled),
  discovery, the demo functions, and what MCP and the agents' own clients do besides lookups:
  I/O, translation or views.

## 15. Plan

1. *Done*: `AgentLedger`, `SelfAgentRegistry`, `SelfAgentVerifier`, `AgentSession`,
   `AgentLookups`, `Attestations`, `SecurityStore` and `AppServices`, `CliSession`, `Browser`, its
   three pages and `WebFrontEnd`, `A2AEndpoint`, each with its proofs.
2. `ProofDates`: `_parseYYMMDDToTimestamp` as a recursive function, checked day by
   day from 1970 to 2049 against a reference calendar; TLC only.
3. The session module under `RegisterPage` and `AgentPages`, in place of answers that are any.
