# A verification project for multimodel-dev-os

TLA+ models of the parts of multimodel-dev-os in which order, concurrency,
failure and the agreement of several checks decide whether the program is right,
TLC configurations that check them on small instances, and TLAPS proofs of the
results that matter most for every value of the constants.

Paths are relative to the repository. The program's own source is under `src/`;
`bin/multimodel-dev-os.js` is bundled from it.

## 1. Inventory

multimodel-dev-os is a command line tool that keeps a project's agent
configuration, and a local *model gateway*: an HTTP server on the loopback
interface that accepts OpenAI-compatible chat requests, decides a route, and
either answers with a mock provider or makes one *governed* call to an external
provider through an injected transport.

| Part | State it keeps | Operations | What can go wrong |
|---|---|---|---|
| Streaming call, `gateway/execution/stream-executor.js` | session state, finalized flag, summary, resolved credential, three timers, raw iterator, listeners, generator position | preflight, acquire, next, return, cancel, subscribe, unsubscribe, timers, caller abort | five parties can end a session at any point; the verdict must be one, the credential must be destroyed, the upstream must not be read again |
| Call without streaming, `gateway/execution/executor.js` | credential, abort listener, the race | preflight, invoke, race, classify | a transport that answers late or never; what is charged; what the client is told |
| HTTP handler, `gateway/runtime/app.js`, `backpressure.js` | timer, listeners, response, trace, health, usage | start, write head, write chunk, wait for drain, fail, finish, client close | the handler waits in three places and callbacks run meanwhile; a failure after the head cannot be answered with a status |
| Intake: `app.js`, `auth.js`, `body-reader.js`, `mock-provider.js`, `sse.js`, `observability/collector.js` | settled flag, body timer, stream timers; bounded stores all requests share | arrive, authenticate, read, mock answer, mock stream, finish a trace, charge, clear | one promise and five events; eviction between start and end of a trace; completion callbacks that do not run |
| Server lifecycle, `gateway/runtime/server.js` | state name, current server, connection set | start, stop, listen callbacks, shutdown timer, sockets | overlapping calls on one closure; clients that never close |
| Dispatcher, gate, contracts, resolver: `runtime/execution-dispatcher.js`, `execution/execution-gate.js`, `protocol/validation.js`, `credentials/resolver.js` | the compiled configuration | compile, list, resolve a route, check, resolve a credential | four checks with code of their own; objects the caller still holds |
| OpenAI adapter, `gateway/adapters/openai-compatible/` | the parser's buffer and event lines | normalize request, answer, error; feed, flush | where the stream is cut; which of several causes is reported |
| Transport policies, `gateway/transport/` | none | parse, format, classify, judge a set of addresses or a URL | forms of one address; encodings of one path |
| Registry and router, `gateway/registry/`, `gateway/router/` | a loaded snapshot | load, normalize, filter, score, rank, build a fallback chain | merging requirements; a comparison that is no order; unknown values |
| Resilience, `gateway/resilience/` | circuit state, attempt and transition history, elapsed time | circuit transition, retry eligibility, delay, fallback, simulation | budgets and limits over long sequences |
| Skill registries, `src/registry/`, `cli/handlers/registry/` | sources, download cache, lockfile, trust store, signing key | add, remove, sync, verify, clear, keygen, trust add, remove, sync | several processes and one publisher write between the steps of one sync; crashes |
| Project commands, `cli/handlers/` | the project's files, their `.bak`, memory, proposals, logs | init, onboard, adapter sync, plugin and catalog install, propose, apply, memory refresh, feedback, handoff | a kill between two writes; a person editing between two commands |
| Client tooling, bundled command | none | generate, report | not modelled |

How they interact: the server compiles the dispatcher and hands each request to
the handler. The handler authenticates, reads the body, decides the route, and
answers with the mock provider or calls one of the two executors, which ask the
contracts, the gate, the credential resolver and the injected transport. The
stream executor hands back a session, of which the handler is the only consumer,
and reads the upstream through the adapter's parser. Executor and handler share
an `AbortSignal`, which the handler's timer and its disconnect listeners abort.
The handler records events, traces, usage and health in the collector. All of it
runs on one event loop: there are no threads, and all interleaving is between
callbacks and promise reactions. Router, registry and resilience are libraries
that plan and execute nothing. The commands are processes of their own that meet
in files.

`PROJECT.json` lists every part with its status, and the hazards by line.

## 2. Modules

| Module | Models | Checked by |
|---|---|---|
| `GovernedCall` | abstract: what every governed call promises | properties `ImplementsGovernedCall` |
| `StreamSession` | `executeGovernedStream` and its session in an arbitrary environment | run `stream_session`, `StreamProofs` |
| `StreamRequest` | the streaming branch of `handleGatewayRequest` and `waitForDrain`, over `StreamSession` | run `stream_request`, `StreamProofs` |
| `GovernedRequest` | the branch without streaming with `executeGovernedRequest` | run `governed_request`, `GovernedRequestProofs` |
| `GatewayServer` | `createGatewayServer` | run `gateway_server`, `GatewayProofs` |
| `GatewayIntake` | the handler before and beside the governed branches, with the collector all requests share | run `gateway_intake`, `GatewayProofs` |
| `GovernedDispatch` | from the operator's configuration to the invocation of the transport | run `governed_dispatch`, `DispatchProofs` |
| `OpenAIAdapter` | the adapter and the SSE parser inside one call | run `openai_adapter`, `DispatchProofs` |
| `AddressText`, `SpecialRegistries`, `TransportPolicy` | text forms of addresses; the checked-in special-purpose registries and what they decide; the address and destination policies | run `transport_policy`, `TransportPolicyProofs` |
| `GatewayRegistry`, `RoutePlanning` | the registry snapshot; `resolveGatewayRoute` over it | run `route_planning`, `RoutingProofs` |
| `ResiliencePolicies`, `Resilience` | the normalization of policies; `simulateGatewayResilience` with classification, retry eligibility, backoff, timeout budget, fallback and circuit breaker | run `resilience`, `RoutingProofs` |
| `RegistryTrust` | the `registry` commands as processes over shared files | run `registry_trust`, `RegistryTrustProofs` |
| `ProjectFiles`, `ImprovementLoop`, `ProjectInstall`, `ProjectCommands` | a project's files and the process of one command; the commands of the improvement loop with the workflow runner; the installing commands; all of them on one project, with kills | run `project_commands`, `ProjectCommandsProofs` |

The `MC` modules only give constants their values. A definition whose comment
begins with "Mutant of" or "MUTANT" is not part of the specification: it is the code
with a plausible mistake, with which a property is shown to fail.

### Granularity

In the gateway one action is one turn of the event loop: a callback with the promise reactions
it triggers, up to the next wait. This is how Node runs the code, provided the
reactions of one turn are not themselves interleaved with another callback; it
does hide the order of two reactions *within* a turn (see hazard
`stream-executor.js:648`). In the commands one action is one write of a file, or, where
a command is over within a tick and is never interleaved, the command. Timer delays are not modelled: an armed timer may fire
at any later time, so a property holds for every setting of the timeouts.

### StreamSession

`phase` is where the call is (`idle`, `acquiring`, `open` when the session was
handed out, `refused`); the other variables carry the names of the closure's
variables. `RefuseCall` and `BeginAcquisition` are the call itself:
the synchronous preflight, in the code's order of checks (`CheckOrder`), of which
the first failing one decides the error (`Decisive`). `AcquisitionFails` and
`AcquisitionSucceeds` are the two continuations of the transport's promise.
`FinalizeOnce` is `finalizeOnce`: everything that ends a session calls it.
`ConsumerNext`, `ConsumerReturn`, `Subscribe`, `Unsubscribe` and `Cancel` are
what the session offers; `FragmentArrives`, `BodyEnds` and `ReadFails` are the
outcomes of the pending `rawIterator.next()`; `Process` is the loop over the
events of one fragment. The parser is represented by what it yields for a
fragment: a sequence over chunk, invalid, usage, done, error.

A `yield` hands control to the consumer, which may never come back: `generator`
is `yielded` until the consumer acts. `return()` on a generator that was never
started runs no `finally` block, which `ConsumerReturn` keeps: a session that is
only returned holds its credential until the total timer fires. A body that
arrives after the acquisition was aborted is dropped without `return()`, as in
the code.

### StreamRequest

The handler is a sequence of stages (`handler`) between its waits. Actions of
the environment (`Drained`, `ClientCloses`, the timers, the upstream) are enabled
only while it waits; an action that wakes it sets the stage, and `HandlerRuns`
takes it to its next wait. `FailStream` is the `catch` block followed by
`finally`. `RequestInit` allows at most one failing preflight check, because
`StreamSession` explores their combinations.

### GovernedRequest

Preflight, invocation and race, with the handler's timer and listeners. `RaceEnds`
is the `finally` of the race (listener removed, credential destroyed), `Respond`
everything the handler does with the result. `TransportTooLate` is the settled
transport that lost. An error without a status is answered 500: no code of the
result is mapped through the status table. The executor's two checks for an
already aborted signal cannot fail here, because the handler's signal is fresh
and the preflight runs in one turn.

### GatewayServer

Each `start()` that passes its guards creates a new server, a *generation* in
`Servers`; the closure's variables refer to one of them. `closing` are the
servers whose `stop()` waits. `orderly` is a history variable: it is true as long
as callers awaited each call before the next and no server failed after it
listened. `StopContinues` is what follows the await in `stop()`.

### Resilience

`simulateGatewayResilience` is a loop over outcomes that the caller supplies; the
state is that of its local variables, one turn of the loop is one step. `Succeed`
is a success, `Fail` a failure with what is decided about it: `Retry`, `FallBack`
or `GiveUp`; `RunOut` is the end of the loop. The planners the loop calls are
operators: `Eligible` (`evaluateRetryEligibility`), `Calculated` and `Capped`
(`calculateRetryDelay`), `RetryPossible` (`planTimeoutBudget`), `MayFallBack` and
`Untried` (`planFallbackTransition`), `Observe` (`simulateCircuitBreakerTransition`).

An error code stands for the category it is classified as. An outcome reports on
the current route. Time is planned and not spent, so `elapsed` is the sum of
delays; the start time, a common offset, is its default of 1. The jitter of a seed
is any change of up to a tenth. The breaker's "attempt" event is left out because
the simulation never sends it.

### GatewayIntake

`request[q].at` is where the handler of a request is. The stages in `Urgent` are
points inside one turn, and `Busy` keeps every other action out until the turn is
over; those in `Waiting` are its awaits. `request[q].armed` are the timers and pending
writes of that await. `traces`, `events`, `usage` and `health` are the collector's
stores, cut by `Bounded` (`pushBounded`); `FinishTrace` replaces an open trace where it
stands and does nothing when it was evicted or cleared. `Log` writes an event under the
type `safeType` makes of it. A governed call without a stream is one action with its
outcomes, because `GovernedRequest` is about it; a governed stream is what the stores and the
client see of it (refused, head, chunks, completed with or without reported usage, failed),
because `StreamRequest` is about the rest. Usage and health are switched by flags of their own.

### GovernedDispatch

`given` is the configuration object the program holds and may change (`Edit`),
`checked` what `createGatewayServer` looked at, `origin` what `start()` compiled and
`compiled` the dispatcher's frozen copies. `Call` is one governed call: route, contract
(`ContractHolds`), gate (`Gate`), transport, credential, normalization (`Normalizes`) and the
limit of the request's size, in the executors' order; the first denial is its `code`. `Binding` compares an endpoint with the adapter's base
character by character.

### OpenAIAdapter

A body is a sequence of tokens with a weight in bytes, `Json` says which pieces spell an
object. `FragmentArrives(n)` is a fragment of `n` tokens: `Feed` splits it into lines
and events as the parser does, keeping the rest, and `HandedOn`/`Settle` is the
session's loop over the events. `BodyEnds` flushes. The properties read the same body in one
piece with definitions of their own (`BodyEvents`).

### AddressText and TransportPolicy

An address is a number of `Width4` or `Width6` bits and the text form it is written in;
the registries are the constants `Records4` and `Records6`, so that the policies are
checked, and proved, over any tables. The loops over the records and over the passes of percent-decoding are the
state machine. What a parser answers need not be the text it was given: `Normalized` is the
one rewriting there is, that of a dotted NAT64 address. A path is a sequence of characters, each with the number of times
it is encoded. `AddressText` formats and parses words, checked against the definition of
RFC 5952 (`CanonicalTexts`) and the dotted texts of the two prefixes that embed an IPv4
address (`DottedTexts`).

`SpecialRegistries` holds the two tables of `registry-snapshot.js`, a row for a row, and
classifies an address by them (`Judged`): its digits are four octets or eight groups,
and a block is compared digit by digit. `JudgeAddress` is `classifyAddress` over them, for the
addresses of `MCAddresses`: both ends of every block, the addresses next to them, and the forms
in which IPv4 addresses of each kind travel in IPv6.

### GatewayRegistry and RoutePlanning

`GatewayRegistry` has operators only: a source document becomes providers, models, local
models, presets and the set of errors. `RoutePlanning` loads a question (a source, a
request and a caller's policy), merges the three policies into `merged`, filters
(`Rejections`), scores in integers (`Score`, a sum of rounded shares; prices, latencies and
weights are natural numbers, so what `toFixed` makes of a score is abstracted), and ranks. The comparison of two candidates is not transitive, so the
ranking is any order whose neighbours are in order. The two loops of
`planGatewayFallbackChain` are `Spread` and `Fill`.

### RegistryTrust

The content of a file is the release it belongs to. `RegistrySync` and `TrustSync` take a
step for each answer they await or file they write, and `Crash` may leave the file
being written empty; the other commands are one step. `Publish` changes what the server
of a registry serves, at any time. A release's manifest may give no hash of its catalog
(outside `Promising`) or have signatures over which the verification throws (`Throwing`), which
sync swallows. `fresh` is a history variable.

### ProjectFiles, ImprovementLoop, ProjectInstall, ProjectCommands

`cmd` is the running command with the list of writes it has still to do (`todo`) and
what it read at the start; a step does the first. `KilledBetween` ends the process
between two writes, `KilledWriting` inside one, which leaves memory files torn. People
edit files and proposals between two commands. A validation that does not end (an empty
search text) is a command that stays (`HangInValidation`). `RunWorkflow` starts the
runner; each of its steps either writes memory as the command of that name does
(`RefreshStep`, `SummarizeStep`) or reports (`ReportStep`), and a kill may come between.
A text is a sequence of lines and a line stands for itself, but for what `trim` makes of
it (`Padded`, `Trim`) and for replacements that `String.replace` reads as patterns
(`Inserted`). `PluginStatus` reads the manifest that is there: one that is torn shows nothing.

### GovernedCall

Three variables: a call is requested, then refused or running, then settled;
the credential is live exactly while the call runs. Both call models are shown to
implement it, with fairness by TLC and its safety part by TLAPS.

## 3. Runs

| Run | States | Bounds | Shows |
|---|---|---|---|
| `stream_session` | 11,118 | 8 fragments of at most 3 events, byte limit 3, 2 listeners | one session, any environment |
| `stream_request` | 759 | the same fragments, the one listener of `waitForDrain` | the handler records what the session did |
| `governed_request` | 4,342 | none: every set is the code's own, and an error's status any from 100 to 599 | answer, trace and event agree |
| `gateway_server` | 88,340 | 3 starts, 2 clients a server | state is truthful, `stop()` returns |
| `gateway_intake` | 335,730 | 2 requests, 5 configurations with usage and health on or off, bodies up to 1 over the limit, 2 chunks, one event, stores of one or two entries, 1 clear | the stores tell what was answered |
| `governed_dispatch` | 983,296 | 1 call of one of two sizes, 1 edit of a configuration, 2 starts, providers with up to two wrong fields | what is sent is what was configured |
| `openai_adapter` | 37,721 | bodies of a few events with small buffer and event limits, every fragmentation; errors with up to two statuses | the result does not depend on the cuts |
| `transport_policy` | 29,669 | addresses of 3 and 8 bits, the border addresses of every registry row, sets of up to 3 records, 3 passes, paths of a few characters with up to four encodings, every list of eight words with one run of zeros, dotted texts of two prefixes and others | policies over every small input |
| `route_planning` | 26,987 | 4 providers, registries with broken and missing files, every request and policy of `MCQuestions` | a plan keeps what was required |
| `resilience` | 101,848 | 5 outcomes, delays up to 8, 11 policies, 3 chains | budgets, routes and breaker over whole sequences |
| `registry_trust` | 2,590,204 | 1 registry, 2 releases (one signed with a hash of its catalog, one without a hash and with signatures that throw), 1 key with 2 versions, 2 processes, 3 commands | files of several processes and a publisher |
| `project_commands` | 590,341 | 3 commands, 1 edit, 5 paths, 7 proposals, 4 versions of a plugin, a workflow of 4 steps | sequences of killed commands |

Why the bounds are enough. *Fragments*: they contain every event of the parser, each
alone and in the orders the loop distinguishes (nothing, a chunk, two chunks, [DONE]
alone and after a chunk, something after [DONE], an invalid chunk, an error after a
chunk). *Byte limit 3* lets a stream reach the limit exactly, exceed it with the first
or a later fragment, and stay below. *Two listeners* are enough for one to be
subscribed while the other is late or has left; a listener subscribes again only
until it was heard, so that a second call is the session's. *Three starts* are enough
for a stopping, a failed and a current server at once, and two clients for one that
leaves and one that stays. *Five outcomes* are enough to take all three fallbacks
of the longest chain, give up, and have an outcome left, and for a breaker to open,
wake and open again. A chain of three is the shortest in which skipping only the
current route, and not the used ones, goes in a circle. Each of the eleven policies opens
one path: disabled, retrying, breaker, out of time, each backoff, jitter, a list of
retryable categories that names the forbidden ones. Delays above 8 are cut off by the
policies' own caps.
*Two requests* with stores of one entry are the least with an eviction between the start
and the end of a trace. *One edit and two starts* let a configuration change between check
and compilation, between compilation and call, and across a restart; calls do not
interact, so one is enough. *Two releases, of which one is signed, and two processes*
let a sync meet another one, or a publisher, at each of its steps; the proofs lift all
of it. *Three commands* are a killed run, the run after it, and one that reads what both
left. *Three and eight bits*: wide enough for a special record inside a special one, and
for the mapped, NAT64 and global ranges of IPv6 to hold every IPv4 address.

Deadlock is not checked: a request, a session, a stopped server, a simulation, a call
and a question come to rest, and commands are bounded.

### Fairness

`StreamSession` assumes that an armed total timer fires. `StreamRequest` and
`GovernedRequest` assume that promise reactions run and that the handler's armed
timer fires; `GatewayServer` that the shutdown timer fires; `GatewayIntake` that a
handler which can go on does, its timers included, and that governed execution ends,
which the two modules about it show. The event loop justifies exactly this. Nothing is
assumed of clients, transports and upstreams, which may stop at any point, so that the
liveness properties say that the timers alone are enough. The other modules state
safety only: a command may be killed and a question may never be asked.

## 4. Properties

Each property is in a run unless marked *(proved)*: those hold by a theorem for every
value of the constants and are not run again.

`StreamSession`: a live credential always has an armed total timer and an
unfinalized session (`CredentialGuarded`, proved) and is eventually destroyed
(`CredentialEventuallyDestroyed`); a finalized session holds nothing
(`FinalizedIsQuiescent`), never changes its verdict (`SummaryIsFinal`, proved) and never
reads the upstream again (`NoReadAfterFinalization`, proved); completed means whole
(`CompletedIsWhole`, proved); the three places that report a failure agree
(`OutcomesAgree`, proved; a caller's own cancel reason is the exception); a listener is
called exactly once if it asked, before or after the finalization, and never if it did not
or left in time (`ListenersHeardOnce`).

`StreamRequest`: a recorded success was one (`SuccessIsReal`); the trace follows from the
session's verdict, for each of the four (`TraceMatchesSession`; a client that leaves while
the handler writes to it is the one difference, divergence 2); a finished request holds nothing and
leaves no client waiting (`NothingLeftBehind`); one kind of answer
(`OneKindOfAnswer`), one verdict (`VerdictIsFinal`, proved), and every request is
finished (`RequestFinishes`).

`GovernedRequest`: the abort signal decides (`VerdictFollowsSignal`); usage is recorded
once and only for a completed call, whatever status an error brought along
(`OnlySuccessIsCharged`, proved); nothing is left behind
although the transport may still run (`NothingLeftBehind`, proved); every request is
finished (`RequestFinishes`).

`GatewayServer`: `StateIsTruthful`, `StopReturns`, `ConnectionsAreTracked` (proved).

`GatewayIntake`: a trace is open exactly while its handler runs, or for good when a
client left a mock stream, which resolves without its completion callback
(`OpenTraceIsActive`); a finished trace has the status the client received, or the failure's
status beside the 200 of a head already sent (`TraceTellsAnswer`); usage records are those of
the successes health counts, but for streams that reported none and as far as both are
collected, each request once and none that failed (`BooksBalance`); every request finishes although a client may stall
(`RequestsFinish`); nothing stays armed (`NothingLeftArmed`, proved).

`GovernedDispatch`: what reaches the transport is what the compiled configuration allows,
never larger than its limit, and a listed model is refused only for a cause `CausesOf` names
(`AuthorizationIsExact`; four of the causes may hold for every call, divergence 15); an unedited configuration runs with all its routes
(`AcceptedIsListed`).

`OpenAIAdapter`: chunks and completion are those of the whole body however it is cut
(`FragmentationIsInvisible`); no undeclared tool call passes in any choice
(`ToolsAreDeclared`); an error ends as a cause that a status it came with is documented for or
one of its words names, and where the HTTP status reaches the adapter it decides for errors
without such words and is kept (`ErrorKeepsCause`). The right side is a table of its own
(`Documented`, `WordsSay`), not the classifier.

`TransportPolicy`: an approved set is whole, each address in its own text but for the dotted
NAT64 form, without repetition and, where each has a number, in order
(`ApprovedIsWhole`); an address that carries an IPv4 address is judged by it, too
(`CarriedIsAllowed`); an accepted path is plain under all its encodings
(`AcceptedPathIsPlain`); addresses are understood (`AddressesAreUnderstood`): a text is
accepted exactly when it is the canonical hexadecimal one or a dotted one of the two
embedding prefixes (`TextsAreCanonical`), and an address the
checked-in registries approve has no forbidding row that a more specific one does not
overrule, and carries, as mapped, NAT64, 6to4 or Teredo, no IPv4 address that is forbidden
(`RegistriesLeaveNoBypass`).

`RoutePlanning`: selected route and fallbacks have the capabilities all three sources require
and nothing one of them excludes, stay local where one asks for it, and have the sizes, the
provider, the model and the statuses that were asked for; the lists of preset and caller are
united, so a route is on one of them (`RoutesMeetRequirements`); a diverse chain goes back to a provider only when
all were used and is as long as it can be (`ChainIsSpread`); unknown cost or latency
never wins over the best known one (`UnknownIsNotBest`); a preset does not reject the
models it names by id (`PresetsReachTheirModels`).

`Resilience`: the breaker's state means what its counters say (`CircuitIsHonest`), and
giving up means that the chain was tried (`GivesUpHonestly`). The latter has an
exception: a retry that is eligible but has no time left also stops the fallback
(`retry-still-eligible`), and as `retryable` of the timeout policy is off by default,
this is what a default timeout policy does with an enabled retry policy. No document
says otherwise, so the property states it. Proved: the attempts are bounded by policy
and chain (`AttemptsAreBounded`), a planned retry leaves time for the attempt
(`RetriesLeaveTime`), no route is used twice (`RoutesAreFresh`), a failure that nothing
can cure ends the simulation whatever the policy lists (`FaultsEnd`).

`RegistryTrust`: under `require_checksum` a lockfile entry whose manifest gives the hash of its
catalog describes one release (`LockedIsOneRelease`); under `require_signature` no command
records the verdict of an allowed unsigned registry for a missing, blank or unsigned manifest
(`RequiredSignatureIsNeverWaived`; a manifest that makes the verification throw is the
exception, divergence 19; the run's releases are all signed or throw, so that the
unsigned manifest of the run is a missing or blank one and the theorem has the rest); a verdict "verified" is
about the manifest that is locked (`VerdictIsAboutLockedManifest`); a cleared cache does
not verify before the next sync (`ClearedNeverPasses`, proved).

`ProjectCommands`: what an apply changed is named by the log (`AuditCoversChanges`); a
record of success tells the truth of each operation that is alone on its file, whatever the
others do (`AppliedAsValidated`); where an asset of a plugin is, `plugin status` shows the plugin, and
the summary is never ahead of the index (`KilledRunsLeaveOrder`; a forced run killed inside the
write of the manifest is the exception, divergence 22); nothing is
overwritten unasked or without its backup, with the exceptions of `init`
(`OverwritingIsDeliberate`).

## 5. Divergences

Where the program does something else than a document, test or comment says. For the
first eleven the modules hold the documented claim as a definition, named here, that TLC
refutes under the module's configuration; none of them is a property of a passing run.

1. (`ErrorFrameIsFollowedByDone`) `docs/gateway-streaming.md:62` promises a terminal `[DONE]` after the error frame of a
   stream that fails mid-way; `app.js` ends the response without one.
2. (`DisconnectIsCancelled`) `docs/gateway-streaming.md:63` says a client that disconnects aborts the execution signal
   and is recorded as cancelled. `onClose` does not abort once the head is sent, so
   whatever ends the stream next decides: the stream can be recorded as failed or
   timed out. A client that leaves while the handler writes or drains (`app.js:449`) is
   recorded with 502 and `governed-stream-failed`, although the session says cancelled.
3. (`RuntimeTimeoutIsTimeout`) When the gateway's own timer aborts the acquisition with an error of status 504,
   the session's `onCallerAbort` does not recognise that error as a timeout; the
   request is answered as cancelled, where `docs/gateway-streaming.md:18` says 502 or 504.
4. (`StopClosesServer`) `docs/gateway-local-server.md:37` says `stop()` is idempotent and closes the local server.
   A `start()` during a pending `stop()` is not refused; the `stop()` then forgets the
   new server and reports `stopped` while it listens.
5. (`UsageIsCounted`) `executor.js:383` redacts the transport result before it is normalized. The
   redaction replaces values whose key matches `token`, so the counts of an object
   payload are lost, where `docs/openai-adapter-normalization.md:35` says they are mapped.
6. (`DelayBudgetHolds`) The fixture `tests/fixtures/gateway-resilience/delay-budget-exhausted` expects that a
   retry is not eligible once the planned delays have used up `max_total_delay_ms`, and
   `docs/gateway-retry-policy.md:34` says the total delay is bounded.
   `retry-policy.js:129` compares the remaining budget only where the total is zero; each
   delay is capped by the total, their sum is not. No test loads the fixture.
7. (`PassedCacheMatchesManifest`) `docs/registry-sync.md:13` says downloaded files are
   verified against the publisher's manifest. `registry verify` compares the cache with the
   checksums the sync computed itself (`cli/handlers/registry/signing.js:86`), so a cache
   whose manifest another sync replaced passes.
8. (`FailureEventsMeanFailure`) `docs/gateway-audit-events.md:7` calls the event names
   intentionally precise. `observability/events.js:22` turns every type it does not list
   into `request-failed`; `route-selected`, `execution-*` and `governed-stream-*` are
   not listed, so every successful governed request logs failures.
9. (`RunsWhatWasChecked`) `tests/integration/gateway-governed-runtime.test.js:126` says that
   mutating the configuration after its validation cannot alter execution.
   `runtime/server.js:32` only checks; `start()` compiles the caller's object again at
   `:77`, and `app.js:165` does not look at the dispatcher's `success`.
10. (`ApprovedIsAscending`) `CHANGELOG.md:62` promises approved addresses in a
   deterministic order. `ipv6-policy.js:56` normalizes a dotted NAT64 address to a text
   that does not parse again (`64:ff9b:8.8.8.8`), the comparison at
   `address-policy.js:190` fails for it, and the order depends on the input's. The set that is
   approved then holds a text that is no address. The hexadecimal and the dotted text of a
   mapped or NAT64 address are both accepted and not recognized as one address.
11. (`NeverByDefault`) `docs/faq.md:48` says files are never overwritten by default and
   backed up with `--force`. `init.js:178` overwrites the rules file of an adapter without
   asking, and `init --force` makes no backup.
12. `error.js:141` looks for the text `stream` in a message, which `upstream` contains: a
   401, 429 or 500 whose message says "upstream" becomes `stream_error`, against
   `docs/openai-adapter-normalization.md:47`. And where the body nests the error,
   `executor.js:518` hands only that to the adapter, so the HTTP status beside it, which the
   table in that document maps by, is lost unless the error repeats it. `ErrorKeepsCause` lets words decide and
   claims the HTTP status only where it reaches the adapter (`StatusReaches`).
13. The executor looks for `normResp.error` and `normResult.error`, which the adapter never
   sets: an unsupported capability of an answer is reported as `upstream_protocol_error`.
   `retryable` is dropped at `executor.js:520`.
14. A preset that names a model by an alias loads without an error (`snapshot.js:109`) and
   then rejects that model (`filters.js:48`); exclusions of a preset are never normalized and
   have no effect; `max_tokens` counts for the required output and not for the required
   context (`filters.js:10-22`); priority 10 scores below no priority at all
   (`scoring.js:51-55`).
15. A provider whose `credential_env` is null compiles and is listed, but every call to it is
   refused (`validation.js:777`); an adapter without the capability "chat", a transport without
   streams and a `max_request_bytes` no request keeps (`executor.js:293`) likewise.
   `CausesOf` names all four. `execution-gate.js:205` uses a constant it does not import; the
   executors check the same contract first, so the line is not reached from them.
16. `registry-snapshot.js:35` and `:452` call the tables the exact official snapshot, and the
   maintenance script prints that they match the fixtures perfectly
   (`scripts/maintain/normalize-iana-special-registry.js:280`). It compares prefixes and
   lengths only. `iana-ipv6-special-registry-1.csv`, whose digest the metadata carries, gives
   2001:20::/28 and 2001:30::/28 as globally reachable; the snapshot denies both
   (`:695-724`, as do the tests). The departure is on the safe side. `Departures` in
   `MCTransportPolicy` names every such row and `FixtureAssumption` states that there is no other.
17. `executor.js:421` and `:529` take the status an error brings along. With 200 the client gets
   status 200 with an error for a body, and the trace says 200 although the event is
   `execution-failed`. It is not charged (`OnlySuccessIsCharged` is therefore about the event).
18. `docs/security-threat-model.md:93` says the manifest contains the catalog's hash and any
   discrepancy halts synchronization. `sync.js:193` compares only where the manifest gives a
   `catalog_hash`, and `:205` swallows the exception of one that is not text: a release that changes between two
   downloads is then locked as a mixture, under `require_checksum`, too.
19. `docs/registry-security.md:125` says sync fails on an unsigned or badly signed manifest
   under `require_signature`. Sync records "failed" (or "unverified") in the lockfile, goes on and reports
   success. With `"signatures": [null]` the verification throws, `sync.js:257` swallows it, and what is recorded is the
   verdict it began with, `unsigned_allowed`.
20. `docs/approved-proposal-apply.md:62` says `find` is replaced by `replace`. `improve.js:742`
   hands the replacement to `String.replace`, which reads `$&`, `$$`, `` $` `` and `$'` in it as
   patterns; with `allow_multiple` it is taken literally. The validation of a second
   operation on one file looked at the text before the first.
21. `docs/approved-proposal-apply.md:94` calls the workflow runner strictly read-only. It
   refreshes the project's memory and summarizes feedback into its rules (`workflow.js:180-205`).
22. `plugin status` says nothing of a plugin whose manifest does not parse (`plugin.js:439`). A forced
   reinstallation killed while it writes the manifest leaves the assets of the run before without a status.
23. A list of providers or models that the caller's policy gives widens that of a preset instead of
   narrowing it (`policy.js:144-145` unites the two).

## 6. Proofs

All proofs hold for every value of the constants, under the assumptions the modules
name. They constrain the shape of inputs, never their number: `FragmentsAssumption`,
`MaxResponseBytesAssumption`, `DrainListenerAssumption`, `MaxStartsAssumption`;
`PlansAssumption`, `PoliciesAssumption` and `NumbersAssumption` of `Resilience`;
`QuestionsAssumption` of `RoutePlanning`, which says that a registry's documents are finite and
which of its numbers the normalizations keep;
`IntakeAssumption`; `DispatchAssumption`; `CapsAreSizes`, `JsonAssumption` and
`AdapterCallsAssumption` of `OpenAIAdapter` (of each choice it is known whether it is well
formed and calls tools, and a body is made of tokens that have a weight);
`RegistryAssumption`; `PolicyAssumption`,
`RegistriesAssumption` and `InputsAssumption` of `TransportPolicy`; `WordsAssumption` of
`AddressText`, which says that a printed group is no colon and no dotted rest, and "0" is one; `SnapshotAssumption` of
`SpecialRegistries`, which is about its own tables; `FilesAssumption`, `LoopAssumption` and
`InstallAssumption` of the project's commands. One is about people and not about shapes:
`AssetsAssumption` says that nobody but a plugin's installation, in any version, writes the
plugin's assets or its manifest, by hand or by a proposal, and that no plugin ships an asset
where another has its manifest; without it an asset may be
there without its manifest for reasons no command is to blame for. TLC evaluates each in a run.

*StreamSession.* `IInv` adds to the types and `FinalizedIsQuiescent` what each phase
fixes (`Lifecycle`) and that summary and finalized flag go together
(`SummaryMatches`). It is needed because, for example, `FinalizedIsQuiescent` alone
does not exclude that a timer is armed or a credential resolved after the
finalization. `FinalizeOnceLemma` shows that `finalizeOnce` re-establishes all of it
whatever the state and error; each action is then a short step. From `IInv` follow
`TypeCorrect`, `Quiescence`, `CredentialSafety`, `SummaryFinality`,
`OutcomeAgreement`, `CompletionIsWhole` (with their own strengthenings),
`NothingReadAfterwards` and `Refinement`, the implementation of `GovernedCall`'s safety part.

*StreamRequest.* Each step of the composition is a step of the session or leaves it
alone (`RequestStepIsSessionStep`), so `RequestImplementsSession`, and the session's
invariants hold in the gateway (`RequestKeepsSessionInvariants`). `VerdictFinality` needs
only that a finished handler is a recorded one. The properties of the handler rest on `RInv`:
for each place of the handler it says what the session may have done since. The handler
awaits the session whenever a callback of it runs, so a session finalized from outside is
heard in the same turn, and what the handler writes to trace and client afterwards agrees
with the summary. For `ListenersHeardOnce` the subscriptions the session keeps
are compared with those the environment asked for (`subscribed`): until the finalization they
are the same, and afterwards each that asked has been heard once. `ListenerStep` says what each
step does to both.

*GovernedRequest.* None of the properties is inductive: they speak of a finished
request and hold because of what was still untouched before. `IInv` says, for each
stage of the handler, what was and was not done.

*GatewayServer.* `StateIsTruthful` does not say which server a `stop()` waits for;
`OrderlyState` adds it, and where sockets can be open.

*Resilience.* Bounded attempts need the number of fallbacks bounded, which needs them to
be distinct members of the chain: `InOrder` says that the fallbacks taken are a prefix
of the chain, `Accounted` that every attempt was a retry or a fallback, `CircuitFacts`
what the breaker's counters mean. All safety properties of the module follow.

*GatewayIntake.* What a handler has armed depends only on where it is. That a trace tells
what its client received needs what is on the wire before the answer (`WireFollows`).
`OneGoesOn` says what a step of one request must establish for all of them, so that each
action is a statement about one handler; `BoundedKeepsElements` that eviction invents
nothing. Every step does one of four things to the traces: it leaves them, starts one,
finishes one or clears them, so that `OpenTraceIsActive` is four statements; a request is
charged and counted in the step that ends it, hence once (`BooksBalance`).

*RegistryTrust.* The properties are nearly inductive; `IInv` adds the one fact a process
carries through a sync: past the comparison of checksums, what it downloaded is one
release (`ComparedIsOneRelease`), whatever was done to the cache since. That a cleared
cache has no list of checksums (`UndescribedHasNoChecksums`) gives `ClearedNeverPasses`.

*TransportPolicy.* `ForbiddenIsOverruled` is about prefixes: among the records that cover
an address the longest exist (`MaxExists`, by well-founded induction over subsets), and
where they allow it, each forbidding record is overruled by a longer one.
`Nat64IsJudgedInside` turns that to the embedded address. For paths, `PassesSawNothing`
says what the passes so far exclude: what is encoded n times shows in pass n - 1.

For sets of addresses, `ApprovedIsWhole` follows from what inserting a record does to an
ordered list without repetitions.

`AddressesAreUnderstood` takes no invariant, for each answer is one step; it takes what
the two functions compute for every input. The tables are the rows the code has.
`BlockWithin` says that of two blocks that share an address the longer lies in the other, so
the most specific rows are one row (`BlocksAreSound`, which TLC evaluates on the code's tables; the
code's own self-check compares only the texts of prefixes), and that row decides what is overruled (`SpecificDecides`). A row that may be
reached, but for that of NAT64, begins with the group 2620 or with 2001 and one of the groups 1, 3
and 4, not with Teredo's 0 (`CarriesNone`); what it holds therefore carries no IPv4 address
(`ReachedCarriesNone`), and what no row holds carries none because each of the standard ways
has a row (`CarriedByRows`). For texts, `LongestRunIsFound` is the invariant of the one scan:
where it stands in a run of zeros, and that what it remembers is the first of the longest
before. With it what is printed is the text of RFC 5952 (`FormattedIsCanonical`); the way back
is `PartsOfJoined` (what is joined comes apart again), `FormattedReads` (the text of eight
groups reads as these) and `ParsedIsFormatted`. Scan and split are recursive functions, and
`UpTo` does the induction: of the numbers for which a fact would fail there is no least one.

*GovernedDispatch.* What the dispatcher compiled is sound, whatever became of the object it
was compiled from (`CompiledIsSound`): each provider passed the checks of its endpoint,
adapter and credential, each route names a provider that serves its model. What a call
takes on its way to the transport are parts of it, so what the checks of the call ask and
what they may not refuse are facts about the compiled copies alone.

*OpenAIAdapter* (in `DispatchProofs`). `ToolsAreDeclared` and `ErrorKeepsCause` are about every
event the parser can make, so `SoundEvent` says which those are: a chunk has harmless choices
only (`ParsedIsSound`), an error about tools has the code that says so. A scan is a recursive
function of the number of tokens read. The library's induction takes an operator the provers
cannot supply; instead `ScanSteps` takes the least number for which the function would not
exist, and `ScanIsSound` the least after which a scan would not be sound, and both are
impossible. What is handed on is collected in the same way (`HandedOnIsHarmless`).

`FragmentationIsInvisible` compares the parser with another definition of the same body, and
`FragmentIInv` says at which position of the body they have to agree: while the stream is read
there is a k so that the parser's buffer is the last, unended line of the first k tokens, its
event lines hold the data of the last, unended group of lines (`Follows`), and what was handed
on is what the groups that had ended said (`Complete`), none of it a fault or the [DONE]
(`Reading`). One token more changes the position as it changes the scan (`TokenLine`), so
a fragment, cut wherever it may be, leads to a later position, to the [DONE] or to a failure
that the whole body or a limit explains (`FeedReads`), and the end of the stream to the same
answer as the whole body (`Told`). The attempt found a definition that was too weak a
condition: `EndsWithDone` held of a body with a second [DONE] after the first, which the parser
refuses as trailing data; it now asks that nothing but white space follows.

*ProjectCommands.* A command reads everything first, so the invariant says how what it has
still to do is related to what it read. An apply stands at one place of its record
(`ApplyInOrder`): the operations before it have had their effect on the texts noted in
`before`, those after it are still to do, and of an operation that is alone on its file the
file says so (`ApplyInOrder`, `Alone`). That a single replacement of a text that occurs once is
the replacement of each occurrence is `ReplacedOnce`, with `FirstMatch` and `OneMatch`. `MemoryInOrder` lets a summary be written only over the
index it goes with. `InstallInOrder` says that only the first copy can have had its backup
made and that, without `--force`, no copy names a path that existed, so the file about to be
overwritten is judged by the head of the list. `Writes` names, for each changed file, the
one step that may have changed it; with `AssetsAreOwn` and `ManifestsAreOwn` it gives
`ManifestFirst`: a manifest is absent, torn or that of a known plugin (`ManifestsAreKnown`).

*RoutePlanning* (in `RoutingProofs`, with *Resilience*). `RoutingIInv` says what a ranking
guarantees and what the two loops have seen. `RoutesMeetRequirements` needs that the
candidates a ranking holds passed the filters under `Merged`, and that merging only adds
to what each of the three asks. For `UnknownIsNotBest` a score is compared share by share:
a rounded share of a part of a weight is no more than the weight (`ShareOfPart`), the least
known metric has the whole and an unknown one no more (`MetricFacts`), and candidates alike in the rest
have the same other shares (`AlikeInAll`), so the known one scores no less (`ScoreRises`) and
has a warning less. That the first of any order whose neighbours are in order is best by
score and then by warnings is `RankingFacts`; the argument needs of the score only that it
rises, and so holds of the rounded one of the code as well. `ChainIsSpread` is about the
loops: the first ends with every provider used or the chain full (`SpreadEndsWell`), so that
the second may repeat any, and a chain that is not full when the second ends has each ranked
route (`FillKeeps`).

Every safety property that a run checks is stated by a theorem. Only model-checked: the
liveness properties (`RequestFinishes`, `RequestsFinish`, `StopReturns`,
`CredentialEventuallyDestroyed`, and the fairness in `ImplementsGovernedCall`, whose safety part is
`Refinement`), for which the prover has no rules.

## 7. Not modelled

See the components in `PROJECT.json` with their notes. Left out for good reason: client
tooling and bundled code (text generation); commands that only read; the validators of
skill documents; the queries, snapshots and metrics of the collector (they read); the
advice of the rate-limit and quota planners. Left out with a limit to what is shown:

- two commands at once on one project (only the `registry` commands are interleaved);
- dry runs, missing flags and arguments that do not validate, which change nothing;
- the copies `init` makes of the `adapters/` directory and three further template files,
  which are more of the same operation; proposal files as the target of an apply;
- time: an armed timer may fire at any later moment, so nothing is said about how long
  something takes; two proposals made in the same second overwrite each other
  (`improve.js:10`), which the models avoid by naming them;
- the limits of the adapter's buffer depend on fragmentation, so a body that exceeds them
  may fail under one cut and not under another; `FragmentationIsInvisible` excuses
  failures for size;
- `handoff.md` is itself scanned (`core/security.js:19`), so building it makes the memory
  stale; `MemoryStatus` shows it and nothing is claimed about it;
- malformed gateway configurations, hosts other than loopback, the contract of a resolver.

Abstracted in the modelled parts: error messages, timestamps, costs, redaction except
where it changes what is recorded, the text of chunks.

## 8. What could come next

1. Two commands at once on one project, with the lost updates this makes possible.
2. The skill validators over the same files.
3. The composition of `RoutePlanning` with `Resilience`, whose chains it produces; the
   breaker's "attempt" event and half-open limit as a module of their own.
