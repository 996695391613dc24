--------------------------- MODULE GatewayIntake ---------------------------
(***************************************************************************)
(* The front of the gateway's request handler (createGatewayApp) with the  *)
(* observability collector all requests share: authentication, routing,    *)
(* the read-only endpoints, the body reader, the choice between the mock   *)
(* provider and governed execution, and the mock provider's answers,       *)
(* plain or streamed.  Governed execution itself is the subject of         *)
(* GovernedRequest and StreamRequest; here it is its outcome, and for a    *)
(* stream the head and the chunks that come before.                        *)
(*                                                                         *)
(* The handler runs on one thread: from an event up to its next await      *)
(* nothing else happens.  Such a stretch is several actions, and Busy      *)
(* keeps every other action out until it is over.  A chunk of the body, a  *)
(* message or a payload is only counted.                                   *)
(***************************************************************************)
EXTENDS Naturals, Sequences, FiniteSets

CONSTANTS
    Requests,    \* the requests clients may send
    Configs,     \* runtime configurations of this instance
    BodyLimit,   \* request_size_limit_bytes, in chunks of the body
    Chunks,      \* chunks of a mock stream, bound on those of a governed one
    MaxClears    \* bound on the calls of the collector's clear()

Config == [auth : {"none-localhost-only", "bearer-token"}, exposed : BOOLEAN,
           governed : BOOLEAN, delayed : BOOLEAN, collecting : BOOLEAN,
           collectUsage : BOOLEAN, collectHealth : BOOLEAN,
           maxEvents : Nat \ {0}, maxTraces : Nat \ {0}, maxUsage : Nat \ {0}]

ASSUME IntakeAssumption ==
    /\ Configs \subseteq Config /\ Configs # {}
    /\ BodyLimit \in Nat /\ Chunks \in Nat /\ MaxClears \in Nat

VARIABLES
    config,    \* the configuration, fixed at the start
    request,   \* per request: where its handler is, and what it has armed
    wire,      \* per request: the status its client received, whether an event stream's
               \* head was written and the response ended, and who closed the socket; a
               \* response nobody will write to again counts as ended
    traces,    \* the collector's stores, oldest first
    events,
    usage,
    health,    \* per provider: the counters of its health record
    clears,    \* calls of clear() so far
    unreported \* history: completed streams without usage since the last clear()

vars == <<config, request, wire, traces, events, usage, health, clears, unreported>>
stores == <<traces, events, usage, health, unreported>>

Providers == {"mock", "external"}
Urgent == {"received", "routing", "headers", "dispatch", "validating"}
Governed == {"governed", "acquiring", "relaying"}
Waiting == {"reading", "streaming"} \cup Governed
Armed == {"body", "total", "idle", "delay", "microtask"}

AuthCodes == {"authentication_required", "authentication_failed"}

\* the status of an error code where the handler does not choose one itself
StatusByCode ==
    [invalid_request |-> 400, unsupported_capability |-> 400, model_not_found |-> 404,
     authentication_required |-> 401, authentication_failed |-> 401, policy_denied |-> 403,
     request_too_large |-> 413, timeout |-> 504, upstream_error |-> 502,
     execution_disabled |-> 403, cancelled |-> 499, internal_error |-> 500]
Codes == DOMAIN StatusByCode
Statuses == {0, 200, 405, 415} \cup {StatusByCode[c] : c \in Codes}

\* the event types the collector knows
EventTypes == {"request-received", "request-validated", "route-planned",
               "mock-provider-started", "mock-provider-completed", "stream-started",
               "stream-chunk", "stream-completed", "request-completed", "request-failed",
               "auth-failed"}
SafeType(type) == IF type \in EventTypes THEN type ELSE "request-failed"

-----------------------------------------------------------------------------
(* The collector.                                                          *)

\* the newest max records of a store after more were pushed
Bounded(store, more, max) ==
    LET all == store \o more
    IN SubSeq(all, IF Len(all) > max THEN Len(all) - max + 1 ELSE 1, Len(all))

Record(store, more, max) == IF config.collecting THEN Bounded(store, more, max) ELSE store

Log(q, types) ==
    events' = Record(events, [i \in 1 .. Len(types) |->
                                 [request |-> q, type |-> SafeType(types[i])]], config.maxEvents)

\* MUTANT: a finished trace is pushed again instead of replacing the open one
FinishTraceAppends(q, status) ==
    IF \E i \in DOMAIN traces : traces[i].request = q
    THEN traces' = Bounded(traces, <<[request |-> q, status |-> status]>>, config.maxTraces)
    ELSE traces' = traces

\* a trace that was evicted or cleared cannot be finished any more
FinishTrace(q, status) ==
    traces' = [i \in DOMAIN traces |->
                  IF traces[i].request = q THEN [traces[i] EXCEPT !.status = status] ELSE traces[i]]

\* MUTANT: a failure does not reset the consecutive successes
RecordHealthKeepsRun(provider, success) ==
    health' = IF config.collecting /\ config.collectHealth
              THEN [health EXCEPT ![provider].requests = @ + 1,
                                  ![provider].errors = @ + (IF success THEN 0 ELSE 1),
                                  ![provider].successes = @ + (IF success THEN 1 ELSE 0),
                                  ![provider].failures = IF success THEN 0 ELSE @ + 1]
              ELSE health

RecordHealth(provider, success) ==
    health' = IF config.collecting /\ config.collectHealth
              THEN [health EXCEPT ![provider].requests = @ + 1,
                                  ![provider].errors = @ + (IF success THEN 0 ELSE 1),
                                  ![provider].successes = IF success THEN @ + 1 ELSE 0,
                                  ![provider].failures = IF success THEN 0 ELSE @ + 1]
              ELSE health

RecordUsage(q) ==
    usage' = IF config.collectUsage THEN Record(usage, <<q>>, config.maxUsage) ELSE usage

NoHealth == [requests |-> 0, errors |-> 0, successes |-> 0, failures |-> 0]

-----------------------------------------------------------------------------
(* The handler and its answer.                                             *)

Quiet == \A q \in Requests : request[q].at \notin Urgent /\ "microtask" \notin request[q].armed

MoveTo(q, at) == request' = [request EXCEPT ![q].at = at]
Done(q) == request' = [request EXCEPT ![q].at = "done", ![q].armed = {}]

\* writeJson: after the head only the end is left to write, and a socket that is gone
\* takes nothing
Answered(w, status) ==
    IF w.ended THEN w
    ELSE [w EXCEPT !.ended = TRUE, !.status = IF @ = 0 /\ w.socket = "open" THEN status ELSE @]

Answer(q, status) ==
    /\ FinishTrace(q, status)
    /\ wire' = [wire EXCEPT ![q] = Answered(@, status)]
    /\ Done(q)

\* MUTANT: the trace is given the default status of the error's code
FailWithDefault(q, code, status) ==
    /\ Log(q, <<IF code \in AuthCodes THEN "auth-failed" ELSE "request-failed">>)
    /\ FinishTrace(q, StatusByCode[code])
    /\ wire' = [wire EXCEPT ![q] = Answered(@, status)]
    /\ Done(q)
    /\ UNCHANGED <<config, usage, health, clears, unreported>>

\* the catch block of the handler
FailWith(q, code, status) ==
    /\ Log(q, <<IF code \in AuthCodes THEN "auth-failed" ELSE "request-failed">>)
    /\ Answer(q, status)
    /\ UNCHANGED <<config, usage, health, clears, unreported>>

Fail(q, code) == FailWith(q, code, StatusByCode[code])

Arrive(q) ==
    /\ Quiet /\ request[q].at = "new"
    /\ MoveTo(q, "received")
    /\ traces' = Record(traces, <<[request |-> q, status |-> 0]>>, config.maxTraces)
    /\ Log(q, <<"request-received">>)
    /\ UNCHANGED <<config, wire, usage, health, clears, unreported>>

\* what authenticateRequest throws, if anything
AuthErrors(loopback, token) ==
    IF config.auth = "none-localhost-only"
    THEN IF loopback THEN {} ELSE {"policy_denied"}
    ELSE CASE token = "right" -> {}
           [] token \in {"missing", "unprefixed"} -> {"authentication_required"}
           [] token \in {"repeated", "long", "padded", "wrong"} -> {"authentication_failed"}

Authenticate(q) ==
    /\ request[q].at = "received"
    /\ \E loopback \in BOOLEAN,
          token \in {"right", "missing", "unprefixed", "repeated", "long", "padded", "wrong"} :
          LET errors == AuthErrors(loopback, token)
          IN IF errors = {}
             THEN MoveTo(q, "routing") /\ UNCHANGED <<config, wire, stores, clears>>
             ELSE \E code \in errors : Fail(q, code)

RefuseRoute(q) ==
    /\ request[q].at = "routing"
    /\ \/ Fail(q, "model_not_found")               \* no such path
       \/ FailWith(q, "invalid_request", 405)      \* another method
       \/ (~config.exposed \/ ~config.collecting) /\ Fail(q, "model_not_found")

\* /health, /v1/models and the exposed observability endpoints
AnswerReadOnly(q) ==
    /\ request[q].at = "routing"
    /\ Answer(q, 200)
    /\ UNCHANGED <<config, events, usage, health, clears, unreported>>

RouteChat(q) ==
    /\ request[q].at = "routing"
    /\ MoveTo(q, "headers")
    /\ UNCHANGED <<config, wire, stores, clears>>

-----------------------------------------------------------------------------
(* readJsonBody.                                                           *)

RefuseHeaders(q) ==
    /\ request[q].at = "headers"
    /\ \/ FailWith(q, "invalid_request", 415)   \* not application/json
       \/ Fail(q, "invalid_request")            \* Content-Length is no number
       \/ Fail(q, "request_too_large")          \* Content-Length exceeds the limit

\* MUTANT: the reader arms no timer
StartReadingUntimed(q) ==
    /\ request[q].at = "headers"
    /\ MoveTo(q, "reading")
    /\ UNCHANGED <<config, wire, stores, clears>>

StartReading(q) ==
    /\ request[q].at = "headers"
    /\ request' = [request EXCEPT ![q].at = "reading", ![q].armed = {"body"}]
    /\ UNCHANGED <<config, wire, stores, clears>>

BodyData(q) ==
    /\ Quiet /\ request[q].at = "reading" /\ request[q].size < BodyLimit
    /\ request' = [request EXCEPT ![q].size = @ + 1]
    /\ UNCHANGED <<config, wire, stores, clears>>

\* the reader destroys the request, and its socket, before the handler can answer
CutOff(q, code) ==
    /\ Log(q, <<"request-failed">>)
    /\ FinishTrace(q, StatusByCode[code])
    /\ wire' = [wire EXCEPT ![q].socket = "destroyed", ![q].ended = TRUE]
    /\ Done(q)
    /\ UNCHANGED <<config, usage, health, clears, unreported>>

\* a chunk beyond the limit, without a Content-Length that says so
BodyTooLarge(q) ==
    /\ Quiet /\ request[q].at = "reading" /\ request[q].size = BodyLimit
    /\ CutOff(q, "request_too_large")

BodyTimerFires(q) ==
    /\ Quiet /\ request[q].at = "reading" /\ "body" \in request[q].armed
    /\ CutOff(q, "timeout")

BodyErrors(q) ==
    /\ Quiet /\ request[q].at = "reading"
    /\ Log(q, <<"request-failed">>)
    /\ FinishTrace(q, StatusByCode["internal_error"])
    /\ wire' = [wire EXCEPT ![q].socket = "left", ![q].ended = TRUE]
    /\ Done(q)
    /\ UNCHANGED <<config, usage, health, clears, unreported>>

\* the body is empty or blank, or no JSON
BodyMalformed(q) ==
    /\ Quiet /\ request[q].at = "reading"
    /\ Fail(q, "invalid_request")

BodyEnds(q) ==
    /\ Quiet /\ request[q].at = "reading" /\ request[q].size > 0
    /\ request' = [request EXCEPT ![q].at = "dispatch", ![q].armed = {}]
    /\ UNCHANGED <<config, wire, stores, clears>>

-----------------------------------------------------------------------------
(* The routes of a chat request.                                           *)

\* the body names a model: unknown, configured while execution is disabled, governed, or
\* the mock provider's
RefuseModel(q) ==
    /\ request[q].at = "dispatch"
    /\ \/ Fail(q, "model_not_found")
       \/ ~config.governed /\ Fail(q, "execution_disabled")

RouteGoverned(q) ==
    /\ request[q].at = "dispatch" /\ config.governed
    /\ \/ Fail(q, "invalid_request")
       \/ /\ Log(q, <<"request-validated", "route-selected", "execution-started">>)
          /\ MoveTo(q, "governed")
          /\ UNCHANGED <<config, wire, traces, usage, health, clears, unreported>>
       \/ /\ Log(q, <<"request-validated", "route-selected">>)
          /\ MoveTo(q, "acquiring")
          /\ UNCHANGED <<config, wire, traces, usage, health, clears, unreported>>

\* the statuses of a call that failed; an error may bring its own, even a success's
FailureStatuses == {StatusByCode[c] : c \in {"execution_disabled", "upstream_error", "timeout",
                                             "cancelled"}} \cup {200}

\* what GovernedRequest ends with
GovernedCompletes(q) ==
    /\ Quiet /\ request[q].at = "governed"
    /\ RecordUsage(q) /\ RecordHealth("external", TRUE)
    /\ Log(q, <<"execution-completed">>)
    /\ Answer(q, 200)
    /\ UNCHANGED <<config, clears, unreported>>

GovernedFails(q) ==
    /\ Quiet /\ request[q].at = "governed"
    /\ \E status \in FailureStatuses :
          /\ RecordHealth("external", FALSE)
          /\ Log(q, <<"execution-failed">>)
          /\ Answer(q, status)
          /\ UNCHANGED <<config, usage, clears, unreported>>

\* what StreamRequest does: a stream that is refused goes to the catch block
GovernedStreamRefused(q) ==
    /\ Quiet /\ request[q].at = "acquiring"
    /\ \E status \in FailureStatuses : FailWith(q, "upstream_error", status)

GovernedStreamOpens(q) ==
    /\ Quiet /\ request[q].at = "acquiring"
    /\ MoveTo(q, "relaying")
    /\ wire' = [wire EXCEPT ![q].head = TRUE,
                            ![q].status = IF wire[q].socket = "open" THEN 200 ELSE @]
    /\ Log(q, <<"governed-stream-started">>)
    /\ UNCHANGED <<config, traces, usage, health, clears, unreported>>

GovernedStreamChunk(q) ==
    /\ Quiet /\ request[q].at = "relaying" /\ request[q].sent < Chunks
    /\ request' = [request EXCEPT ![q].sent = @ + 1]
    /\ Log(q, <<"governed-stream-chunk">>)
    /\ UNCHANGED <<config, wire, traces, usage, health, clears, unreported>>

\* the summary of the session has the usage only if the provider reported it
GovernedStreamCompletes(q) ==
    /\ Quiet /\ request[q].at = "relaying"
    /\ RecordHealth("external", TRUE)
    /\ \/ RecordUsage(q) /\ UNCHANGED unreported
       \/ unreported' = unreported + 1 /\ UNCHANGED usage
    /\ Log(q, <<"governed-stream-completed">>)
    /\ Answer(q, 200)
    /\ UNCHANGED <<config, clears>>

\* after the head the client keeps its 200, whatever the trace is finished with
GovernedStreamFails(q) ==
    /\ Quiet /\ request[q].at = "relaying"
    /\ RecordHealth("external", FALSE)
    /\ Log(q, <<"governed-stream-failed">>)
    /\ \E code \in {"upstream_error", "timeout", "cancelled"} : Answer(q, StatusByCode[code])
    /\ UNCHANGED <<config, usage, clears, unreported>>

RouteMock(q) ==
    /\ request[q].at = "dispatch"
    /\ MoveTo(q, "validating")
    /\ UNCHANGED <<config, wire, stores, clears>>

\* validateRequest of the mock provider, and routeError
RefuseMock(q) ==
    /\ request[q].at = "validating"
    /\ \E code \in {"invalid_request", "model_not_found", "unsupported_capability"} : Fail(q, code)

\* the events of a mock request that is valid
MockAdmitted == <<"request-validated", "route-planned">>

\* invoke() settles before the runtime's timeout can fire
InvokeMock(q) ==
    /\ request[q].at = "validating"
    /\ \/ /\ RecordUsage(q) /\ RecordHealth("mock", TRUE)
          /\ Log(q, MockAdmitted \o <<"mock-provider-started", "mock-provider-completed",
                                      "request-completed">>)
          /\ Answer(q, 200)
       \/ /\ RecordHealth("mock", FALSE)
          /\ Log(q, MockAdmitted \o <<"mock-provider-started">>)
          /\ Answer(q, StatusByCode["upstream_error"])
          /\ UNCHANGED usage
    /\ UNCHANGED <<config, clears, unreported>>

-----------------------------------------------------------------------------
(* writeSseStream.                                                         *)

NextWrite == IF config.delayed THEN "delay" ELSE "microtask"

\* what writeSseStream has armed until it settles
StreamTimers == {"total", "idle", NextWrite}

\* the head and, in the same turn, the first write
StartStream(q) ==
    /\ request[q].at = "validating"
    /\ request' = [request EXCEPT ![q].at = "streaming", ![q].sent = 1,
                                  ![q].armed = StreamTimers]
    /\ wire' = [wire EXCEPT ![q].status = 200, ![q].head = TRUE]
    /\ Log(q, MockAdmitted \o <<"stream-started", "stream-chunk">>)
    /\ UNCHANGED <<config, traces, usage, health, clears, unreported>>

MayWrite(q) ==
    /\ request[q].at = "streaming"
    /\ \/ "microtask" \in request[q].armed
       \/ Quiet /\ "delay" \in request[q].armed

WriteChunk(q) ==
    /\ MayWrite(q) /\ request[q].sent < Chunks
    /\ request' = [request EXCEPT ![q].sent = @ + 1]
    /\ Log(q, <<"stream-chunk">>)
    /\ UNCHANGED <<config, wire, traces, usage, health, clears, unreported>>

\* MUTANT: a completed stream is not charged
WriteDoneUncharged(q) ==
    /\ MayWrite(q) /\ request[q].sent >= Chunks
    /\ RecordHealth("mock", TRUE)
    /\ Log(q, <<"stream-completed">>)
    /\ Answer(q, 200)
    /\ UNCHANGED <<config, usage, clears, unreported>>

WriteDone(q) ==
    /\ MayWrite(q) /\ request[q].sent >= Chunks
    /\ RecordUsage(q) /\ RecordHealth("mock", TRUE)
    /\ Log(q, <<"stream-completed">>)
    /\ Answer(q, 200)
    /\ UNCHANGED <<config, clears, unreported>>

\* the idle or the total timeout: the response ends, and the handler fails
StreamTimerFires(q) ==
    /\ Quiet /\ request[q].at = "streaming"
    /\ {"total", "idle"} \cap request[q].armed # {}
    /\ Fail(q, "timeout")

-----------------------------------------------------------------------------
\* MUTANT: an aborted body is dropped like an abandoned stream
ClientLeavesUnrecorded(q) ==
    /\ Quiet /\ request[q].at \in Waiting /\ wire[q].socket = "open"
    /\ wire' = [wire EXCEPT ![q].socket = "left"]
    /\ Done(q)
    /\ UNCHANGED <<config, stores, clears>>

\* the client's socket closes: a body that is being read is aborted, a mock stream is
\* dropped without a word to the collector, governed execution goes on to its end
ClientLeaves(q) ==
    /\ Quiet /\ request[q].at \in Waiting /\ wire[q].socket = "open"
    /\ \/ /\ request[q].at = "reading"
          /\ Log(q, <<"request-failed">>)
          /\ FinishTrace(q, StatusByCode["invalid_request"])
          /\ wire' = [wire EXCEPT ![q].socket = "left", ![q].ended = TRUE]
          /\ Done(q)
       \/ /\ request[q].at = "streaming"
          /\ wire' = [wire EXCEPT ![q].socket = "left"]
          /\ Done(q)
          /\ UNCHANGED <<traces, events>>
       \/ /\ request[q].at \in Governed
          /\ wire' = [wire EXCEPT ![q].socket = "left"]
          /\ UNCHANGED <<request, traces, events>>
    /\ UNCHANGED <<config, usage, health, clears, unreported>>

\* the embedding program empties the collector
Clear ==
    /\ Quiet /\ clears < MaxClears
    /\ clears' = clears + 1
    /\ traces' = <<>> /\ events' = <<>> /\ usage' = <<>>
    /\ health' = [p \in Providers |-> NoHealth]
    /\ unreported' = 0
    /\ UNCHANGED <<config, request, wire>>

-----------------------------------------------------------------------------
Init ==
    /\ config \in Configs
    /\ request = [q \in Requests |-> [at |-> "new", armed |-> {}, size |-> 0, sent |-> 0]]
    /\ wire = [q \in Requests |-> [status |-> 0, head |-> FALSE, ended |-> FALSE,
                                    socket |-> "open"]]
    /\ traces = <<>> /\ events = <<>> /\ usage = <<>>
    /\ health = [p \in Providers |-> NoHealth]
    /\ clears = 0 /\ unreported = 0

\* what the handler does by itself, or by a timer
Handler(q) ==
    \/ Authenticate(q) \/ RefuseRoute(q) \/ AnswerReadOnly(q) \/ RouteChat(q)
    \/ RefuseHeaders(q) \/ StartReading(q) \/ BodyTimerFires(q)
    \/ RefuseModel(q) \/ RouteGoverned(q) \/ RouteMock(q)
    \/ GovernedCompletes(q) \/ GovernedFails(q)
    \/ GovernedStreamRefused(q) \/ GovernedStreamOpens(q) \/ GovernedStreamChunk(q)
    \/ GovernedStreamCompletes(q) \/ GovernedStreamFails(q)
    \/ RefuseMock(q) \/ InvokeMock(q)
    \/ StartStream(q) \/ WriteChunk(q) \/ WriteDone(q) \/ StreamTimerFires(q)

\* what its client does
Client(q) ==
    \/ Arrive(q) \/ BodyData(q) \/ BodyTooLarge(q) \/ BodyErrors(q)
    \/ BodyMalformed(q) \/ BodyEnds(q) \/ ClientLeaves(q)

Next == Clear \/ \E q \in Requests : Handler(q) \/ Client(q)

\* the event loop runs every due callback; that governed execution ends is what
\* RequestFinishes says of GovernedRequest and StreamRequest
Spec == Init /\ [][Next]_vars /\ \A q \in Requests : WF_vars(Handler(q))

-----------------------------------------------------------------------------
(* Correctness.                                                            *)

\* Every store is within its limit, and only a handler that waits has something armed.
TypeOK ==
    /\ config \in Configs
    /\ request \in [Requests -> [at : {"new", "done"} \cup Urgent \cup Waiting,
                                 armed : SUBSET Armed, size : 0 .. BodyLimit,
                                 sent : 0 .. Chunks + 1]]
    /\ wire \in [Requests -> [status : Statuses, head : BOOLEAN, ended : BOOLEAN,
                              socket : {"open", "left", "destroyed"}]]
    /\ traces \in Seq([request : Requests, status : Statuses]) /\ Len(traces) <= config.maxTraces
    /\ events \in Seq([request : Requests, type : EventTypes]) /\ Len(events) <= config.maxEvents
    /\ usage \in Seq(Requests) /\ Len(usage) <= config.maxUsage
    /\ health \in [Providers -> [requests : Nat, errors : Nat, successes : Nat, failures : Nat]]
    /\ clears \in 0 .. MaxClears /\ unreported \in Nat

Abandoned(q) == request[q].at = "done" /\ wire[q].status = 200 /\ ~wire[q].ended

\* A trace the collector still holds is open exactly while its request's handler runs, or
\* for good once the client left a mock stream; no request has two (finishTrace replaces in
\* place what recordTrace pushed, while other requests push and evict between the two).
OpenTraceIsActive ==
    /\ \A i \in DOMAIN traces :
          traces[i].status = 0 <=> \/ request[traces[i].request].at # "done"
                                   \/ Abandoned(traces[i].request)
    /\ \A i, j \in DOMAIN traces : traces[i].request = traces[j].request => i = j

\* The status a trace is finished with is the one the client received, unless its socket is
\* gone; only a stream that failed after its head leaves the client with the 200 it read
\* while the trace has the failure's status.
TraceTellsAnswer ==
    \A i \in DOMAIN traces :
        LET w == wire[traces[i].request]
        IN traces[i].status # 0 /\ w.socket = "open" =>
              /\ w.ended
              /\ \/ w.status = traces[i].status
                 \/ w.head /\ w.status = 200 /\ traces[i].status \in {499, 502, 504}

Successes(p) == health[p].requests - health[p].errors
Smaller(m, n) == IF m < n THEN m ELSE n

\* The usage records are those of the successes the health records count, but for the
\* streams that reported none: as many as the store holds, each request once, and none of a
\* request whose trace was finished as a failure; a provider's last outcome decides which
\* run it has.  Usage and health are recorded by four branches, each with its own order of
\* steps, and either may be switched off.
BooksBalance ==
    /\ config.collectHealth =>
          Len(usage) = IF config.collecting /\ config.collectUsage
                       THEN Smaller(config.maxUsage,
                                    (Successes("mock") + Successes("external")) - unreported)
                       ELSE 0
    /\ \A i, j \in DOMAIN usage : usage[i] = usage[j] => i = j
    /\ \A i \in DOMAIN usage, j \in DOMAIN traces :
          traces[j].request = usage[i] => traces[j].status = 200
    /\ \A p \in Providers : /\ health[p].successes = 0 \/ health[p].failures = 0
                            /\ health[p].requests > 0 => health[p].successes + health[p].failures > 0

\* A handler has timers armed only for the wait it is in: the reader's timer for the body
\* alone, the stream's timers both or none, and nothing once it is done.
NothingLeftArmed ==
    \A q \in Requests :
        request[q].armed = CASE request[q].at = "reading" -> {"body"}
                             [] request[q].at = "streaming" -> {"total", "idle", NextWrite}
                             [] OTHER -> {}

\* Every request that arrives is done with at some time, although its client may stall in
\* the middle of the body or of the stream.
RequestsFinish == \A q \in Requests : request[q].at = "received" ~> request[q].at = "done"

\* docs/gateway-audit-events.md:7: event names are intentionally precise.  A request whose
\* trace is finished with status 200 has no failure among its events.
FailureEventsMeanFailure ==
    \A i \in DOMAIN traces, j \in DOMAIN events :
        traces[i].status = 200 /\ events[j].request = traces[i].request
            => events[j].type # "request-failed"

=============================================================================
