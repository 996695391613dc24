--------------------------- MODULE GovernedRequest ---------------------------
(***************************************************************************)
(* One chat request that does not stream: the governed branch of           *)
(* handleGatewayRequest (gateway/runtime/app.js) and the call it waits     *)
(* for, executeGovernedRequest (gateway/execution/executor.js), through    *)
(* executeRoute of the dispatcher.                                         *)
(*                                                                         *)
(* The executor runs its preflight without a pause, invokes the transport  *)
(* once and races it against the caller's abort signal.  The handler arms  *)
(* the timer and attaches the listeners that abort that signal, and        *)
(* answers and records the result in the turn the race is decided.         *)
(*                                                                         *)
(* A transport that lost the race goes on: it may still settle, or never.  *)
(* Abstracted: payloads, messages and redaction, timestamps and costs.     *)
(***************************************************************************)
EXTENDS Integers, Sequences

VARIABLES
    request,        \* the failing preflight checks and whether a credential is referenced
    handler,        \* starting, executing, finished
    signal,         \* the AbortController: "idle" or the code it was aborted with
    listening,      \* signalListener is registered
    credential,     \* "none", "live" or "destroyed"
    transport,      \* idle, pending, settled
    result,         \* the ExecutionResult, NoResult before
    connected,      \* the client's connection is open
    appTimer,       \* timeoutTimer is armed
    attached,       \* onAbort and onClose are attached
    answer,         \* the status written to the response, 0 before
    traceStatus,    \* the status traceComplete recorded, 0 before
    usageRecords,   \* the token counts of the usage records, one for each record
    health,         \* the provider health recorded, "none" before
    eventType       \* the terminal event recorded, "none" before

executorVars == <<listening, credential, transport, result>>
handlerVars  == <<handler, appTimer, attached, answer, traceStatus, usageRecords,
                  health, eventType>>
vars == <<request, signal, connected, executorVars, handlerVars>>

(* ----------------------------- vocabulary ------------------------------ *)

(* The preflight checks in the order the code runs them, and the error each one
   returns.  The two checks of an already aborted signal are not among them: the
   handler's signal is fresh and preflight runs in one turn.  The gate has a code
   for each of its rules, all with the status of the code's category; one stands
   for them.  An error built without a status has status 500, and the transport
   check's own code is no category, so the result's validation replaces it. *)
CheckOrder == <<"request", "gate", "transport", "credential", "normalize", "size">>
Checks     == {CheckOrder[i] : i \in DOMAIN CheckOrder}
CheckError == [request    |-> [code |-> "request_invalid",          status |-> 500],
               gate       |-> [code |-> "execution_disabled",       status |-> 403],
               transport  |-> [code |-> "internal_execution_error", status |-> 500],
               credential |-> [code |-> "credential_unavailable",   status |-> 503],
               normalize  |-> [code |-> "request_invalid",          status |-> 500],
               size       |-> [code |-> "request_too_large",        status |-> 500]]
CredentialCheck == 4

Error(state, code, status, attempts) ==
    [state |-> state, code |-> code, status |-> status, attempts |-> attempts,
     tokens |-> "none"]
Failed(code, status) == Error("failed", code, status, 1)
Refused(check) == Error("failed", CheckError[check].code, CheckError[check].status, 0)

(* A race that was lost to a rejection, whose code may be one the executor knows.
   "unknown" stands for every other code and for errors without one. *)
RejectionCodes == {"timeout", "cancelled", "request_too_large", "response_too_large",
                   "upstream_protocol_error", "unknown"}

(* The status an error brings along, wherever it has it from: the result's validation
   refuses others.  Nothing keeps it from being the status of a success. *)
OwnStatuses == 100 .. 599
Rejected(code) ==
    CASE code = "timeout"           -> Error("timed_out", code, 504, 1)
      [] code = "cancelled"         -> Error("cancelled", code, 499, 1)
      [] code = "request_too_large" -> Failed(code, 413)
      [] code = "unknown"           -> Failed("upstream_server_error", 502)
      [] OTHER                      -> Failed(code, 502)

(* A rejection whose code is one of the remaining categories may have a status, which is
   passed on, or one the result's validation refuses. *)
RejectedWithStatus == {Failed("category", status) : status \in OwnStatuses}
                          \cup {Failed("internal_execution_error", 500)}

(* An answer that fails one of the checks after the race, or that reports an error of
   the provider, is a failed call whatever code and status the error has. *)
UnusableResults == {Failed("upstream_protocol_error", 500), Failed("response_too_large", 500)}
                       \cup {Failed("upstream", status) : status \in OwnStatuses}

(* An answer with its payload as an object or as JSON text.  The result is redacted
   before it is normalized: the walk over an object replaces every value whose key
   matches "token", and a count that is not an integer is recorded as unknown. *)
PayloadForms == {"object", "text"}
TokensOf(form)  == IF form = "object" THEN "unknown" ELSE "counted"
Completed(form) == [state |-> "completed", code |-> "none", status |-> 200,
                    attempts |-> 1, tokens |-> TokensOf(form)]

NoResult == [state |-> "none", code |-> "none", status |-> 0, attempts |-> 0,
             tokens |-> "none"]
States   == {"completed", "failed", "cancelled", "timed_out"}
Results  == {NoResult}
            \cup {Refused(c) : c \in Checks}
            \cup {Rejected(c) : c \in RejectionCodes}
            \cup RejectedWithStatus
            \cup UnusableResults
            \cup {Completed(f) : f \in PayloadForms}
Statuses == {r.status : r \in Results}

(* -------------------------- executeGovernedRequest --------------------- *)

(* The first failing check decides the refusal. *)
Decisive == CHOOSE i \in DOMAIN CheckOrder :
                /\ CheckOrder[i] \in request.failing
                /\ \A j \in 1 .. i - 1 : CheckOrder[j] \notin request.failing

RefusedResult == Refused(CheckOrder[Decisive])

(* Mutant of Refuse: the size check returns without destroying the credential. *)
RefuseKeepsCredential ==
    /\ request.failing # {}
    /\ result' = RefusedResult
    /\ credential' = IF request.credential /\ Decisive > CredentialCheck
                     THEN "live" ELSE "none"
    /\ UNCHANGED <<listening, transport>>

(* Preflight fails; a credential resolved before the failing check is destroyed. *)
Refuse ==
    /\ request.failing # {}
    /\ result' = RefusedResult
    /\ credential' = IF request.credential /\ Decisive > CredentialCheck
                     THEN "destroyed" ELSE "none"
    /\ UNCHANGED <<listening, transport>>

(* Preflight passes: the transport is invoked and the signal listened to. *)
Invoke ==
    /\ request.failing = {}
    /\ credential' = IF request.credential THEN "live" ELSE "none"
    /\ transport' = "pending"
    /\ listening' = TRUE
    /\ UNCHANGED result

(* The race is decided: the finally block removes the listener and destroys the
   credential, and the result is built. *)
RaceEnds(r) ==
    /\ result' = r
    /\ listening' = FALSE
    /\ credential' = IF credential = "live" THEN "destroyed" ELSE credential

(* ------------------------ handleGatewayRequest ------------------------- *)

TypeOK ==
    /\ request \in [failing : SUBSET Checks, credential : BOOLEAN]
    /\ handler \in {"starting", "executing", "finished"}
    /\ signal \in {"idle", "timeout", "cancelled"}
    /\ listening \in BOOLEAN
    /\ credential \in {"none", "live", "destroyed"}
    /\ transport \in {"idle", "pending", "settled"}
    /\ result \in Results
    /\ connected \in BOOLEAN
    /\ appTimer \in BOOLEAN
    /\ attached \in BOOLEAN
    /\ answer \in Statuses
    /\ traceStatus \in Statuses
    /\ usageRecords \in Seq({"counted", "unknown"})
    /\ health \in {"none", "success", "failure"}
    /\ eventType \in {"none", "execution-completed", "execution-failed",
                      "execution-cancelled", "execution-timed-out"}

Init ==
    /\ request \in [failing : SUBSET Checks, credential : BOOLEAN]
    /\ "credential" \in request.failing => request.credential
    /\ handler = "starting"
    /\ signal = "idle"
    /\ listening = FALSE
    /\ credential = "none"
    /\ transport = "idle"
    /\ result = NoResult
    /\ connected = TRUE
    /\ appTimer = FALSE
    /\ attached = FALSE
    /\ answer = 0
    /\ traceStatus = 0
    /\ usageRecords = <<>>
    /\ health = "none"
    /\ eventType = "none"

EventOf(state) == CASE state = "completed" -> "execution-completed"
                    [] state = "cancelled" -> "execution-cancelled"
                    [] state = "timed_out" -> "execution-timed-out"
                    [] OTHER               -> "execution-failed"

(* cleanupListeners, the records and the answer, all in the turn of the result. *)
Respond ==
    /\ handler' = "finished"
    /\ appTimer' = FALSE
    /\ attached' = FALSE
    /\ usageRecords' = IF result'.state = "completed"
                       THEN Append(usageRecords, result'.tokens) ELSE usageRecords
    /\ health' = IF result'.state = "completed" THEN "success" ELSE "failure"
    /\ eventType' = EventOf(result'.state)
    /\ traceStatus' = result'.status
    /\ answer' = result'.status

StartRefused ==
    /\ handler = "starting"
    /\ Refuse
    /\ Respond
    /\ UNCHANGED <<request, signal, connected>>

(* Mutant of StartExecuting: the handler arms no timer. *)
StartUntimed ==
    /\ handler = "starting"
    /\ Invoke
    /\ handler' = "executing"
    /\ attached' = TRUE
    /\ UNCHANGED <<request, signal, connected, appTimer, answer, traceStatus,
                   usageRecords, health, eventType>>

(* Listeners attached, timer armed, executeRoute called and awaited. *)
StartExecuting ==
    /\ handler = "starting"
    /\ Invoke
    /\ handler' = "executing"
    /\ appTimer' = TRUE
    /\ attached' = TRUE
    /\ UNCHANGED <<request, signal, connected, answer, traceStatus, usageRecords,
                   health, eventType>>

(* The transport settles while the race is on. *)
TransportAnswers ==
    /\ transport = "pending"
    /\ listening
    /\ transport' = "settled"
    /\ \/ \E form \in PayloadForms : RaceEnds(Completed(form))
       \/ \E code \in RejectionCodes : RaceEnds(Rejected(code))
       \/ \E r \in RejectedWithStatus \cup UnusableResults : RaceEnds(r)
    /\ Respond
    /\ UNCHANGED <<request, signal, connected>>

(* The transport settles after it lost the race: the promise is caught and dropped. *)
TransportTooLate ==
    /\ transport = "pending"
    /\ ~listening
    /\ transport' = "settled"
    /\ UNCHANGED <<request, signal, connected, listening, credential, result, handlerVars>>

(* Mutant of Abort: every abort is reported as a cancellation. *)
AbortAsCancelled(reason) ==
    /\ signal = "idle"
    /\ signal' = reason
    /\ RaceEnds(Rejected("cancelled"))
    /\ Respond
    /\ UNCHANGED <<request, transport>>

(* abortController.abort(reason): signalListener rejects, the race ends. *)
Abort(reason) ==
    /\ signal = "idle"
    /\ signal' = reason
    /\ RaceEnds(Rejected(reason))
    /\ Respond
    /\ UNCHANGED <<request, transport>>

AppTimerFires ==
    /\ appTimer
    /\ Abort("timeout")
    /\ UNCHANGED connected

(* The connection closes: onClose aborts while it is attached, since the head is
   written only with the answer. *)
ClientCloses ==
    /\ handler # "starting"
    /\ connected
    /\ connected' = FALSE
    /\ IF attached
       THEN Abort("cancelled")
       ELSE UNCHANGED <<request, signal, executorVars, handlerVars>>

Next == \/ StartRefused
        \/ StartExecuting
        \/ TransportAnswers
        \/ TransportTooLate
        \/ AppTimerFires
        \/ ClientCloses

Spec == Init /\ [][Next]_vars

(* A handler that was called runs to its await, and an armed timer fires.  Neither
   the transport nor the client owes a step. *)
FairSpec == /\ Spec
            /\ WF_vars(StartRefused \/ StartExecuting)
            /\ WF_vars(AppTimerFires)

(* ------------------------------ properties ----------------------------- *)

(* Usage is recorded, and the provider counted healthy, once and only for a request
   that completed after exactly one invocation and was not aborted meanwhile.  The
   status of the answer does not tell: an error may bring status 200 along, and then a
   failed call is answered 200 with an error as the body, and is not charged. *)
OnlySuccessIsCharged ==
    LET succeeded == eventType = "execution-completed"
    IN  /\ Len(usageRecords) = (IF succeeded THEN 1 ELSE 0)
        /\ succeeded <=> health = "success"
        /\ succeeded <=> result.state = "completed"
        /\ succeeded => /\ answer = 200
                        /\ result.attempts = 1
                        /\ signal = "idle"
                        /\ transport = "settled"

(* The three accounts of one request agree: the answer to the client, the trace and
   the event, with the abort signal deciding over whatever the transport says. *)
VerdictFollowsSignal ==
    handler = "finished" =>
        /\ signal = "timeout" => answer = 504 /\ eventType = "execution-timed-out"
        /\ signal = "cancelled" => answer = 499 /\ eventType = "execution-cancelled"
        /\ traceStatus = answer
        /\ answer # 0

(* A finished request holds no timer, no listener on its request, response or signal
   and no live credential, even while its transport is still pending. *)
NothingLeftBehind ==
    handler = "finished" => ~appTimer /\ ~attached /\ ~listening /\ credential # "live"

(* docs/openai-adapter-normalization.md: "Usage Normalization: Maps token usage fields
   and sets `provider_reported: true`."  The provider reports its counts with every
   answer here, so every usage record of a completed request has them. *)
UsageIsCounted == \A i \in DOMAIN usageRecords : usageRecords[i] = "counted"

(* Every request is answered although its transport may never settle: the handler's
   timer ends the race. *)
RequestFinishes == (handler = "starting") ~> (handler = "finished")

(* The request implements GovernedCall, as StreamSession does. *)
Call == INSTANCE GovernedCall WITH
            Outcomes <- States,
            stage    <- IF handler = "starting" THEN "requested"
                        ELSE IF handler = "executing" THEN "running" ELSE "settled",
            secret   <- credential,
            outcome  <- IF handler # "finished" THEN "none"
                        ELSE IF result.attempts = 0 THEN "refused" ELSE result.state

ImplementsGovernedCall == Call!FairSpec
==============================================================================
