---------------------------- MODULE StreamRequest ----------------------------
(***************************************************************************)
(* One streaming chat request: the governed streaming branch of            *)
(* handleGatewayRequest (gateway/runtime/app.js) with waitForDrain         *)
(* (gateway/runtime/backpressure.js), composed with the session it drives  *)
(* (StreamSession).                                                        *)
(*                                                                         *)
(* The handler is the session's caller and its only consumer.  It waits in *)
(* three places: for the acquisition, for the next event, and for the      *)
(* response to drain.  While it waits, callbacks run: the client closes    *)
(* the connection, a timer fires, the upstream delivers.  Once a callback  *)
(* has woken the handler, the handler runs to its next wait before the     *)
(* event loop takes another callback: every action of the environment is   *)
(* guarded by Waiting.                                                     *)
(*                                                                         *)
(* The request body was read completely before this branch is entered, so  *)
(* Node no longer emits 'aborted' for it: a client that leaves shows as    *)
(* the 'close' event only.                                                 *)
(***************************************************************************)
EXTENDS StreamSession

CONSTANT DrainListener       \* the listener waitForDrain subscribes

ASSUME DrainListenerAssumption == DrainListener \in Listeners

VARIABLES
    handler,       \* starting, acquiring, resuming, running, awaiting, draining, failing, finished
    failure,       \* the code of the error the loop body threw, "none" before
    headersSent,   \* the SSE head was written
    sent,          \* chunks accepted by response.write
    tail,          \* the frames written after the last chunk
    jsonCode,      \* the code of the JSON error answered before the head, "none" if none was
    ended,         \* response.writableEnded
    connected,     \* the client's connection is open (~response.destroyed)
    leftMidStream, \* history: the client closed while the handler streamed
    appTimer,      \* timeoutTimer is armed
    attached,      \* onAbort and onClose are attached
    traceStatus,   \* the status traceComplete recorded, "none" before
    streamEvent,   \* the terminal event recorded, "none" before
    health         \* the provider health recorded, "none" before

appVars == <<handler, failure, headersSent, sent, tail, jsonCode, ended, connected,
             leftMidStream, appTimer, attached, traceStatus, streamEvent, health>>
allVars == <<vars, appVars>>

records == <<traceStatus, streamEvent, health>>

Waiting == handler \in {"acquiring", "awaiting", "draining", "finished"}

RequestTypeOK ==
    /\ TypeOK
    /\ handler \in {"starting", "acquiring", "resuming", "running", "awaiting",
                    "draining", "failing", "finished"}
    /\ failure \in Codes \cup {"none", "closed"}
    /\ headersSent \in BOOLEAN
    /\ sent \in Nat
    /\ tail \in {<<>>, <<"done">>, <<"error">>}
    /\ jsonCode \in Codes \cup {"none"}
    /\ ended \in BOOLEAN
    /\ connected \in BOOLEAN
    /\ leftMidStream \in BOOLEAN
    /\ appTimer \in BOOLEAN
    /\ attached \in BOOLEAN
    /\ traceStatus \in {"none", "200", "499", "502", "504", "json"}
    /\ streamEvent \in {"none", "completed", "failed", "cancelled", "timed-out",
                        "request-failed"}
    /\ health \in {"none", "success", "failure"}

(* At most one preflight check fails; StreamSession explores the combinations. *)
RequestInit ==
    /\ Init
    /\ Cardinality(request.failing) <= 1
    /\ handler = "starting"
    /\ failure = "none"
    /\ headersSent = FALSE
    /\ sent = 0
    /\ tail = <<>>
    /\ jsonCode = "none"
    /\ ended = FALSE
    /\ connected = TRUE
    /\ leftMidStream = FALSE
    /\ appTimer = FALSE
    /\ attached = FALSE
    /\ traceStatus = "none"
    /\ streamEvent = "none"
    /\ health = "none"

(* Mutant of AnswerJsonError: cleanupListeners is not called. *)
AnswerWithoutCleanup ==
    /\ handler' = "finished"
    /\ jsonCode' = result'
    /\ ended' = TRUE
    /\ traceStatus' = "json"
    /\ streamEvent' = "request-failed"
    /\ UNCHANGED <<failure, headersSent, sent, tail, appTimer, attached, health>>

(* cleanupListeners, throw, and the outer catch: the request is answered with a
   JSON error and recorded as failed.  No provider health is recorded. *)
AnswerJsonError ==
    /\ handler' = "finished"
    /\ jsonCode' = result'
    /\ ended' = TRUE
    /\ appTimer' = FALSE
    /\ attached' = FALSE
    /\ traceStatus' = "json"
    /\ streamEvent' = "request-failed"
    /\ UNCHANGED <<failure, headersSent, sent, tail, health>>

(* How the waiting handler takes a step of the session: a refused acquisition is
   answered, a generator that left its await wakes the loop, and a finalization
   while draining reaches handleSummary, which rejects with the safe error. *)
Reaction ==
    CASE handler = "acquiring" /\ phase' = "refused" -> AnswerJsonError
      [] handler = "awaiting" /\ generator' # "awaiting" ->
            /\ handler' = "running"
            /\ UNCHANGED <<failure, headersSent, sent, tail, jsonCode, ended, appTimer,
                           attached, records>>
      [] handler = "draining" /\ isFinalized' ->
            /\ handler' = "failing"
            /\ failure' = summary'.error
            /\ UNCHANGED <<headersSent, sent, tail, jsonCode, ended, appTimer, attached,
                           records>>
      [] OTHER ->
            UNCHANGED <<handler, failure, headersSent, sent, tail, jsonCode, ended,
                        appTimer, attached, records>>

(* ----------------------------- the handler ----------------------------- *)

(* Listeners attached, timer armed, executeStreamRoute called: refused at once or
   waiting for the acquisition. *)
StartRefused ==
    /\ handler = "starting"
    /\ RefuseCall
    /\ AnswerJsonError
    /\ UNCHANGED <<connected, leftMidStream>>

(* Mutant of StartAcquiring: the handler arms no timer of its own. *)
StartAcquiringUntimed ==
    /\ handler = "starting"
    /\ BeginAcquisition
    /\ handler' = "acquiring"
    /\ attached' = TRUE
    /\ UNCHANGED <<failure, headersSent, sent, tail, jsonCode, ended, connected,
                   leftMidStream, appTimer, records>>

StartAcquiring ==
    /\ handler = "starting"
    /\ BeginAcquisition
    /\ handler' = "acquiring"
    /\ appTimer' = TRUE
    /\ attached' = TRUE
    /\ UNCHANGED <<failure, headersSent, sent, tail, jsonCode, ended, connected,
                   leftMidStream, records>>

(* The session was handed out: write the SSE head and enter the loop. *)
WriteHead ==
    /\ handler = "acquiring"
    /\ AcquisitionSucceeds
    /\ headersSent' = TRUE
    /\ handler' = "resuming"
    /\ UNCHANGED <<failure, sent, tail, jsonCode, ended, connected, leftMidStream,
                   appTimer, attached, records>>

(* for await asks the generator for the next event. *)
Resume ==
    /\ handler = "resuming"
    /\ ConsumerNext
    /\ handler' = IF generator' = "awaiting" THEN "awaiting" ELSE "running"
    /\ UNCHANGED <<failure, headersSent, sent, tail, jsonCode, ended, connected,
                   leftMidStream, appTimer, attached, records>>

(* waitForDrain refuses to wait at all. *)
DrainRejected ==
    \/ ~connected
    \/ callerSignal # "idle"
    \/ sessionState \in Terminal \ {"completed"}

(* response.write(chunk) reports room: go on to the next event. *)
WriteChunk ==
    /\ handler = "running"
    /\ generator = "yielded"
    /\ connected
    /\ sent' = sent + 1
    /\ handler' = "resuming"
    /\ UNCHANGED <<vars, failure, headersSent, tail, jsonCode, ended, connected,
                   leftMidStream, appTimer, attached, records>>

(* response.write(chunk) returns false: the buffer is full, or the connection is
   gone, in which case the chunk is dropped. *)
WriteChunkBackpressured ==
    /\ handler = "running"
    /\ generator = "yielded"
    /\ sent' = IF connected THEN sent + 1 ELSE sent
    /\ IF DrainRejected
       THEN /\ handler' = "failing"
            /\ failure' = IF connected THEN Published(sessionError) ELSE "closed"
            /\ UNCHANGED vars
       ELSE /\ handler' = "draining"
            /\ Subscribe(DrainListener)
            /\ UNCHANGED failure
    /\ UNCHANGED <<headersSent, tail, jsonCode, ended, connected, leftMidStream,
                   appTimer, attached, records>>

(* Mutant of FailStream: the error frame is written for a cancellation, too. *)
FailStreamAlwaysTells(code) ==
    LET isTimeout == code = "timeout"
        isCancel  == code = "cancelled" \/ callerSignal # "idle"
    IN  /\ streamEvent' = IF isTimeout THEN "timed-out"
                          ELSE IF isCancel THEN "cancelled" ELSE "failed"
        /\ traceStatus' = IF isTimeout THEN "504" ELSE IF isCancel THEN "499" ELSE "502"
        /\ health' = "failure"
        /\ tail' = IF ~ended /\ connected THEN <<"error">> ELSE tail
        /\ ended' = (ended \/ connected)
        /\ appTimer' = FALSE
        /\ attached' = FALSE
        /\ handler' = "finished"
        /\ UNCHANGED <<failure, headersSent, sent, jsonCode, connected, leftMidStream>>

(* The catch and finally blocks around the loop.  session.cancel() in the finally
   block finds the session finalized: the generator threw, or its return() has
   just finalized it. *)
FailStream(code) ==
    LET isTimeout == code = "timeout"
        isCancel  == code = "cancelled" \/ callerSignal # "idle"
    IN  /\ streamEvent' = IF isTimeout THEN "timed-out"
                          ELSE IF isCancel THEN "cancelled" ELSE "failed"
        /\ traceStatus' = IF isTimeout THEN "504" ELSE IF isCancel THEN "499" ELSE "502"
        /\ health' = "failure"
        /\ tail' = IF ~ended /\ connected /\ ~isCancel THEN <<"error">> ELSE tail
        /\ ended' = (ended \/ connected)
        /\ appTimer' = FALSE
        /\ attached' = FALSE
        /\ handler' = "finished"
        /\ UNCHANGED <<failure, headersSent, sent, jsonCode, connected, leftMidStream>>

(* The generator threw. *)
LoopThrows ==
    /\ handler = "running"
    /\ generator = "threw"
    /\ FailStream(raised)
    /\ UNCHANGED vars

(* Mutant of BodyThrows: the rejection of waitForDrain is swallowed. *)
BodyThrowsSwallowed ==
    /\ handler = "failing"
    /\ handler' = "resuming"
    /\ UNCHANGED <<vars, failure, headersSent, sent, tail, jsonCode, ended, connected,
                   leftMidStream, appTimer, attached, records>>

(* The loop body threw (waitForDrain rejected): for await calls the generator's
   return() before the catch block runs. *)
BodyThrows ==
    /\ handler = "failing"
    /\ ConsumerReturn
    /\ FailStream(failure)

(* The loop ended normally: terminal [DONE], success recorded, response ended. *)
LoopEnds ==
    /\ handler = "running"
    /\ generator = "returned"
    /\ tail' = IF ended \/ ~connected THEN tail ELSE <<"done">>
    /\ health' = "success"
    /\ streamEvent' = "completed"
    /\ traceStatus' = "200"
    /\ ended' = (ended \/ connected)
    /\ appTimer' = FALSE
    /\ attached' = FALSE
    /\ handler' = "finished"
    /\ UNCHANGED <<vars, failure, headersSent, sent, jsonCode, connected, leftMidStream>>

HandlerRuns == \/ StartRefused
               \/ StartAcquiring
               \/ Resume
               \/ WriteChunk
               \/ WriteChunkBackpressured
               \/ LoopThrows
               \/ BodyThrows
               \/ LoopEnds

(* ------------------------ callbacks while waiting ---------------------- *)

(* The response drained: waitForDrain unsubscribes and resolves. *)
Drained ==
    /\ handler = "draining"
    /\ connected
    /\ Unsubscribe(DrainListener)
    /\ handler' = "resuming"
    /\ UNCHANGED <<failure, headersSent, sent, tail, jsonCode, ended, connected,
                   leftMidStream, appTimer, attached, records>>

(* The connection closes.  onClose aborts only while the head is not sent; once
   it is, only a pending waitForDrain notices, through its own close listener. *)
ClientCloses ==
    /\ Waiting
    /\ connected
    /\ connected' = FALSE
    /\ leftMidStream' = (handler \in {"awaiting", "draining"})
    /\ CASE attached /\ ~headersSent ->
               /\ CallerAbort("cancelled")
               /\ Reaction
         [] handler = "draining" ->
               /\ Unsubscribe(DrainListener)
               /\ handler' = "failing"
               /\ failure' = "closed"
               /\ UNCHANGED <<headersSent, sent, tail, jsonCode, ended, appTimer,
                              attached, records>>
         [] OTHER ->
               UNCHANGED <<vars, handler, failure, headersSent, sent, tail, jsonCode,
                           ended, appTimer, attached, records>>

(* The handler's own timer aborts the signal with a GatewayRuntimeError. *)
AppTimerFires ==
    /\ Waiting
    /\ appTimer
    /\ CallerAbort("wrapped_timeout")
    /\ Reaction
    /\ UNCHANGED <<connected, leftMidStream>>

(* The session's timers and the upstream take their steps. *)
SessionTimerFires ==
    /\ Waiting
    /\ TotalTimerFires \/ IdleTimerFires
    /\ Reaction
    /\ UNCHANGED <<connected, leftMidStream>>

AcquisitionRefused ==
    /\ Waiting
    /\ TransportRejects \/ UnusableResponse
    /\ Reaction
    /\ UNCHANGED <<connected, leftMidStream>>

UpstreamDelivers ==
    /\ Waiting
    /\ Upstream
    /\ Reaction
    /\ UNCHANGED <<connected, leftMidStream>>

RequestNext == \/ HandlerRuns
               \/ WriteHead
               \/ Drained
               \/ ClientCloses
               \/ AppTimerFires
               \/ SessionTimerFires
               \/ AcquisitionRefused
               \/ UpstreamDelivers

RequestSpec == RequestInit /\ [][RequestNext]_allVars

(* Promise reactions run as soon as the current callback returns, and the armed
   timer of the handler fires; client, transport and upstream owe nothing. *)
FairRequestSpec == /\ RequestSpec
                   /\ WF_allVars(HandlerRuns)
                   /\ WF_allVars(AppTimerFires)

(* ------------------------------ properties ----------------------------- *)

(* A request recorded as a success was one: the session completed, every chunk it
   counted was written to the client in full, and the stream does not end in an
   error frame.  A session that times out while the handler waits for a slow client
   must therefore not be drained into a success (waitForDrain's subscription). *)
SuccessIsReal ==
    traceStatus = "200" =>
        /\ summary.state = "completed"
        /\ sent = summary.chunks
        /\ tail # <<"error">>
        /\ health = "success"

(* The loop body found the client gone: the write or the wait for the drain failed. *)
LeftWhileWritten == summary.state = "cancelled" /\ failure = "closed"

(* What the gateway records of a stream whose head was sent follows from what its
   session says of itself, for each of the four ways a session ends: the two are
   decided in different places, from different errors.  They differ in one case: a
   client that goes away while the handler writes to it.  Nobody aborts a signal
   then, so the session says cancelled and the trace 502, a failure. *)
TraceMatchesSession ==
    handler = "finished" /\ headersSent =>
        /\ traceStatus = "200" <=> summary.state = "completed"
        /\ traceStatus = "504" <=> summary.state = "timed_out"
        /\ traceStatus = "499" <=> summary.state = "cancelled" /\ ~LeftWhileWritten
        /\ traceStatus = "502" <=> summary.state = "failed" \/ LeftWhileWritten

(* A finished request leaves nothing behind, whichever way it ended: no timer, no
   listener on the request, the response or the session, no live credential, no
   unfinalized session, and no client left waiting for the end of a response. *)
NothingLeftBehind ==
    handler = "finished" =>
        /\ ~appTimer /\ ~attached /\ ~watching
        /\ timers = {}
        /\ finalizationListeners = {}
        /\ credential # "live"
        /\ phase = "open" => isFinalized
        /\ connected => ended

(* A client sees one kind of answer: [DONE] only after a completed session, an
   error frame only after the head, a JSON error only without a head. *)
OneKindOfAnswer ==
    /\ tail = <<"done">> => summary.state = "completed"
    /\ tail = <<"error">> => summary.state \in {"failed", "timed_out"}
    /\ jsonCode # "none" => ~headersSent /\ tail = <<>> /\ phase = "refused"

(* The verdict on a request is recorded once, and nothing is written after it. *)
VerdictIsFinal ==
    [][traceStatus # "none" => UNCHANGED <<traceStatus, streamEvent, health, sent, tail,
                                           headersSent>>]_allVars

(* Every request is finished, however the client, the transport and the upstream
   behave: the handler's timer bounds all three waits. *)
RequestFinishes == (handler = "starting") ~> (handler = "finished")

(* --------------------- what the documentation says --------------------- *)

(* docs/gateway-streaming.md on post-header failures: the error frame is followed
   by a terminal [DONE].  app.js writes no [DONE] after an error frame. *)
ErrorFrameIsFollowedByDone ==
    handler = "finished" /\ <<"error">> = tail => Len(tail) = 2

(* docs/gateway-streaming.md on a client disconnect: the execution signal is
   aborted and the stream recorded as cancelled.  onClose aborts nothing once the
   head is sent. *)
DisconnectIsCancelled ==
    leftMidStream /\ handler = "finished" => streamEvent \in {"cancelled", "completed"}

(* docs/gateway-streaming.md: an acquisition that exceeds the effective timeout is
   answered 502 or 504; app.js aborts with status 504.  The session's abort
   listener does not recognise that error as a timeout. *)
RuntimeTimeoutIsTimeout ==
    callerSignal = "wrapped_timeout" /\ jsonCode # "none" => jsonCode # "cancelled"
==============================================================================
