---------------------------- MODULE StreamSession ----------------------------
(***************************************************************************)
(* One governed streaming call: executeGovernedStream of                   *)
(* gateway/execution/stream-executor.js, from the call itself to the last  *)
(* thing its session can do.                                               *)
(*                                                                         *)
(* Around the session act its environment: the caller, who owns the abort  *)
(* signal; the injected transport, which hands over a body or fails; the   *)
(* upstream provider behind that body; the consumer, who drives the event  *)
(* stream, may walk away, cancel, or subscribe to the finalization; and    *)
(* the event loop, which fires armed timers.                               *)
(*                                                                         *)
(* One action is one turn of the event loop: a callback together with the  *)
(* promise reactions it triggers.  When a callback finalizes the session,  *)
(* whoever raced with the session's signal (the acquisition, or the        *)
(* generator inside its await) therefore unwinds in the same action.       *)
(*                                                                         *)
(* Abstracted: error messages and redaction, timestamps, timer delays (any *)
(* armed timer may fire), the bytes of a fragment (a fragment is its size  *)
(* and the parser events it yields), finish reasons.  An error has a code  *)
(* and a category, and every reader of the code takes either: one name     *)
(* stands for both.                                                        *)
(***************************************************************************)
EXTENDS Integers, Sequences, FiniteSets

CONSTANTS
    Fragments,        \* what the upstream may send: [bytes : Nat, events : Seq]
    MaxResponseBytes, \* policy.max_response_bytes
    Listeners         \* functions that may be passed to subscribeFinalization

(* The parser events a fragment can produce.  "invalid" is a chunk that
   validateGatewayResponse rejects, "error" an error event of the parser, "undeclared"
   the one it makes of a tool call the provider's capability does not allow. *)
Events == {"chunk", "invalid", "usage", "done", "error", "undeclared"}

ASSUME FragmentsAssumption ==
    Fragments \subseteq [bytes : Nat, events : Seq(Events)]

ASSUME MaxResponseBytesAssumption == MaxResponseBytes \in Nat \ {0}

VARIABLES
    request,                 \* the failing preflight checks and whether a credential is referenced
    phase,                   \* where the call is: idle, acquiring, open (session handed out), refused
    result,                  \* what the call returned: "none", "session" or an error code
    callerSignal,            \* the caller's AbortSignal: "idle" or its abort reason
    watching,                \* onCallerAbort is registered on that signal
    sessionState,
    isFinalized,
    sessionError,            \* the code of sessionError, "none" while null
    abortReason,             \* sessionController.signal.reason, "none" while not aborted
    credential,              \* "none", "live" or "destroyed"
    timers,                  \* the armed timers
    rawIterator,             \* "none", "open" or "returned"
    summary,                 \* cachedFrozenSummary
    finalizationListeners,
    subscribed,              \* history: who has asked to be called and has not taken it back
    heard,                   \* how often each listener was called since it subscribed
    generator,               \* safeEventGenerator: unstarted, awaiting, yielded, returned, threw
    raised,                  \* the code the generator threw, "none" if it did not
    events,                  \* parser events of the current fragment not yet handled
    terminalDoneReceived,
    cumulativeBytes,
    chunkCount,
    capturedUsage

callVars  == <<request, phase, result, callerSignal>>
finalVars == <<watching, sessionState, isFinalized, sessionError, abortReason,
               credential, timers, rawIterator, summary,
               finalizationListeners, subscribed, heard>>
genVars   == <<generator, raised>>
dataVars  == <<events, terminalDoneReceived, cumulativeBytes, chunkCount,
               capturedUsage>>
vars      == <<callVars, finalVars, genVars, dataVars>>

(* ----------------------------- vocabulary ------------------------------ *)

(* The synchronous preflight checks, in the order the code runs them, and the
   error code the call returns when a check is the first to fail.  The gate has a
   code for each of its rules, and one stands for them.  "aborted" is not a
   property of the request: it is read from the caller's signal. *)
CheckOrder == <<"request", "stream", "capability", "gate", "transport",
                "aborted", "credential", "normalize", "size">>
Checks     == {CheckOrder[i] : i \in DOMAIN CheckOrder}
CheckCode  == [request    |-> "request_invalid",
               stream     |-> "request_invalid",
               capability |-> "unsupported_capability",
               gate       |-> "execution_disabled",
               transport  |-> "internal_execution_error",
               aborted    |-> "cancelled",
               credential |-> "credential_unavailable",
               normalize  |-> "request_invalid",
               size       |-> "request_too_large"]

AbortReasons  == {"timeout",           \* an error whose own code is "timeout"
                  "wrapped_timeout",   \* a GatewayRuntimeError: code under gatewayError.error
                  "cancelled"}         \* anything else
CancelReasons == {"cancelled",         \* session.cancel(): the default execution error
                  "timeout",           \* session.cancel(e) with an execution error e: a code
                  "stream_error",      \* the classification knows, and one it does not
                  "bare_timeout",      \* an e that says timeout and is no execution error
                  "unclassified"}      \* an e that has no known code
UpstreamCodes == {"stream_error", "timeout", "cancelled", "upstream_error"}
Codes == {CheckCode[c] : c \in Checks} \cup UpstreamCodes \cup CancelReasons
            \cup {"response_too_large", "internal_execution_error"}

Terminal == {"completed", "failed", "cancelled", "timed_out"}
NoSummary == [state |-> "none", chunks |-> 0, bytes |-> 0, usage |-> FALSE,
              error |-> "none"]

(* How the two readers of the caller's abort reason classify it: the preflight
   check also looks under gatewayError.error, the abort listener does not. *)
PreflightReading(reason) ==
    IF reason \in {"timeout", "wrapped_timeout"} THEN "timeout" ELSE "cancelled"
ListenerReading(reason) ==
    IF reason \in {"timeout", "bare_timeout"} THEN "timeout" ELSE "cancelled"

(* The terminal state an error code leads to in the generator's catch block and
   after a failed acquisition. *)
StateOf(code) == IF code \in {"timeout", "bare_timeout"} THEN "timed_out"
                 ELSE IF code = "cancelled" THEN "cancelled"
                 ELSE "failed"

(* Mutant of Rethrown: the sanitized error loses its code. *)
RethrownGeneric(code) == "stream_error"

(* The code of the sanitized error the catch block rethrows. *)
Rethrown(code) == IF code = "unclassified" THEN "stream_error"
                  ELSE IF code = "bare_timeout" THEN "timeout"
                  ELSE code

(* The code buildSummary publishes: an error that is no valid execution error is
   replaced by a fallback. *)
Published(code) == IF code \in {"unclassified", "bare_timeout"}
                   THEN "internal_execution_error" ELSE code

(* ---------------------------- finalization ----------------------------- *)

(* buildSummary(), evaluated after the finalizing assignments. *)
BuiltSummary == [state  |-> sessionState', chunks |-> chunkCount',
                 bytes  |-> cumulativeBytes', usage |-> capturedUsage',
                 error  |-> Published(sessionError')]

(* finalizeOnce(newState, err).  Idle timers are local to the generator's
   await; the abort of the session signal ends that await in the same turn, so
   they are disarmed here together with the two timers the code clears. *)
FinalizeOnce(newState, err) ==
    IF isFinalized
    THEN UNCHANGED finalVars
    ELSE /\ isFinalized' = TRUE
         /\ sessionState' = IF sessionState \in {"pending", "active"}
                            THEN newState ELSE sessionState
         /\ timers' = {}
         /\ watching' = FALSE
         /\ sessionError' = IF err = "none" THEN sessionError ELSE err
         /\ abortReason' = IF sessionError' = "none" THEN "unclassified"
                                                     ELSE sessionError'
         /\ credential' = IF credential = "live" THEN "destroyed" ELSE credential
         /\ rawIterator' = IF rawIterator = "open" THEN "returned" ELSE rawIterator
         /\ summary' = BuiltSummary
         /\ heard' = [l \in Listeners |->
                         IF l \in finalizationListeners THEN heard[l] + 1 ELSE heard[l]]
         /\ finalizationListeners' = {}
         /\ UNCHANGED subscribed

(* Mutant of Unwind: the generator's await does not race with the session signal. *)
UnwindAcquisitionOnly(err) ==
    /\ phase' = IF phase = "acquiring" THEN "refused" ELSE phase
    /\ result' = IF phase = "acquiring" THEN ListenerReading(err) ELSE result
    /\ UNCHANGED genVars

(* What the abort of the session signal makes of whoever is racing with it: the
   acquisition fails the call, the generator's await throws.  In both, an error
   that is not a timeout counts as a cancellation for the acquisition, because
   the signal is aborted. *)
Unwind(err) ==
    /\ phase' = IF phase = "acquiring" THEN "refused" ELSE phase
    /\ result' = IF phase = "acquiring" THEN ListenerReading(err) ELSE result
    /\ generator' = IF generator = "awaiting" THEN "threw" ELSE generator
    /\ raised' = IF generator = "awaiting" THEN Rethrown(err) ELSE raised

(* A finalization from outside the generator. *)
FinalizeFromOutside(newState, err) ==
    /\ ~isFinalized
    /\ UNCHANGED <<request, dataVars>>
    /\ FinalizeOnce(newState, err)
    /\ Unwind(err)

(* ------------------------------ the call ------------------------------- *)

TypeOK ==
    /\ request \in [failing : SUBSET (Checks \ {"aborted"}), credential : BOOLEAN]
    /\ phase \in {"idle", "acquiring", "open", "refused"}
    /\ result \in Codes \cup {"none", "session"}
    /\ callerSignal \in AbortReasons \cup {"idle"}
    /\ watching \in BOOLEAN
    /\ sessionState \in Terminal \cup {"none", "pending", "active"}
    /\ isFinalized \in BOOLEAN
    /\ sessionError \in Codes \cup {"none"}
    /\ abortReason \in Codes \cup {"none"}
    /\ credential \in {"none", "live", "destroyed"}
    /\ timers \subseteq {"total", "unused", "idle"}
    /\ rawIterator \in {"none", "open", "returned"}
    /\ summary \in [state : Terminal \cup {"none"}, chunks : Nat, bytes : Nat,
                    usage : BOOLEAN, error : Codes \cup {"none"}]
    /\ finalizationListeners \subseteq Listeners
    /\ subscribed \subseteq Listeners
    /\ heard \in [Listeners -> Nat]
    /\ generator \in {"unstarted", "awaiting", "yielded", "returned", "threw"}
    /\ raised \in Codes \cup {"none"}
    /\ events \in Seq(Events)
    /\ terminalDoneReceived \in BOOLEAN
    /\ cumulativeBytes \in Nat
    /\ chunkCount \in Nat
    /\ capturedUsage \in BOOLEAN

Init ==
    /\ request \in [failing : SUBSET (Checks \ {"aborted"}), credential : BOOLEAN]
    /\ "credential" \in request.failing => request.credential
    /\ phase = "idle"
    /\ result = "none"
    /\ callerSignal = "idle"
    /\ watching = FALSE
    /\ sessionState = "none"
    /\ isFinalized = FALSE
    /\ sessionError = "none"
    /\ abortReason = "none"
    /\ credential = "none"
    /\ timers = {}
    /\ rawIterator = "none"
    /\ summary = NoSummary
    /\ finalizationListeners = {}
    /\ subscribed = {}
    /\ heard = [l \in Listeners |-> 0]
    /\ generator = "unstarted"
    /\ raised = "none"
    /\ events = <<>>
    /\ terminalDoneReceived = FALSE
    /\ cumulativeBytes = 0
    /\ chunkCount = 0
    /\ capturedUsage = FALSE

(* The checks that fail now, the caller's signal included. *)
Failing == request.failing \cup (IF callerSignal = "idle" THEN {} ELSE {"aborted"})

(* The position of the check that decides the outcome, and of the credential's
   resolution. *)
Decisive == CHOOSE i \in DOMAIN CheckOrder :
                /\ CheckOrder[i] \in Failing
                /\ \A j \in 1 .. i - 1 : CheckOrder[j] \notin Failing
CredentialCheck == 7

RefusalCode == IF CheckOrder[Decisive] = "aborted"
               THEN PreflightReading(callerSignal)
               ELSE CheckCode[CheckOrder[Decisive]]

(* Mutant of RefuseCall: a check after the credential's resolution fails without
   destroying it. *)
RefuseCallKeepsCredential ==
    /\ phase = "idle"
    /\ Failing # {}
    /\ phase' = "refused"
    /\ result' = RefusalCode
    /\ credential' = IF request.credential /\ Decisive > CredentialCheck
                     THEN "live" ELSE "none"
    /\ UNCHANGED <<request, callerSignal, watching, sessionState, isFinalized,
                   sessionError, abortReason, timers, rawIterator, summary,
                   finalizationListeners, subscribed, heard, genVars, dataVars>>

(* executeGovernedStream fails preflight.  A credential resolved before the
   failing check was destroyed on the way out. *)
RefuseCall ==
    /\ phase = "idle"
    /\ Failing # {}
    /\ phase' = "refused"
    /\ result' = RefusalCode
    /\ credential' = IF request.credential /\ Decisive > CredentialCheck
                     THEN "destroyed" ELSE "none"
    /\ UNCHANGED <<request, callerSignal, watching, sessionState, isFinalized,
                   sessionError, abortReason, timers, rawIterator, summary,
                   finalizationListeners, subscribed, heard, genVars, dataVars>>

(* Preflight passes: the credential is resolved, the abort listener registered,
   the total timer armed and transport.stream() called. *)
BeginAcquisition ==
    /\ phase = "idle"
    /\ Failing = {}
    /\ phase' = "acquiring"
    /\ sessionState' = "pending"
    /\ credential' = IF request.credential THEN "live" ELSE "none"
    /\ watching' = TRUE
    /\ timers' = {"total"}
    /\ UNCHANGED <<request, result, callerSignal, isFinalized, sessionError,
                   abortReason, rawIterator, summary, finalizationListeners, subscribed,
                   heard, genVars, dataVars>>

(* The transport rejects, or answers with something that is no usable stream
   body: a bad status, an error status, a body that cannot be iterated. *)
AcquisitionFails(newState, code) ==
    /\ phase = "acquiring"
    /\ phase' = "refused"
    /\ result' = code
    /\ UNCHANGED <<request, callerSignal, genVars, dataVars>>
    /\ FinalizeOnce(newState, code)

TransportRejects ==
    \E code \in {"timeout", "cancelled", "stream_error"} :
        AcquisitionFails(StateOf(code), code)

UnusableResponse ==
    \E code \in UpstreamCodes : AcquisitionFails("failed", code)

(* Mutant of AcquisitionSucceeds: the unused timer replaces the total timer. *)
AcquisitionDisarmsTotal ==
    /\ phase = "acquiring"
    /\ phase' = "open"
    /\ result' = "session"
    /\ sessionState' = "active"
    /\ rawIterator' = "open"
    /\ timers' = {"unused"}
    /\ UNCHANGED <<request, callerSignal, watching, isFinalized, sessionError,
                   abortReason, credential, summary, finalizationListeners, subscribed,
                   heard, genVars, dataVars>>

(* The transport hands over a body: the session becomes active, the unused timer
   is armed and the session returned. *)
AcquisitionSucceeds ==
    /\ phase = "acquiring"
    /\ phase' = "open"
    /\ result' = "session"
    /\ sessionState' = "active"
    /\ rawIterator' = "open"
    /\ timers' = timers \cup {"unused"}
    /\ UNCHANGED <<request, callerSignal, watching, isFinalized, sessionError,
                   abortReason, credential, summary, finalizationListeners, subscribed,
                   heard, genVars, dataVars>>

(* ---------------------- signals, timers and cancel --------------------- *)

(* The caller aborts its signal; onCallerAbort runs if it is still registered. *)
CallerAbort(reason) ==
    /\ callerSignal = "idle"
    /\ callerSignal' = reason
    /\ IF watching
       THEN FinalizeFromOutside(StateOf(ListenerReading(reason)), ListenerReading(reason))
       ELSE UNCHANGED <<request, phase, result, finalVars, genVars, dataVars>>

TotalTimerFires ==
    /\ "total" \in timers
    /\ FinalizeFromOutside("timed_out", "timeout")
    /\ UNCHANGED callerSignal

UnusedTimerFires ==
    /\ "unused" \in timers
    /\ FinalizeFromOutside("timed_out", "timeout")
    /\ UNCHANGED callerSignal

(* session.cancel(reason): a no-op once the state is terminal. *)
Cancel(reason) ==
    /\ phase = "open"
    /\ sessionState \notin Terminal
    /\ FinalizeFromOutside("cancelled", reason)
    /\ UNCHANGED callerSignal

(* session.subscribeFinalization(l): a late subscriber is called at once.  Bound:
   a listener subscribes only until it was heard (heard[l] = 0), so that a
   second call of a listener can only be the session's doing. *)
Subscribe(l) ==
    /\ phase = "open"
    /\ l \notin subscribed
    /\ heard[l] = 0
    /\ subscribed' = subscribed \cup {l}
    /\ IF isFinalized
       THEN /\ heard' = [heard EXCEPT ![l] = @ + 1]
            /\ UNCHANGED finalizationListeners
       ELSE /\ finalizationListeners' = finalizationListeners \cup {l}
            /\ UNCHANGED heard
    /\ UNCHANGED <<callVars, watching, sessionState, isFinalized, sessionError,
                   abortReason, credential, timers, rawIterator, summary,
                   genVars, dataVars>>

(* Mutant of Unsubscribe: the function that was returned deletes nothing. *)
UnsubscribeNobody(l) ==
    /\ l \in subscribed
    /\ ~isFinalized
    /\ subscribed' = subscribed \ {l}
    /\ UNCHANGED <<callVars, watching, sessionState, isFinalized, sessionError,
                   abortReason, credential, timers, rawIterator, summary,
                   finalizationListeners, heard, genVars, dataVars>>

(* The function subscribeFinalization returned is called: the listener leaves.  After
   the finalization it finds nothing to delete. *)
Unsubscribe(l) ==
    /\ l \in subscribed
    /\ ~isFinalized
    /\ subscribed' = subscribed \ {l}
    /\ finalizationListeners' = finalizationListeners \ {l}
    /\ UNCHANGED <<callVars, watching, sessionState, isFinalized, sessionError,
                   abortReason, credential, timers, rawIterator, summary, heard,
                   genVars, dataVars>>

(* ---------------------------- the generator ---------------------------- *)

(* The catch block: finalize with the state the code leads to and rethrow. *)
Throw(code) ==
    /\ FinalizeOnce(StateOf(code), Rethrown(code))
    /\ generator' = "threw"
    /\ raised' = Rethrown(code)
    /\ events' = <<>>

(* The loop left normally: finalizeOnce('completed', null). *)
Complete ==
    /\ FinalizeOnce("completed", "none")
    /\ generator' = "returned"
    /\ events' = <<>>
    /\ UNCHANGED raised

(* The head of the loop: disarm the unused timer, then throw if the session was
   aborted, else arm an idle timer and await the next fragment. *)
Iterate ==
    IF abortReason # "none"
    THEN Throw(ListenerReading(abortReason))
    ELSE /\ timers' = (timers \ {"unused"}) \cup {"idle"}
         /\ generator' = "awaiting"
         /\ events' = <<>>
         /\ UNCHANGED <<raised, watching, sessionState, isFinalized, sessionError,
                        abortReason, credential, rawIterator, summary,
                        finalizationListeners, subscribed, heard>>

(* Events before the first one that yields or throws only set flags. *)
Stops(evs) == {i \in DOMAIN evs : evs[i] \in {"chunk", "invalid", "error", "undeclared"}}
Stop(evs)  == CHOOSE i \in Stops(evs) : \A j \in Stops(evs) : i <= j
Quiet(evs) == {evs[i] : i \in {j \in DOMAIN evs : \A k \in Stops(evs) : j < k}}

(* The code an event is thrown with: an error event keeps the parser's. *)
EventCode(ev) == IF ev = "undeclared" THEN "unsupported_capability" ELSE "stream_error"

(* The rest of the loop body on the parser events evs: flags are set until an
   event yields, throws, or none is left. *)
Process(evs) ==
    /\ terminalDoneReceived' = (terminalDoneReceived \/ "done" \in Quiet(evs))
    /\ capturedUsage' = (capturedUsage \/ "usage" \in Quiet(evs))
    /\ \/ /\ Stops(evs) # {}
          /\ evs[Stop(evs)] = "chunk"
          /\ chunkCount' = chunkCount + 1
          /\ events' = SubSeq(evs, Stop(evs) + 1, Len(evs))
          /\ generator' = "yielded"
          /\ timers' = timers \ {"idle"}
          /\ UNCHANGED <<raised, watching, sessionState, isFinalized, sessionError,
                         abortReason, credential, rawIterator, summary,
                         finalizationListeners, subscribed, heard>>
       \/ /\ Stops(evs) # {}
          /\ evs[Stop(evs)] # "chunk"
          /\ UNCHANGED chunkCount
          /\ Throw(EventCode(evs[Stop(evs)]))
       \/ /\ Stops(evs) = {}
          /\ terminalDoneReceived'
          /\ UNCHANGED chunkCount
          /\ Complete
       \/ /\ Stops(evs) = {}
          /\ ~terminalDoneReceived'
          /\ UNCHANGED chunkCount
          /\ Iterate

(* The consumer asks for the next event: the generator starts, or resumes after
   its yield with the rest of the fragment. *)
ConsumerNext ==
    /\ phase = "open"
    /\ UNCHANGED <<callVars, cumulativeBytes>>
    /\ \/ /\ generator = "unstarted"
          /\ UNCHANGED <<terminalDoneReceived, capturedUsage, chunkCount>>
          /\ Iterate
       \/ /\ generator = "yielded"
          /\ Process(events)

(* The consumer stops early.  A generator that never started has no finally
   block to run; one that is at a yield finalizes as cancelled, with no error. *)
ConsumerReturn ==
    /\ phase = "open"
    /\ generator' = "returned"
    /\ events' = <<>>
    /\ UNCHANGED <<callVars, raised, terminalDoneReceived, cumulativeBytes,
                   chunkCount, capturedUsage>>
    /\ \/ /\ generator = "unstarted"
          /\ UNCHANGED finalVars
       \/ /\ generator = "yielded"
          /\ FinalizeOnce("cancelled", "none")

(* The pending read settles with a fragment. *)
FragmentArrives(f) ==
    /\ generator = "awaiting"
    /\ cumulativeBytes' = cumulativeBytes + f.bytes
    /\ IF cumulativeBytes' > MaxResponseBytes
       THEN /\ UNCHANGED <<terminalDoneReceived, chunkCount, capturedUsage>>
            /\ Throw("response_too_large")
       ELSE Process(f.events)
    /\ UNCHANGED callVars

(* The pending read settles with the end of the body, and the parser's flush
   yields a final [DONE], an error event, or nothing of use. *)
BodyEnds(flushed) ==
    /\ generator = "awaiting"
    /\ terminalDoneReceived' = (flushed = "done")
    /\ UNCHANGED <<callVars, cumulativeBytes, chunkCount, capturedUsage>>
    /\ IF flushed = "done" THEN Complete ELSE Throw(EventCode(flushed))

(* The pending read rejects, settles with a malformed result or a value of the
   wrong type, or the idle timer fires first. *)
ReadFails(code) ==
    /\ generator = "awaiting"
    /\ UNCHANGED <<callVars, terminalDoneReceived, cumulativeBytes, chunkCount,
                   capturedUsage>>
    /\ Throw(code)

UpstreamFails == \E code \in UpstreamCodes \cup {"unclassified"} : ReadFails(code)

IdleTimerFires ==
    /\ "idle" \in timers
    /\ ReadFails("timeout")

(* ---------------------------- specification ---------------------------- *)

Caller    == RefuseCall \/ BeginAcquisition \/ \E r \in AbortReasons : CallerAbort(r)
Transport == TransportRejects \/ UnusableResponse \/ AcquisitionSucceeds
Timers    == TotalTimerFires \/ UnusedTimerFires \/ IdleTimerFires
Upstream  == \/ \E f \in Fragments : FragmentArrives(f)
             \/ \E flushed \in {"done", "error", "undeclared", "nothing"} : BodyEnds(flushed)
             \/ UpstreamFails
Consumer  == \/ ConsumerNext
             \/ ConsumerReturn
             \/ \E r \in CancelReasons : Cancel(r)
             \/ \E l \in Listeners : Subscribe(l) \/ Unsubscribe(l)

Next == Caller \/ Transport \/ Timers \/ Upstream \/ Consumer

Spec == Init /\ [][Next]_vars

(* An armed timer fires: the event loop owes nothing else.  The transport, the
   upstream and the consumer may stop acting at any point. *)
FairSpec == Spec /\ WF_vars(TotalTimerFires)

(* ------------------------------ properties ----------------------------- *)

(* A live credential always has someone left to destroy it: the session is not
   finalized and its total timer is armed, so even a caller that never consumes,
   cancels or aborts cannot keep the secret alive (destroyCredOnce). *)
CredentialGuarded ==
    credential = "live" => /\ ~isFinalized
                           /\ "total" \in timers

(* finalizeOnce leaves nothing behind: no armed timer, no listener on the caller's
   signal or on the session, no open upstream iterator, no reader of the upstream,
   no live credential, and the session signal is aborted. *)
FinalizedIsQuiescent ==
    isFinalized => /\ timers = {}
                   /\ ~watching
                   /\ finalizationListeners = {}
                   /\ rawIterator # "open"
                   /\ generator # "awaiting"
                   /\ credential # "live"
                   /\ abortReason # "none"

(* A summary that says completed is a whole answer: the terminal [DONE] arrived
   with nothing after it, the consumer was given every chunk before it, within
   the byte limit, and no error is attached. *)
CompletedIsWhole ==
    summary.state = "completed" =>
        /\ terminalDoneReceived
        /\ generator = "returned"
        /\ events = <<>>
        /\ summary.chunks = chunkCount
        /\ summary.bytes = cumulativeBytes
        /\ cumulativeBytes <= MaxResponseBytes
        /\ summary.error = "none"

(* The three places a failure is reported agree: the state and safe_error of the
   summary, the error the call returned, and the error the consumer caught.  A
   caller's own reason is the one exception: session.cancel(e) records "cancelled"
   whatever e is, and a consumer that resumes is told of a timeout if e says so. *)
OutcomesAgree ==
    /\ summary.state = "timed_out" => summary.error = "timeout"
    /\ summary.state = "failed" /\ raised # "none" => raised = summary.error
    /\ phase = "refused" /\ isFinalized => result = summary.error
    /\ raised = "timeout" =>
           \/ summary.state = "timed_out"
           \/ summary.state = "cancelled" /\ ListenerReading(abortReason) = "timeout"
    /\ raised = "cancelled" => summary.state = "cancelled"

(* The summary is published once: after finalizeOnce neither the state, the error
   nor the cached summary change, whatever a paused consumer still drains. *)
SummaryIsFinal ==
    [][isFinalized => UNCHANGED <<isFinalized, summary, sessionState, sessionError>>]_vars

(* The upstream is never read again after finalization: a consumer that was paused
   at a yield may at most receive the rest of the fragment it already holds. *)
NoReadAfterFinalization ==
    [][isFinalized => /\ cumulativeBytes' = cumulativeBytes
                      /\ generator' # "awaiting"
                      /\ Len(events') <= Len(events)]_vars

(* subscribeFinalization calls each listener exactly once: everyone who asked, before
   the finalization or after it, is called in the step that makes both true; nobody is
   called twice; and nobody is called who never asked or has taken it back in time
   (waitForDrain relies on all three). *)
ListenersHeardOnce ==
    [][\A l \in Listeners :
          /\ heard'[l] <= 1
          /\ l \in subscribed' /\ isFinalized' => heard'[l] = 1
          /\ heard'[l] # heard[l] => isFinalized' /\ l \in subscribed']_vars

(* Once a call has resolved a credential, the credential is eventually destroyed,
   whatever the caller, the transport, the upstream and the consumer do or fail to
   do: the total timer is enough. *)
CredentialEventuallyDestroyed == (credential = "live") ~> (credential = "destroyed")

(* The session implements GovernedCall: it settles once and destroys its
   credential in that same step, and a call that began does settle. *)
Call == INSTANCE GovernedCall WITH
            Outcomes <- Terminal,
            stage    <- IF phase = "idle" THEN "requested"
                        ELSE IF phase = "refused" \/ isFinalized THEN "settled"
                        ELSE "running",
            secret   <- credential,
            outcome  <- IF isFinalized THEN sessionState
                        ELSE IF phase = "refused" THEN "refused" ELSE "none"

ImplementsGovernedCall == Call!FairSpec
==============================================================================
