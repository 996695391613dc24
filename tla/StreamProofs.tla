---------------------------- MODULE StreamProofs ----------------------------
(***************************************************************************)
(* Proofs about StreamSession and, at the end, about StreamRequest, for    *)
(* every value of their constants: any set of fragments, any byte limit,   *)
(* any set of listeners.                                                   *)
(*                                                                         *)
(* IInv is the session's inductive invariant.  Beside the types and the    *)
(* property FinalizedIsQuiescent it says what each phase of the call fixes *)
(* (Lifecycle) and that the summary and the finalization flag go together  *)
(* (SummaryMatches).  FinalizeOnceLemma is the heart of it: whatever the   *)
(* new state and error, finalizeOnce re-establishes all of IInv that       *)
(* speaks about the session's resources.                                   *)
(*                                                                         *)
(* The request handler is one particular environment of the session: every *)
(* step of the composition is a step of StreamSession or leaves the        *)
(* session alone, so what is established of the session holds inside the   *)
(* gateway, too.  RInv adds what relates the handler to its session.       *)
(***************************************************************************)
EXTENDS StreamRequest, WellFoundedInduction, TLAPS

(* What each phase of the call fixes. *)
Lifecycle ==
    /\ phase = "idle" => /\ ~isFinalized
                         /\ credential = "none"
                         /\ timers = {}
                         /\ ~watching
    /\ phase = "acquiring" => /\ ~isFinalized
                              /\ sessionState = "pending"
                              /\ "total" \in timers
    /\ phase = "refused" => /\ credential # "live"
                            /\ timers = {}
                            /\ ~watching
    /\ phase = "open" /\ ~isFinalized => /\ sessionState = "active"
                                         /\ "total" \in timers
    /\ phase # "open" => /\ generator = "unstarted"
                         /\ finalizationListeners = {}
                         /\ rawIterator = "none"
    /\ "idle" \in timers => generator = "awaiting"

(* The summary exists exactly when the session is finalized, with its state. *)
SummaryMatches ==
    /\ ~isFinalized => /\ abortReason = "none"
                       /\ sessionError = "none"
                       /\ summary.state = "none"
    /\ isFinalized => /\ sessionState \in Terminal
                      /\ summary.state = sessionState

IInv == TypeOK /\ Lifecycle /\ SummaryMatches /\ FinalizedIsQuiescent

(* The types of the variables finalizeOnce writes. *)
FinalTypes ==
    /\ watching \in BOOLEAN
    /\ sessionState \in Terminal \cup {"none", "pending", "active"}
    /\ isFinalized \in BOOLEAN
    /\ sessionError \in Codes \cup {"none"}
    /\ abortReason \in Codes \cup {"none"}
    /\ credential \in {"none", "live", "destroyed"}
    /\ timers \subseteq {"total", "unused", "idle"}
    /\ rawIterator \in {"none", "open", "returned"}
    /\ summary \in [state : Terminal \cup {"none"}, chunks : Nat, bytes : Nat,
                    usage : BOOLEAN, error : Codes \cup {"none"}]
    /\ finalizationListeners \subseteq Listeners
    /\ subscribed \subseteq Listeners
    /\ heard \in [Listeners -> Nat]

(* What holds of those variables once the session is finalized. *)
Settled ==
    /\ isFinalized
    /\ timers = {}
    /\ ~watching
    /\ finalizationListeners = {}
    /\ rawIterator # "open"
    /\ credential # "live"
    /\ abortReason # "none"
    /\ sessionState \in Terminal
    /\ summary.state = sessionState

(* The codes that occur by name in the actions are codes. *)
LEMMA CodeNames ==
    /\ UpstreamCodes \subseteq Codes
    /\ CancelReasons \subseteq Codes
    /\ {"timeout", "cancelled", "stream_error", "response_too_large",
        "internal_execution_error", "unsupported_capability", "bare_timeout"} \subseteq Codes
    /\ "none" \notin Codes
<1>1. Codes = {CheckCode[c] : c \in Checks} \cup UpstreamCodes \cup CancelReasons
                \cup {"response_too_large", "internal_execution_error"}
  BY DEF Codes
<1>2. \A c \in Checks : CheckCode[c] # "none"
  BY DEF Checks, CheckCode, CheckOrder
<1>3. QED
  <2>1. CheckCode["capability"] = "unsupported_capability" /\ "capability" \in Checks
    BY DEF CheckCode, Checks, CheckOrder
  <2>2. "unsupported_capability" \in Codes
    BY <1>1, <2>1
  <2>3. QED
    BY <1>1, <1>2, <2>2 DEF UpstreamCodes, CancelReasons

(* So is the code an event of the parser is thrown with. *)
LEMMA EventCodes ==
    ASSUME NEW ev
    PROVE  EventCode(ev) \in {"stream_error", "unsupported_capability"} /\ EventCode(ev) \in Codes
  BY CodeNames DEF EventCode

(* finalizeOnce, first call or not, leaves the session settled and well typed,
   and closes an upstream iterator without opening one. *)
LEMMA FinalizeOnceLemma ==
    ASSUME IInv, phase \in {"acquiring", "open"},
           NEW s \in Terminal, NEW e \in Codes \cup {"none"},
           FinalizeOnce(s, e),
           chunkCount' \in Nat, cumulativeBytes' \in Nat, capturedUsage' \in BOOLEAN
    PROVE  /\ FinalTypes'
           /\ Settled'
           /\ rawIterator = "none" => rawIterator' = "none"
<1>1. CASE isFinalized
  <2>1. UNCHANGED finalVars
    BY <1>1 DEF FinalizeOnce
  <2>2. FinalTypes /\ Settled
    BY <1>1 DEF IInv, TypeOK, SummaryMatches, FinalizedIsQuiescent, FinalTypes, Settled
  <2>3. QED
    BY <2>1, <2>2 DEF finalVars, FinalTypes, Settled
<1>2. CASE ~isFinalized
  <2>1. sessionState \in {"pending", "active"}
    BY <1>2 DEF IInv, Lifecycle
  <2>2. /\ isFinalized' = TRUE
        /\ sessionState' = s
        /\ timers' = {}
        /\ watching' = FALSE
        /\ finalizationListeners' = {}
    BY <1>2, <2>1 DEF FinalizeOnce
  <2>3. /\ sessionError' \in Codes \cup {"none"}
        /\ abortReason' \in Codes
    BY <1>2, CodeNames DEF FinalizeOnce, IInv, SummaryMatches, CancelReasons
  <2>4. /\ credential' \in {"none", "destroyed"}
        /\ rawIterator' \in {"none", "returned"}
        /\ rawIterator = "none" => rawIterator' = "none"
    BY <1>2 DEF FinalizeOnce, IInv, TypeOK
  <2>5. Published(sessionError') \in Codes \cup {"none"}
    BY <2>3, CodeNames DEF Published
  <2>6. /\ summary' \in [state : Terminal \cup {"none"}, chunks : Nat, bytes : Nat,
                         usage : BOOLEAN, error : Codes \cup {"none"}]
        /\ summary'.state = s
    BY <1>2, <2>2, <2>5 DEF FinalizeOnce, BuiltSummary
  <2>7. heard' \in [Listeners -> Nat] /\ subscribed' \subseteq Listeners
    BY <1>2 DEF FinalizeOnce, IInv, TypeOK
  <2>8. QED
    BY <2>2, <2>3, <2>4, <2>6, <2>7, CodeNames DEF FinalTypes, Settled
<1>3. QED
  BY <1>1, <1>2

(* The initial states satisfy the invariant. *)
LEMMA InitIInv == Init => IInv
<1> SUFFICES ASSUME Init
             PROVE  IInv
  OBVIOUS
<1>1. TypeOK
  <2>1. request \in [failing : SUBSET (Checks \ {"aborted"}), credential : BOOLEAN]
    BY DEF Init
  <2>2. summary \in [state : Terminal \cup {"none"}, chunks : Nat, bytes : Nat,
                     usage : BOOLEAN, error : Codes \cup {"none"}]
    BY DEF Init, NoSummary
  <2>3. heard \in [Listeners -> Nat] /\ events \in Seq(Events)
    BY DEF Init
  <2>4. QED
    BY <2>1, <2>2, <2>3 DEF Init, TypeOK
<1>2. Lifecycle
  BY DEF Init, Lifecycle
<1>3. SummaryMatches
  BY DEF Init, SummaryMatches, NoSummary
<1>4. FinalizedIsQuiescent
  BY DEF Init, FinalizedIsQuiescent
<1>5. QED
  BY <1>1, <1>2, <1>3, <1>4 DEF IInv

(* The types of the call's and the generator's variables. *)
CallTypes ==
    /\ request \in [failing : SUBSET (Checks \ {"aborted"}), credential : BOOLEAN]
    /\ phase \in {"idle", "acquiring", "open", "refused"}
    /\ result \in Codes \cup {"none", "session"}
    /\ callerSignal \in AbortReasons \cup {"idle"}

GeneratorTypes ==
    /\ generator \in {"unstarted", "awaiting", "yielded", "returned", "threw"}
    /\ raised \in Codes \cup {"none"}
    /\ events \in Seq(Events)
    /\ terminalDoneReceived \in BOOLEAN
    /\ cumulativeBytes \in Nat
    /\ chunkCount \in Nat
    /\ capturedUsage \in BOOLEAN

(* The type invariant is the conjunction of the three groups the steps change. *)
LEMMA TypeParts == /\ TypeOK <=> CallTypes /\ FinalTypes /\ GeneratorTypes
                   /\ TypeOK' <=> CallTypes' /\ FinalTypes' /\ GeneratorTypes'
  BY DEF TypeOK, CallTypes, FinalTypes, GeneratorTypes

(* A step that settles the session re-establishes IInv, in every phase that can
   hold a settled session. *)
LEMMA SettledIInv ==
    ASSUME CallTypes', FinalTypes', GeneratorTypes', Settled',
           generator' # "awaiting",
           phase' \in {"open", "refused"},
           phase' = "refused" => generator' = "unstarted" /\ rawIterator' = "none"
    PROVE  IInv'
  BY TypeParts DEF IInv, Lifecycle, SummaryMatches, FinalizedIsQuiescent, FinalTypes,
                   Settled

(* A non-empty set of naturals has a least element. *)
LEMMA LeastNatural ==
    ASSUME NEW T, T \subseteq Nat, T # {}
    PROVE  \E m \in T : \A k \in T : m <= k
<1>1. \E x \in T : \A y \in T : ~(<<y, x>> \in OpToRel(<, Nat))
  BY WFMin, NatLessThanWellFounded, Zenon
<1>2. PICK x \in T : \A y \in T : ~(<<y, x>> \in {p \in Nat \X Nat : p[1] < p[2]})
  BY <1>1 DEF OpToRel
<1>3. ASSUME NEW y \in T
      PROVE  x <= y
  <2>1. <<y, x>> \in Nat \X Nat
    OBVIOUS
  <2>2. ~(<<y, x>>[1] < <<y, x>>[2])
    BY <1>2, <2>1
  <2>3. QED
    BY <2>2
<1>4. QED
  BY <1>3

(* Stop(evs) is the first event that yields or throws, when there is one. *)
LEMMA StopIsFirst ==
    ASSUME NEW evs \in Seq(Events), Stops(evs) # {}
    PROVE  /\ Stop(evs) \in 1 .. Len(evs)
           /\ Stop(evs) \in Stops(evs)
           /\ \A j \in Stops(evs) : Stop(evs) <= j
<1>1. Stops(evs) \subseteq 1 .. Len(evs)
  BY DEF Stops
<1>2. \E i \in Stops(evs) : \A j \in Stops(evs) : i <= j
  BY <1>1, LeastNatural
<1>3. QED
  BY <1>1, <1>2 DEF Stop

(* The check that decides a refusal exists, and its code is a code. *)
LEMMA RefusalCodeIsCode ==
    ASSUME request \in [failing : SUBSET (Checks \ {"aborted"}), credential : BOOLEAN],
           Failing # {}
    PROVE  RefusalCode \in Codes
<1> DEFINE Bad == {i \in DOMAIN CheckOrder : CheckOrder[i] \in Failing}
<1>1. Bad \subseteq Nat
  BY DEF CheckOrder
<1>2. Failing \subseteq Checks
  BY DEF Failing, Checks, CheckOrder
<1>3. Bad # {}
  BY <1>2 DEF Checks
<1>4. PICK m \in Bad : \A k \in Bad : m <= k
  BY <1>1, <1>3, LeastNatural
<1>5. DOMAIN CheckOrder = 1 .. 9
  BY DEF CheckOrder
<1>6. \A j \in 1 .. m - 1 : CheckOrder[j] \notin Failing
  BY <1>4, <1>5
<1>7. Decisive \in DOMAIN CheckOrder
  BY <1>4, <1>6 DEF Decisive
<1>8. CheckOrder[Decisive] \in Checks
  BY <1>7 DEF Checks
<1>9. PreflightReading(callerSignal) \in Codes
  BY CodeNames DEF PreflightReading
<1>10. QED
  BY <1>8, <1>9 DEF RefusalCode, Codes

(* Every way the generator's code runs on, given data of the right types. *)
GeneratorRuns ==
    \/ \E code \in Codes : Throw(code)
    \/ Complete
    \/ Iterate

(* A turn of the generator on an open session preserves IInv, given what the turn
   makes of the generator, its timers and its buffered events. *)
LEMMA GeneratorRunsIInv ==
    ASSUME IInv, phase = "open", UNCHANGED callVars,
           terminalDoneReceived' \in BOOLEAN, cumulativeBytes' \in Nat,
           chunkCount' \in Nat, capturedUsage' \in BOOLEAN,
           GeneratorRuns
    PROVE  IInv'
<1>1. CallTypes' /\ phase' = "open"
  BY TypeParts DEF IInv, CallTypes, callVars
<1>2. ASSUME NEW code \in Codes, Throw(code)
      PROVE  IInv'
  <2>1. StateOf(code) \in Terminal /\ Rethrown(code) \in Codes
    BY <1>2, CodeNames DEF StateOf, Rethrown, Terminal
  <2>2. FinalTypes' /\ Settled'
    BY <1>2, <2>1, FinalizeOnceLemma DEF Throw
  <2>3. GeneratorTypes' /\ generator' # "awaiting"
    BY <1>2, <2>1 DEF Throw, GeneratorTypes
  <2>4. QED
    BY <1>1, <2>2, <2>3, SettledIInv
<1>3. CASE Complete
  <2>1. FinalTypes' /\ Settled'
    BY <1>3, FinalizeOnceLemma DEF Complete, Terminal
  <2>2. GeneratorTypes' /\ generator' # "awaiting"
    BY <1>3 DEF Complete, GeneratorTypes, IInv, TypeOK
  <2>3. QED
    BY <1>1, <2>1, <2>2, SettledIInv
<1>4. CASE Iterate
  <2>1. CASE abortReason # "none"
    BY <1>2, <1>4, <2>1, CodeNames DEF Iterate, ListenerReading
  <2>2. CASE abortReason = "none"
    <3>1. ~isFinalized
      BY <2>2 DEF IInv, FinalizedIsQuiescent
    <3>2. FinalTypes'
      BY <1>4, <2>2, TypeParts DEF Iterate, IInv, FinalTypes
    <3>3. GeneratorTypes'
      BY <1>4, <2>2 DEF Iterate, IInv, TypeOK, GeneratorTypes
    <3>4. Lifecycle'
      BY <1>1, <1>4, <2>2, <3>1 DEF Iterate, IInv, Lifecycle
    <3>5. SummaryMatches' /\ FinalizedIsQuiescent'
      BY <1>4, <2>2, <3>1 DEF Iterate, IInv, SummaryMatches, FinalizedIsQuiescent
    <3>6. QED
      BY <1>1, <3>2, <3>3, <3>4, <3>5, TypeParts DEF IInv
  <2>3. QED
    BY <2>1, <2>2
<1>5. QED
  BY <1>2, <1>3, <1>4 DEF GeneratorRuns

(* Handling the parser events of a fragment preserves the invariant. *)
LEMMA ProcessIInv ==
    ASSUME IInv, phase = "open", UNCHANGED callVars, cumulativeBytes' \in Nat,
           generator \in {"yielded", "awaiting"},
           NEW evs \in Seq(Events), Process(evs)
    PROVE  IInv'
<1>1. /\ terminalDoneReceived' \in BOOLEAN
      /\ capturedUsage' \in BOOLEAN
  BY DEF Process, IInv, TypeOK
<1>2. ASSUME chunkCount' = chunkCount, GeneratorRuns
      PROVE  IInv'
  BY <1>1, <1>2, GeneratorRunsIInv DEF IInv, TypeOK
<1>3. CASE /\ Stops(evs) # {}
           /\ evs[Stop(evs)] = "chunk"
           /\ chunkCount' = chunkCount + 1
           /\ events' = SubSeq(evs, Stop(evs) + 1, Len(evs))
           /\ generator' = "yielded"
           /\ timers' = timers \ {"idle"}
           /\ UNCHANGED <<raised, watching, sessionState, isFinalized, sessionError,
                          abortReason, credential, rawIterator, summary,
                          finalizationListeners, subscribed, heard>>
  <2>1. Stop(evs) \in 1 .. Len(evs)
    BY <1>3, StopIsFirst
  <2>2. events' \in Seq(Events)
    BY <1>3, <2>1
  <2>3. CallTypes' /\ phase' = "open"
    BY TypeParts DEF IInv, CallTypes, callVars
  <2>4. FinalTypes'
    BY <1>3, TypeParts DEF IInv, FinalTypes
  <2>5. GeneratorTypes'
    BY <1>1, <1>3, <2>2 DEF GeneratorTypes, IInv, TypeOK
  <2>6. Lifecycle'
    BY <1>3, <2>3 DEF IInv, Lifecycle
  <2>7. SummaryMatches' /\ FinalizedIsQuiescent'
    BY <1>3 DEF IInv, SummaryMatches, FinalizedIsQuiescent
  <2>8. QED
    BY <2>3, <2>4, <2>5, <2>6, <2>7, TypeParts DEF IInv
<1>4. CASE Throw(EventCode(evs[Stop(evs)])) /\ chunkCount' = chunkCount
  BY <1>2, <1>4, EventCodes DEF GeneratorRuns
<1>5. CASE (Complete \/ Iterate) /\ chunkCount' = chunkCount
  BY <1>2, <1>5 DEF GeneratorRuns
<1>6. QED
  BY <1>3, <1>4, <1>5 DEF Process

(* A finalization from outside the generator preserves the invariant. *)
LEMMA FinalizeFromOutsideIInv ==
    ASSUME IInv, phase \in {"acquiring", "open"},
           callerSignal' \in AbortReasons \cup {"idle"},
           NEW s \in Terminal, NEW e \in Codes,
           FinalizeFromOutside(s, e)
    PROVE  IInv'
<1>1. FinalTypes' /\ Settled' /\ (rawIterator = "none" => rawIterator' = "none")
  BY FinalizeOnceLemma DEF FinalizeFromOutside, dataVars, IInv, TypeOK
<1>2. ListenerReading(e) \in Codes /\ Rethrown(e) \in Codes
  BY CodeNames DEF ListenerReading, Rethrown
<1>3. CallTypes'
  BY <1>2 DEF FinalizeFromOutside, Unwind, IInv, TypeOK, CallTypes
<1>4. GeneratorTypes' /\ generator' # "awaiting"
  BY <1>2 DEF FinalizeFromOutside, Unwind, dataVars, IInv, TypeOK, GeneratorTypes
<1>5. /\ phase' \in {"open", "refused"}
      /\ phase' = "refused" => generator' = "unstarted" /\ rawIterator' = "none"
  BY <1>1 DEF FinalizeFromOutside, Unwind, IInv, Lifecycle
<1>6. QED
  BY <1>1, <1>3, <1>4, <1>5, SettledIInv

(* A refused preflight (stream-executor.js before the session exists) leaves no timer,
   no listener and no live credential. *)
LEMMA RefuseCallIInv == IInv /\ RefuseCall => IInv'
<1> SUFFICES ASSUME IInv, RefuseCall
             PROVE  IInv'
  OBVIOUS
<1>1. RefusalCode \in Codes
  BY RefusalCodeIsCode DEF RefuseCall, IInv, TypeOK
<1>2. CallTypes'
  BY <1>1 DEF RefuseCall, CallTypes, IInv, TypeOK
<1>3. FinalTypes'
  BY DEF RefuseCall, FinalTypes, IInv, TypeOK
<1>4. GeneratorTypes'
  BY DEF RefuseCall, GeneratorTypes, IInv, TypeOK, genVars, dataVars
<1>5. Lifecycle'
  BY DEF RefuseCall, Lifecycle, IInv, genVars
<1>6. SummaryMatches' /\ FinalizedIsQuiescent'
  BY DEF RefuseCall, SummaryMatches, FinalizedIsQuiescent, Lifecycle, IInv
<1>7. QED
  BY <1>2, <1>3, <1>4, <1>5, <1>6, TypeParts DEF IInv

(* Preflight passed: the total timer is armed together with the credential. *)
LEMMA BeginAcquisitionIInv == IInv /\ BeginAcquisition => IInv'
<1> SUFFICES ASSUME IInv, BeginAcquisition
             PROVE  IInv'
  OBVIOUS
<1>1. CallTypes'
  BY DEF BeginAcquisition, CallTypes, IInv, TypeOK
<1>2. FinalTypes'
  BY DEF BeginAcquisition, FinalTypes, IInv, TypeOK
<1>3. GeneratorTypes'
  BY DEF BeginAcquisition, GeneratorTypes, IInv, TypeOK, genVars, dataVars
<1>4. Lifecycle'
  BY DEF BeginAcquisition, Lifecycle, IInv, genVars
<1>5. SummaryMatches' /\ FinalizedIsQuiescent'
  BY DEF BeginAcquisition, SummaryMatches, FinalizedIsQuiescent, Lifecycle, IInv
<1>6. QED
  BY <1>1, <1>2, <1>3, <1>4, <1>5, TypeParts DEF IInv

(* A failed acquisition finalizes the session it refuses. *)
LEMMA AcquisitionFailsIInv ==
    ASSUME IInv, NEW s \in Terminal, NEW code \in Codes, AcquisitionFails(s, code)
    PROVE  IInv'
<1>1. phase = "acquiring" /\ phase' = "refused"
  BY DEF AcquisitionFails
<1>2. FinalTypes' /\ Settled' /\ (rawIterator = "none" => rawIterator' = "none")
  BY <1>1, FinalizeOnceLemma DEF AcquisitionFails, dataVars, IInv, TypeOK
<1>3. CallTypes' /\ GeneratorTypes'
  BY DEF AcquisitionFails, CallTypes, GeneratorTypes, IInv, TypeOK, genVars, dataVars
<1>4. generator' = "unstarted" /\ rawIterator' = "none"
  BY <1>1, <1>2 DEF AcquisitionFails, IInv, Lifecycle, genVars
<1>5. QED
  BY <1>1, <1>2, <1>3, <1>4, SettledIInv

(* Handing out the session keeps the total timer and opens the iterator. *)
LEMMA AcquisitionSucceedsIInv == IInv /\ AcquisitionSucceeds => IInv'
<1> SUFFICES ASSUME IInv, AcquisitionSucceeds
             PROVE  IInv'
  OBVIOUS
<1>1. CallTypes'
  BY DEF AcquisitionSucceeds, CallTypes, IInv, TypeOK
<1>2. FinalTypes'
  BY DEF AcquisitionSucceeds, FinalTypes, IInv, TypeOK
<1>3. GeneratorTypes'
  BY DEF AcquisitionSucceeds, GeneratorTypes, IInv, TypeOK, genVars, dataVars
<1>4. Lifecycle'
  BY DEF AcquisitionSucceeds, Lifecycle, IInv, genVars
<1>5. SummaryMatches' /\ FinalizedIsQuiescent'
  BY DEF AcquisitionSucceeds, SummaryMatches, FinalizedIsQuiescent, Lifecycle, IInv
<1>6. QED
  BY <1>1, <1>2, <1>3, <1>4, <1>5, TypeParts DEF IInv

(* subscribeFinalization and its unsubscribe touch the listeners only, and a finalized
   session stores none. *)
LEMMA SubscriptionIInv ==
    ASSUME IInv, NEW l \in Listeners, Subscribe(l) \/ Unsubscribe(l)
    PROVE  IInv'
<1>1. CallTypes' /\ GeneratorTypes'
  BY DEF Subscribe, Unsubscribe, CallTypes, GeneratorTypes, IInv, TypeOK, callVars,
         genVars, dataVars
<1>2. FinalTypes'
  <2>1. /\ finalizationListeners' \subseteq Listeners /\ subscribed' \subseteq Listeners
        /\ heard' \in [Listeners -> Nat]
    BY DEF Subscribe, Unsubscribe, IInv, TypeOK
  <2>2. QED
    BY <2>1 DEF Subscribe, Unsubscribe, FinalTypes, IInv, TypeOK
<1>3. Lifecycle'
  BY DEF Subscribe, Unsubscribe, Lifecycle, IInv, callVars, genVars
<1>4. SummaryMatches' /\ FinalizedIsQuiescent'
  BY DEF Subscribe, Unsubscribe, SummaryMatches, FinalizedIsQuiescent, IInv, callVars,
         genVars
<1>5. QED
  BY <1>1, <1>2, <1>3, <1>4, TypeParts DEF IInv

(* onCallerAbort finalizes a call that is still listening; an unheard abort changes
   only the signal. *)
LEMMA CallerAbortIInv ==
    ASSUME IInv, NEW r \in AbortReasons, CallerAbort(r)
    PROVE  IInv'
<1>1. CASE watching
  <2>1. phase \in {"acquiring", "open"}
    BY <1>1 DEF IInv, Lifecycle, TypeOK
  <2>2. /\ ListenerReading(r) \in Codes
        /\ StateOf(ListenerReading(r)) \in Terminal
    BY CodeNames DEF ListenerReading, StateOf, Terminal
  <2>3. /\ callerSignal' \in AbortReasons \cup {"idle"}
        /\ FinalizeFromOutside(StateOf(ListenerReading(r)), ListenerReading(r))
    BY <1>1 DEF CallerAbort
  <2>4. QED
    BY <2>1, <2>2, <2>3, FinalizeFromOutsideIInv
<1>2. CASE ~watching
  <2>1. UNCHANGED <<request, phase, result, finalVars, genVars, dataVars>>
    BY <1>2 DEF CallerAbort
  <2>2. TypeOK'
    BY <2>1 DEF CallerAbort, IInv, TypeOK, finalVars, genVars, dataVars
  <2>3. Lifecycle'
    BY <2>1 DEF IInv, Lifecycle, finalVars, genVars
  <2>4. SummaryMatches' /\ FinalizedIsQuiescent'
    BY <2>1 DEF IInv, SummaryMatches, FinalizedIsQuiescent, finalVars, genVars
  <2>5. QED
    BY <2>2, <2>3, <2>4 DEF IInv
<1>3. QED
  BY <1>1, <1>2 DEF IInv, TypeOK

(* The two session timers and session.cancel(). *)
LEMMA ExpiryIInv ==
    ASSUME IInv,
           \/ TotalTimerFires
           \/ UnusedTimerFires
           \/ \E r \in CancelReasons : Cancel(r)
    PROVE  IInv'
<1>1. phase \in {"acquiring", "open"}
  BY DEF TotalTimerFires, UnusedTimerFires, Cancel, IInv, Lifecycle, TypeOK
<1>2. callerSignal' \in AbortReasons \cup {"idle"}
  BY DEF TotalTimerFires, UnusedTimerFires, Cancel, IInv, TypeOK
<1>3. \E s \in Terminal, e \in Codes : FinalizeFromOutside(s, e)
  BY CodeNames DEF TotalTimerFires, UnusedTimerFires, Cancel, Terminal
<1>4. QED
  BY <1>1, <1>2, <1>3, FinalizeFromOutsideIInv

(* The generator only runs in a session that was handed out. *)
LEMMA GeneratorNeedsOpen ==
    ASSUME IInv, generator # "unstarted"
    PROVE  phase = "open"
  BY DEF IInv, Lifecycle

(* Starting or resuming the generator. *)
LEMMA ConsumerNextIInv == IInv /\ ConsumerNext => IInv'
<1> SUFFICES ASSUME IInv, ConsumerNext
             PROVE  IInv'
  OBVIOUS
<1>1. phase = "open" /\ UNCHANGED callVars /\ cumulativeBytes' \in Nat
  BY DEF ConsumerNext, IInv, TypeOK
<1>2. CASE /\ generator = "unstarted"
           /\ UNCHANGED <<terminalDoneReceived, capturedUsage, chunkCount>>
           /\ Iterate
  <2>1. /\ terminalDoneReceived' \in BOOLEAN
        /\ capturedUsage' \in BOOLEAN
        /\ chunkCount' \in Nat
    BY <1>2 DEF IInv, TypeOK
  <2>2. QED
    BY <1>1, <1>2, <2>1, GeneratorRunsIInv DEF GeneratorRuns
<1>3. CASE generator = "yielded" /\ Process(events)
  <2>1. events \in Seq(Events)
    BY DEF IInv, TypeOK
  <2>2. QED
    BY <1>1, <1>3, <2>1, ProcessIInv
<1>4. QED
  BY <1>2, <1>3 DEF ConsumerNext

(* An early return of the consumer: the finally block finalizes, or nothing ran yet. *)
LEMMA ConsumerReturnIInv == IInv /\ ConsumerReturn => IInv'
<1> SUFFICES ASSUME IInv, ConsumerReturn
             PROVE  IInv'
  OBVIOUS
<1>1. /\ phase = "open"
      /\ phase' = "open"
      /\ generator' = "returned"
  BY DEF ConsumerReturn, callVars
<1>2. CallTypes' /\ GeneratorTypes'
  BY DEF ConsumerReturn, IInv, TypeOK, CallTypes, GeneratorTypes, callVars
<1>3. CASE FinalizeOnce("cancelled", "none")
  <2>1. FinalTypes' /\ Settled'
    BY <1>1, <1>3, FinalizeOnceLemma DEF ConsumerReturn, IInv, TypeOK, Terminal
  <2>2. QED
    BY <1>1, <1>2, <2>1, SettledIInv
<1>4. CASE UNCHANGED finalVars /\ generator = "unstarted"
  <2>1. FinalTypes'
    BY <1>4 DEF IInv, TypeOK, FinalTypes, finalVars
  <2>2. Lifecycle'
    BY <1>1, <1>4 DEF IInv, Lifecycle, finalVars
  <2>3. SummaryMatches' /\ FinalizedIsQuiescent'
    BY <1>1, <1>4 DEF IInv, SummaryMatches, FinalizedIsQuiescent, finalVars
  <2>4. QED
    BY <1>2, <2>1, <2>2, <2>3, TypeParts DEF IInv
<1>5. QED
  BY <1>3, <1>4 DEF ConsumerReturn

(* A fragment is rejected for its size or processed. *)
LEMMA FragmentArrivesIInv ==
    ASSUME IInv, NEW f \in Fragments, FragmentArrives(f)
    PROVE  IInv'
<1>1. f.bytes \in Nat /\ f.events \in Seq(Events)
  BY FragmentsAssumption
<1>2. /\ phase = "open"
      /\ UNCHANGED callVars
      /\ cumulativeBytes' \in Nat
      /\ generator = "awaiting"
  BY <1>1, GeneratorNeedsOpen DEF FragmentArrives, IInv, TypeOK
<1>3. CASE cumulativeBytes' > MaxResponseBytes
  <2>1. /\ UNCHANGED <<terminalDoneReceived, chunkCount, capturedUsage>>
        /\ GeneratorRuns
    BY <1>3, CodeNames DEF FragmentArrives, GeneratorRuns
  <2>2. QED
    BY <1>2, <2>1, GeneratorRunsIInv DEF IInv, TypeOK
<1>4. CASE ~(cumulativeBytes' > MaxResponseBytes)
  <2>1. Process(f.events)
    BY <1>4 DEF FragmentArrives
  <2>2. QED
    BY <1>1, <1>2, <2>1, ProcessIInv
<1>5. QED
  BY <1>3, <1>4

(* The body ends, the read fails, or the idle timer fires. *)
LEMMA ReadSettlesIInv ==
    ASSUME IInv,
           \/ \E flushed \in {"done", "error", "undeclared", "nothing"} : BodyEnds(flushed)
           \/ UpstreamFails
           \/ IdleTimerFires
    PROVE  IInv'
<1>1. /\ generator = "awaiting"
      /\ UNCHANGED <<callVars, cumulativeBytes, chunkCount, capturedUsage>>
      /\ terminalDoneReceived' \in BOOLEAN
  BY DEF BodyEnds, UpstreamFails, IdleTimerFires, ReadFails, IInv, TypeOK
<1>2. GeneratorRuns
  BY CodeNames, EventCodes DEF BodyEnds, UpstreamFails, IdleTimerFires, ReadFails, GeneratorRuns,
                               CancelReasons
<1>3. phase = "open"
  BY <1>1, GeneratorNeedsOpen
<1>4. QED
  BY <1>1, <1>2, <1>3, GeneratorRunsIInv DEF IInv, TypeOK

(* A stuttering step. *)
LEMMA StutterIInv == IInv /\ UNCHANGED vars => IInv'
<1> SUFFICES ASSUME IInv, UNCHANGED vars
             PROVE  IInv'
  OBVIOUS
<1> USE DEF vars, callVars, finalVars, genVars, dataVars
<1>1. TypeOK'
  BY DEF IInv, TypeOK
<1>2. Lifecycle'
  BY DEF IInv, Lifecycle
<1>3. SummaryMatches' /\ FinalizedIsQuiescent'
  BY DEF IInv, SummaryMatches, FinalizedIsQuiescent
<1>4. QED
  BY <1>1, <1>2, <1>3 DEF IInv

(* The invariant is inductive. *)
LEMMA NextIInv == IInv /\ [Next]_vars => IInv'
<1> SUFFICES ASSUME IInv, [Next]_vars
             PROVE  IInv'
  OBVIOUS
<1>1. CASE Caller
  BY <1>1, RefuseCallIInv, BeginAcquisitionIInv, CallerAbortIInv DEF Caller
<1>2. CASE Transport
  <2>1. \A code \in Codes : StateOf(code) \in Terminal
    BY DEF StateOf, Terminal
  <2>2. CASE TransportRejects
    BY <2>1, <2>2, CodeNames, AcquisitionFailsIInv DEF TransportRejects
  <2>3. CASE UnusableResponse
    BY <2>3, CodeNames, AcquisitionFailsIInv DEF UnusableResponse, Terminal
  <2>4. QED
    BY <1>2, <2>2, <2>3, AcquisitionSucceedsIInv DEF Transport
<1>3. CASE Timers
  BY <1>3, ExpiryIInv, ReadSettlesIInv DEF Timers
<1>4. CASE Upstream
  BY <1>4, FragmentArrivesIInv, ReadSettlesIInv DEF Upstream
<1>5. CASE Consumer
  BY <1>5, ConsumerNextIInv, ConsumerReturnIInv, ExpiryIInv, SubscriptionIInv DEF Consumer
<1>6. CASE UNCHANGED vars
  BY <1>6, StutterIInv
<1>7. QED
  BY <1>1, <1>2, <1>3, <1>4, <1>5, <1>6 DEF Next

(* IInv is an invariant: every reachable state of the session satisfies it. *)
THEOREM Inductive == Spec => []IInv
  BY InitIInv, NextIInv, PTL DEF Spec

(* Type correctness, for every fragment set, byte limit and listener set. *)
THEOREM TypeCorrect == Spec => []TypeOK
<1>1. IInv => TypeOK
  BY DEF IInv
<1>2. QED
  BY <1>1, Inductive, PTL

(* finalizeOnce releases every resource of the session, on every path. *)
THEOREM Quiescence == Spec => []FinalizedIsQuiescent
<1>1. IInv => FinalizedIsQuiescent
  BY DEF IInv
<1>2. QED
  BY <1>1, Inductive, PTL

(* A live credential is always guarded by an armed total timer. *)
THEOREM CredentialSafety == Spec => []CredentialGuarded
<1>1. IInv => CredentialGuarded
  BY DEF IInv, TypeOK, Lifecycle, FinalizedIsQuiescent, CredentialGuarded
<1>2. QED
  BY <1>1, Inductive, PTL

(* No step after finalization touches what finalizeOnce published: every action
   that writes those variables calls finalizeOnce, which then returns at once, or
   is an action of a call that has not been finalized. *)
LEMMA FinalizedStep ==
    ASSUME IInv, isFinalized, [Next]_vars
    PROVE  UNCHANGED <<isFinalized, summary, sessionState, sessionError, abortReason>>
<1>1. \A s, e : FinalizeOnce(s, e) =>
          UNCHANGED <<isFinalized, summary, sessionState, sessionError, abortReason>>
  BY DEF FinalizeOnce, finalVars
<1>2. phase \notin {"idle", "acquiring"} /\ ~watching /\ timers = {}
  BY DEF IInv, Lifecycle, FinalizedIsQuiescent
<1>3. CASE Caller
  BY <1>2, <1>3 DEF Caller, RefuseCall, BeginAcquisition, CallerAbort, finalVars
<1>4. CASE Transport
  BY <1>2, <1>4 DEF Transport, TransportRejects, UnusableResponse, AcquisitionFails,
                    AcquisitionSucceeds
<1>5. CASE Timers
  BY <1>2, <1>5 DEF Timers, TotalTimerFires, UnusedTimerFires, IdleTimerFires
<1>6. CASE Upstream
  BY <1>6 DEF Upstream, FragmentArrives, BodyEnds, UpstreamFails, ReadFails, IInv,
              FinalizedIsQuiescent
<1>7. CASE Consumer
  <2>1. CASE ConsumerNext
    BY <1>1, <2>1 DEF ConsumerNext, Process, Throw, Complete, Iterate
  <2>2. CASE ConsumerReturn
    BY <1>1, <2>2 DEF ConsumerReturn, finalVars
  <2>3. CASE \E r \in CancelReasons : Cancel(r)
    BY <2>3 DEF Cancel, FinalizeFromOutside
  <2>4. CASE \E l \in Listeners : Subscribe(l) \/ Unsubscribe(l)
    BY <2>4 DEF Subscribe, Unsubscribe
  <2>5. QED
    BY <1>7, <2>1, <2>2, <2>3, <2>4 DEF Consumer
<1>8. CASE UNCHANGED vars
  BY <1>8 DEF vars, finalVars
<1>9. QED
  BY <1>3, <1>4, <1>5, <1>6, <1>7, <1>8 DEF Next

(* The published summary is final. *)
THEOREM SummaryFinality == Spec => SummaryIsFinal
<1>1. IInv /\ [Next]_vars =>
        [isFinalized => UNCHANGED <<isFinalized, summary, sessionState, sessionError>>]_vars
  BY FinalizedStep
<1>2. QED
  BY <1>1, Inductive, PTL DEF Spec, SummaryIsFinal

(* After finalization the generator only hands out what it already holds. *)
LEMMA FinalizedReadsNothing ==
    ASSUME IInv, isFinalized, [Next]_vars
    PROVE  /\ cumulativeBytes' = cumulativeBytes
           /\ generator' # "awaiting"
           /\ Len(events') <= Len(events)
<1>1. /\ phase \notin {"idle", "acquiring"} /\ ~watching /\ timers = {}
      /\ generator # "awaiting" /\ abortReason # "none" /\ sessionState \in Terminal
      /\ events \in Seq(Events) /\ Len(events) \in Nat
  BY DEF IInv, TypeOK, Lifecycle, SummaryMatches, FinalizedIsQuiescent
<1>2. ASSUME UNCHANGED <<genVars, dataVars>>
      PROVE  /\ cumulativeBytes' = cumulativeBytes /\ generator' # "awaiting"
             /\ Len(events') <= Len(events)
  BY <1>1, <1>2 DEF genVars, dataVars
<1>3. ASSUME events' = <<>>, generator' # "awaiting", cumulativeBytes' = cumulativeBytes
      PROVE  /\ cumulativeBytes' = cumulativeBytes /\ generator' # "awaiting"
             /\ Len(events') <= Len(events)
  BY <1>1, <1>3
<1>4. Iterate => events' = <<>> /\ generator' # "awaiting"
  BY <1>1 DEF Iterate, Throw
<1>5. CASE Caller
  BY <1>1, <1>2, <1>5 DEF Caller, RefuseCall, BeginAcquisition, CallerAbort
<1>6. CASE Transport
  BY <1>1, <1>6 DEF Transport, TransportRejects, UnusableResponse, AcquisitionFails,
                    AcquisitionSucceeds
<1>7. CASE Timers
  BY <1>1, <1>7 DEF Timers, TotalTimerFires, UnusedTimerFires, IdleTimerFires
<1>8. CASE Upstream
  BY <1>1, <1>8 DEF Upstream, FragmentArrives, BodyEnds, UpstreamFails, ReadFails
<1>9. CASE Consumer
  <2>1. CASE ConsumerNext
    <3>1. cumulativeBytes' = cumulativeBytes
      BY <2>1 DEF ConsumerNext
    <3>2. CASE Iterate
      BY <1>3, <1>4, <3>1, <3>2
    <3>3. CASE Process(events)
      <4>1. CASE Stops(events) # {} /\ events' = SubSeq(events, Stop(events) + 1, Len(events))
                 /\ generator' = "yielded"
        <5>1. Stop(events) \in 1 .. Len(events)
          BY <1>1, <4>1, StopIsFirst
        <5>2. Len(events') <= Len(events)
          BY <1>1, <4>1, <5>1
        <5>3. QED
          BY <3>1, <4>1, <5>2
      <4>2. CASE Throw(EventCode(events[Stop(events)])) \/ Complete \/ Iterate
        BY <1>3, <1>4, <3>1, <4>2 DEF Throw, Complete
      <4>3. QED
        BY <3>3, <4>1, <4>2 DEF Process
    <3>4. QED
      BY <2>1, <3>2, <3>3 DEF ConsumerNext
  <2>2. CASE ConsumerReturn
    BY <1>3, <2>2 DEF ConsumerReturn
  <2>3. CASE \E r \in CancelReasons : Cancel(r)
    BY <1>1, <2>3 DEF Cancel
  <2>4. CASE \E l \in Listeners : Subscribe(l) \/ Unsubscribe(l)
    BY <1>2, <2>4 DEF Subscribe, Unsubscribe
  <2>5. QED
    BY <1>9, <2>1, <2>2, <2>3, <2>4 DEF Consumer
<1>10. CASE UNCHANGED vars
  BY <1>2, <1>10 DEF vars
<1>11. QED
  BY <1>5, <1>6, <1>7, <1>8, <1>9, <1>10 DEF Next

(* The upstream is never read again once the session is finalized, although a paused
   consumer may come back for the rest of its fragment. *)
THEOREM NothingReadAfterwards == Spec => NoReadAfterFinalization
<1>1. IInv /\ [Next]_vars =>
        [isFinalized => /\ cumulativeBytes' = cumulativeBytes
                        /\ generator' # "awaiting"
                        /\ Len(events') <= Len(events)]_vars
  BY FinalizedReadsNothing
<1>2. QED
  BY <1>1, Inductive, PTL DEF Spec, NoReadAfterFinalization

(* What the first call of finalizeOnce publishes. *)
LEMMA FirstFinalization ==
    ASSUME IInv, phase \in {"acquiring", "open"}, ~isFinalized,
           NEW s \in Terminal, NEW e \in Codes \cup {"none"}, FinalizeOnce(s, e)
    PROVE  /\ isFinalized'
           /\ sessionState' = s
           /\ abortReason' = IF e = "none" THEN "unclassified" ELSE e
           /\ summary'.state = s
           /\ summary'.error = Published(e)
           /\ summary'.chunks = chunkCount'
           /\ summary'.bytes = cumulativeBytes'
<1>1. sessionState \in {"pending", "active"} /\ sessionError = "none"
  BY DEF IInv, Lifecycle, SummaryMatches
<1>2. sessionState' = s /\ sessionError' = e /\ isFinalized'
  BY <1>1 DEF FinalizeOnce
<1>3. summary' = BuiltSummary
  BY DEF FinalizeOnce
<1>4. abortReason' = IF e = "none" THEN "unclassified" ELSE e
  BY <1>2 DEF FinalizeOnce
<1>5. QED
  BY <1>2, <1>3, <1>4 DEF BuiltSummary

(* OutcomesAgree is not inductive: a consumer may resume after the session was
   finalized, and the generator then derives its error from the abort reason.  The
   last conjunct ties that reason to the state the summary reports. *)
OutcomeInv ==
    /\ OutcomesAgree
    /\ raised # "none" => generator = "threw"
    /\ isFinalized /\ phase = "open" /\ generator \in {"unstarted", "yielded"} =>
          \/ sessionState = "timed_out" /\ abortReason = "timeout"
          \/ sessionState = "cancelled"

(* Before the call nothing has been reported anywhere. *)
LEMMA InitOutcomeInv == Init => OutcomeInv
  BY DEF Init, OutcomeInv, OutcomesAgree, NoSummary

(* A finalization from outside the generator (timers, abort, cancel) reports the same
   outcome in the summary, to the caller and to the consumer. *)
LEMMA OutsideOutcomeInv ==
    ASSUME IInv, OutcomeInv, phase \in {"acquiring", "open"},
           NEW s, NEW e, FinalizeFromOutside(s, e),
           \/ s = "timed_out" /\ e = "timeout"
           \/ s = "cancelled" /\ e = "cancelled"
           \/ s = "cancelled" /\ e \in CancelReasons /\ phase = "open"
    PROVE  OutcomeInv'
<1>1. ~isFinalized
  BY DEF FinalizeFromOutside
<1>2. s \in Terminal /\ e \in Codes
  BY CodeNames DEF Terminal, CancelReasons
<1>3. /\ isFinalized' /\ sessionState' = s /\ abortReason' = e
      /\ summary'.state = s /\ summary'.error = Published(e)
  BY <1>1, <1>2, CodeNames, FirstFinalization DEF FinalizeFromOutside
<1>4. raised = "none" \/ generator = "threw"
  BY DEF OutcomeInv
<1>5. summary.state = "none"
  BY <1>1 DEF IInv, SummaryMatches
<1>6. raised \notin {"timeout", "cancelled"}
  BY <1>5 DEF OutcomeInv, OutcomesAgree
<1>7. QED
  BY <1>1, <1>3, <1>4, <1>6 DEF FinalizeFromOutside, Unwind, OutcomeInv, OutcomesAgree,
        ListenerReading, Rethrown, Published, IInv, Lifecycle

(* The catch block of the generator reports to the consumer what it put in the summary. *)
LEMMA ThrowOutcomeInv ==
    ASSUME IInv, OutcomeInv, phase = "open", phase' = "open",
           NEW code \in Codes, Throw(code),
           isFinalized => /\ generator \in {"unstarted", "yielded"}
                          /\ \/ code \in {"stream_error", "unsupported_capability"}
                             \/ code = ListenerReading(abortReason)
    PROVE  OutcomeInv'
<1>1. raised' = Rethrown(code) /\ generator' = "threw"
  BY DEF Throw
<1>2. CASE isFinalized
  <2>1. UNCHANGED finalVars
    BY <1>2 DEF Throw, FinalizeOnce
  <2>2. sessionState = summary.state
    BY <1>2 DEF IInv, SummaryMatches
  <2>3. QED
    BY <1>1, <1>2, <2>1, <2>2 DEF OutcomeInv, OutcomesAgree, finalVars, Rethrown,
          ListenerReading
<1>3. CASE ~isFinalized
  <2>1. StateOf(code) \in Terminal /\ Rethrown(code) \in Codes
    BY CodeNames DEF StateOf, Rethrown, Terminal
  <2>2. summary'.state = StateOf(code) /\ summary'.error = Published(Rethrown(code))
    BY <1>3, <2>1, CodeNames, FirstFinalization DEF Throw
  <2>3. QED
    BY <1>1, <2>2 DEF OutcomeInv, OutcomesAgree, StateOf, Rethrown, Published
<1>4. QED
  BY <1>2, <1>3

(* A normal end attaches no error. *)
LEMMA CompleteOutcomeInv ==
    ASSUME IInv, OutcomeInv, phase = "open", phase' = "open",
           generator \in {"awaiting", "yielded"}, Complete
    PROVE  OutcomeInv'
<1>1. raised' = "none" /\ generator' = "returned"
  BY DEF Complete, OutcomeInv
<1>2. CASE isFinalized
  BY <1>1, <1>2 DEF Complete, FinalizeOnce, finalVars, OutcomeInv, OutcomesAgree
<1>3. CASE ~isFinalized
  <2>1. summary'.state = "completed"
    BY <1>3, FirstFinalization DEF Complete, Terminal
  <2>2. QED
    BY <1>1, <2>1 DEF OutcomeInv, OutcomesAgree
<1>4. QED
  BY <1>2, <1>3

(* The head of the loop: the code thrown after an abort is the one the summary holds. *)
LEMMA IterateOutcomeInv ==
    ASSUME IInv, OutcomeInv, phase = "open", phase' = "open",
           generator \in {"unstarted", "awaiting", "yielded"}, Iterate
    PROVE  OutcomeInv'
<1>1. CASE abortReason # "none"
  <2>1. isFinalized /\ generator \in {"unstarted", "yielded"}
    BY <1>1 DEF IInv, SummaryMatches, FinalizedIsQuiescent
  <2>2. ListenerReading(abortReason) \in Codes
    BY CodeNames DEF ListenerReading
  <2>3. QED
    BY <1>1, <2>1, <2>2, ThrowOutcomeInv DEF Iterate
<1>2. CASE abortReason = "none"
  BY <1>2 DEF Iterate, OutcomeInv, OutcomesAgree
<1>3. QED
  BY <1>1, <1>2

(* Handling parser events, whichever way it ends. *)
LEMMA ProcessOutcomeInv ==
    ASSUME IInv, OutcomeInv, phase = "open", phase' = "open",
           generator \in {"awaiting", "yielded"},
           NEW evs, Process(evs)
    PROVE  OutcomeInv'
<1>1. CASE Throw(EventCode(evs[Stop(evs)]))
  <2>1. isFinalized => generator \in {"unstarted", "yielded"}
    BY DEF IInv, FinalizedIsQuiescent
  <2>2. QED
    BY <1>1, <2>1, EventCodes, ThrowOutcomeInv
<1>2. CASE Complete
  BY <1>2, CompleteOutcomeInv
<1>3. CASE Iterate
  BY <1>3, IterateOutcomeInv
<1>4. CASE generator' = "yielded" /\ UNCHANGED <<raised, sessionState, isFinalized, abortReason, summary>>
  <2>1. UNCHANGED <<raised, summary>> /\ raised = "none"
    BY <1>4 DEF OutcomeInv
  <2>2. QED
    BY <1>4, <2>1 DEF OutcomeInv, OutcomesAgree, IInv, FinalizedIsQuiescent
<1>5. QED
  BY <1>1, <1>2, <1>3, <1>4 DEF Process

(* Every step of the session keeps its three reports consistent. *)
LEMMA NextOutcomeInv == IInv /\ OutcomeInv /\ [Next]_vars => OutcomeInv'
<1> SUFFICES ASSUME IInv, OutcomeInv, [Next]_vars
             PROVE  OutcomeInv'
  OBVIOUS
<1>1. CASE RefuseCall
  BY <1>1 DEF RefuseCall, OutcomeInv, OutcomesAgree, IInv, Lifecycle, genVars
<1>2. CASE BeginAcquisition
  BY <1>2 DEF BeginAcquisition, OutcomeInv, OutcomesAgree, IInv, Lifecycle, genVars
<1>3. ASSUME NEW r \in AbortReasons, CallerAbort(r)
      PROVE  OutcomeInv'
  <2>1. CASE watching
    <3>1. phase \in {"acquiring", "open"}
      BY <2>1 DEF IInv, Lifecycle, TypeOK
    <3>2. QED
      BY <1>3, <2>1, <3>1, OutsideOutcomeInv DEF CallerAbort, ListenerReading, StateOf
  <2>2. CASE ~watching
    BY <1>3, <2>2 DEF CallerAbort, OutcomeInv, OutcomesAgree, finalVars, genVars
  <2>3. QED
    BY <2>1, <2>2
<1>4. CASE Transport
  <2>1. ASSUME NEW s \in Terminal, NEW code \in UpstreamCodes, AcquisitionFails(s, code),
               s = "timed_out" => code = "timeout"
        PROVE  OutcomeInv'
    <3>1. ~isFinalized /\ raised = "none"
      BY <2>1 DEF AcquisitionFails, IInv, Lifecycle, OutcomeInv
    <3>2. summary'.state = s /\ summary'.error = Published(code)
      BY <2>1, <3>1, CodeNames, FirstFinalization DEF AcquisitionFails
    <3>3. Published(code) = code
      BY DEF Published, UpstreamCodes
    <3>4. QED
      BY <2>1, <3>1, <3>2, <3>3 DEF AcquisitionFails, OutcomeInv, OutcomesAgree, genVars
  <2>2. CASE TransportRejects
    BY <2>1, <2>2 DEF TransportRejects, StateOf, Terminal, UpstreamCodes
  <2>3. CASE UnusableResponse
    BY <2>1, <2>3 DEF UnusableResponse, Terminal
  <2>4. CASE AcquisitionSucceeds
    BY <2>4 DEF AcquisitionSucceeds, OutcomeInv, OutcomesAgree, IInv, Lifecycle, genVars
  <2>5. QED
    BY <1>4, <2>2, <2>3, <2>4 DEF Transport
<1>5. CASE TotalTimerFires \/ UnusedTimerFires \/ \E r \in CancelReasons : Cancel(r)
  <2>1. phase \in {"acquiring", "open"}
    BY <1>5 DEF TotalTimerFires, UnusedTimerFires, Cancel, IInv, Lifecycle, TypeOK
  <2>2. QED
    BY <1>5, <2>1, OutsideOutcomeInv DEF TotalTimerFires, UnusedTimerFires, Cancel,
          CancelReasons
<1>6. ASSUME NEW code \in Codes, generator = "awaiting", Throw(code), UNCHANGED callVars
      PROVE  OutcomeInv'
  <2>1. phase = "open" /\ phase' = "open" /\ ~isFinalized
    BY <1>6, GeneratorNeedsOpen DEF IInv, FinalizedIsQuiescent, callVars
  <2>2. QED
    BY <1>6, <2>1, ThrowOutcomeInv
<1>7. CASE IdleTimerFires \/ UpstreamFails
  BY <1>6, <1>7, CodeNames DEF IdleTimerFires, UpstreamFails, ReadFails, CancelReasons
<1>8. ASSUME NEW flushed \in {"done", "error", "undeclared", "nothing"}, BodyEnds(flushed)
      PROVE  OutcomeInv'
  <2>1. phase = "open" /\ phase' = "open" /\ generator = "awaiting"
    BY <1>8, GeneratorNeedsOpen DEF BodyEnds, callVars
  <2>2. QED
    BY <1>6, <1>8, <2>1, EventCodes, CompleteOutcomeInv DEF BodyEnds
<1>9. ASSUME NEW f \in Fragments, FragmentArrives(f)
      PROVE  OutcomeInv'
  <2>1. phase = "open" /\ phase' = "open" /\ generator = "awaiting"
    BY <1>9, GeneratorNeedsOpen DEF FragmentArrives, callVars
  <2>2. QED
    BY <1>6, <1>9, <2>1, CodeNames, ProcessOutcomeInv DEF FragmentArrives
<1>10. CASE ConsumerNext
  BY <1>10, IterateOutcomeInv, ProcessOutcomeInv DEF ConsumerNext, callVars
<1>11. CASE ConsumerReturn
  <2>1. raised = "none" /\ raised' = "none" /\ phase = "open" /\ phase' = "open"
    BY <1>11 DEF ConsumerReturn, OutcomeInv, callVars
  <2>2. UNCHANGED finalVars \/ summary'.state = "cancelled"
    BY <1>11, <2>1, FirstFinalization DEF ConsumerReturn, FinalizeOnce, Terminal
  <2>3. QED
    BY <1>11, <2>1, <2>2 DEF ConsumerReturn, OutcomeInv, OutcomesAgree, finalVars
<1>12. CASE \E l \in Listeners : Subscribe(l) \/ Unsubscribe(l)
  BY <1>12 DEF Subscribe, Unsubscribe, OutcomeInv, OutcomesAgree, callVars, genVars
<1>13. CASE UNCHANGED vars
  BY <1>13 DEF vars, callVars, finalVars, genVars, OutcomeInv, OutcomesAgree
<1>14. QED
  BY <1>1, <1>2, <1>3, <1>4, <1>5, <1>7, <1>8, <1>9, <1>10, <1>11, <1>12, <1>13
     DEF Next, Caller, Timers, Upstream, Consumer

(* The summary, the call's result and the error the consumer catches agree. *)
THEOREM OutcomeAgreement == Spec => []OutcomesAgree
<1>1. OutcomeInv => OutcomesAgree
  BY DEF OutcomeInv
<1>2. QED
  BY <1>1, Inductive, InitOutcomeInv, NextOutcomeInv, PTL DEF Spec

(* CompletedIsWhole needs to know that a generator that may still complete has
   stayed within the byte limit. *)
CompletedInv ==
    /\ CompletedIsWhole
    /\ generator \in {"unstarted", "awaiting", "yielded"} =>
           cumulativeBytes <= MaxResponseBytes

(* No call starts completed. *)
LEMMA InitCompletedInv == Init => CompletedInv
  BY MaxResponseBytesAssumption DEF Init, CompletedInv, CompletedIsWhole, NoSummary

(* A finalization in any other state, or a repeated one, completes nothing. *)
LEMMA NotCompleted ==
    ASSUME IInv, phase \in {"acquiring", "open"},
           NEW s \in Terminal, NEW e \in Codes \cup {"none"}, FinalizeOnce(s, e),
           s # "completed" \/ isFinalized
    PROVE  summary'.state = "completed" => isFinalized /\ UNCHANGED summary
<1>1. CASE isFinalized
  BY <1>1 DEF FinalizeOnce, finalVars
<1>2. CASE ~isFinalized
  BY <1>2, FirstFinalization
<1>3. QED
  BY <1>1, <1>2

(* A generator that throws does not complete the session. *)
LEMMA ThrowCompletedInv ==
    ASSUME IInv, CompletedInv, phase = "open", NEW code \in Codes, Throw(code),
           generator \in {"unstarted", "awaiting", "yielded"}
    PROVE  CompletedInv'
<1>1. StateOf(code) \in Terminal \ {"completed"} /\ Rethrown(code) \in Codes
  BY CodeNames DEF StateOf, Rethrown, Terminal
<1>2. summary'.state = "completed" => UNCHANGED summary
  BY <1>1, NotCompleted DEF Throw
<1>3. summary'.state # "completed"
  BY <1>2 DEF CompletedInv, CompletedIsWhole
<1>4. QED
  BY <1>3 DEF Throw, CompletedInv, CompletedIsWhole

(* Completing requires the terminal [DONE] within the byte limit and an empty buffer. *)
LEMMA CompleteCompletedInv ==
    ASSUME IInv, CompletedInv, phase = "open", Complete,
           generator \in {"awaiting", "yielded"},
           terminalDoneReceived', cumulativeBytes' <= MaxResponseBytes
    PROVE  CompletedInv'
<1>1. CASE isFinalized
  <2>1. summary'.state # "completed"
    BY <1>1 DEF Complete, FinalizeOnce, finalVars, CompletedInv, CompletedIsWhole
  <2>2. QED
    BY <2>1 DEF Complete, CompletedInv, CompletedIsWhole
<1>2. CASE ~isFinalized
  <2>1. /\ summary'.error = Published("none")
        /\ summary'.chunks = chunkCount'
        /\ summary'.bytes = cumulativeBytes'
    BY <1>2, FirstFinalization DEF Complete, Terminal
  <2>2. QED
    BY <2>1 DEF Complete, CompletedInv, CompletedIsWhole, Published
<1>3. QED
  BY <1>1, <1>2

(* Going on to the next read does not complete the session. *)
LEMMA IterateCompletedInv ==
    ASSUME IInv, CompletedInv, phase = "open", Iterate,
           generator \in {"unstarted", "awaiting", "yielded"},
           cumulativeBytes' <= MaxResponseBytes
    PROVE  CompletedInv'
<1>1. CASE abortReason # "none"
  BY <1>1, CodeNames, ThrowCompletedInv DEF Iterate, ListenerReading
<1>2. CASE abortReason = "none"
  BY <1>2 DEF Iterate, CompletedInv, CompletedIsWhole
<1>3. QED
  BY <1>1, <1>2

(* Handling parser events completes the session only after [DONE], with none left. *)
LEMMA ProcessCompletedInv ==
    ASSUME IInv, CompletedInv, phase = "open", generator \in {"awaiting", "yielded"},
           NEW evs, Process(evs), cumulativeBytes' <= MaxResponseBytes
    PROVE  CompletedInv'
<1>1. CASE Throw(EventCode(evs[Stop(evs)]))
  BY <1>1, EventCodes, ThrowCompletedInv
<1>2. CASE terminalDoneReceived' /\ Complete
  BY <1>2, CompleteCompletedInv
<1>3. CASE Iterate
  BY <1>3, IterateCompletedInv
<1>4. CASE generator' = "yielded" /\ UNCHANGED summary
  BY <1>4 DEF CompletedInv, CompletedIsWhole
<1>5. QED
  BY <1>1, <1>2, <1>3, <1>4 DEF Process

(* A step that leaves the consumer's side alone and completes nothing. *)
LEMMA AsideCompletedInv ==
    ASSUME CompletedInv,
           events' = events, terminalDoneReceived' = terminalDoneReceived,
           cumulativeBytes' = cumulativeBytes, chunkCount' = chunkCount,
           \/ generator' = generator
           \/ generator' = "threw" /\ generator = "awaiting",
           summary'.state = "completed" => summary' = summary
    PROVE  CompletedInv'
  BY DEF CompletedInv, CompletedIsWhole

(* Every step keeps a completed summary whole and an open one within the limit. *)
LEMMA NextCompletedInv == IInv /\ CompletedInv /\ [Next]_vars => CompletedInv'
<1> SUFFICES ASSUME IInv, CompletedInv, [Next]_vars
             PROVE  CompletedInv'
  OBVIOUS
<1>1. CASE RefuseCall \/ BeginAcquisition \/ AcquisitionSucceeds
  BY <1>1, AsideCompletedInv DEF RefuseCall, BeginAcquisition, AcquisitionSucceeds,
        genVars, dataVars
<1>2. ASSUME NEW s \in Terminal \ {"completed"}, NEW e \in Codes,
             FinalizeFromOutside(s, e), phase \in {"acquiring", "open"}
      PROVE  CompletedInv'
  <2>1. summary'.state = "completed" => UNCHANGED summary
    BY <1>2, NotCompleted DEF FinalizeFromOutside
  <2>2. QED
    BY <1>2, <2>1, AsideCompletedInv DEF FinalizeFromOutside, Unwind, dataVars
<1>3. ASSUME NEW r \in AbortReasons, CallerAbort(r)
      PROVE  CompletedInv'
  <2>1. CASE watching
    <3>1. phase \in {"acquiring", "open"}
      BY <2>1 DEF IInv, Lifecycle, TypeOK
    <3>2. /\ ListenerReading(r) \in Codes
          /\ StateOf(ListenerReading(r)) \in Terminal \ {"completed"}
      BY CodeNames DEF ListenerReading, StateOf, Terminal
    <3>3. QED
      BY <1>2, <1>3, <2>1, <3>1, <3>2 DEF CallerAbort
  <2>2. CASE ~watching
    BY <1>3, <2>2, AsideCompletedInv DEF CallerAbort, finalVars, genVars, dataVars
  <2>3. QED
    BY <2>1, <2>2
<1>4. ASSUME NEW s \in Terminal \ {"completed"}, NEW code \in Codes,
             AcquisitionFails(s, code)
      PROVE  CompletedInv'
  <2>1. summary'.state = "completed" => UNCHANGED summary
    BY <1>4, NotCompleted DEF AcquisitionFails
  <2>2. QED
    BY <1>4, <2>1, AsideCompletedInv DEF AcquisitionFails, genVars, dataVars
<1>5. CASE TransportRejects \/ UnusableResponse
  BY <1>4, <1>5, CodeNames DEF TransportRejects, UnusableResponse, StateOf, Terminal
<1>6. CASE TotalTimerFires \/ UnusedTimerFires \/ \E r \in CancelReasons : Cancel(r)
  <2>1. phase \in {"acquiring", "open"}
    BY <1>6 DEF TotalTimerFires, UnusedTimerFires, Cancel, IInv, Lifecycle, TypeOK
  <2>2. QED
    BY <1>2, <1>6, <2>1, CodeNames DEF TotalTimerFires, UnusedTimerFires, Cancel, Terminal
<1>7. CASE IdleTimerFires \/ UpstreamFails
  BY <1>7, CodeNames, GeneratorNeedsOpen, ThrowCompletedInv
     DEF IdleTimerFires, UpstreamFails, ReadFails, CancelReasons
<1>8. ASSUME NEW flushed \in {"done", "error", "undeclared", "nothing"}, BodyEnds(flushed)
      PROVE  CompletedInv'
  <2>1. phase = "open" /\ generator = "awaiting"
    BY <1>8, GeneratorNeedsOpen DEF BodyEnds
  <2>2. CASE flushed = "done"
    <3>1. /\ Complete
          /\ terminalDoneReceived'
          /\ cumulativeBytes' <= MaxResponseBytes
      BY <1>8, <2>1, <2>2 DEF BodyEnds, CompletedInv
    <3>2. QED
      BY <2>1, <3>1, CompleteCompletedInv
  <2>3. CASE flushed # "done"
    BY <1>8, <2>1, <2>3, CodeNames, EventCodes, ThrowCompletedInv DEF BodyEnds
  <2>4. QED
    BY <2>2, <2>3
<1>9. ASSUME NEW f \in Fragments, FragmentArrives(f)
      PROVE  CompletedInv'
  <2>1. /\ phase = "open"
        /\ generator = "awaiting"
        /\ f.bytes \in Nat
    BY <1>9, GeneratorNeedsOpen, FragmentsAssumption DEF FragmentArrives
  <2>2. CASE cumulativeBytes' > MaxResponseBytes
    BY <1>9, <2>1, <2>2, CodeNames, ThrowCompletedInv DEF FragmentArrives
  <2>3. CASE ~(cumulativeBytes' > MaxResponseBytes)
    <3>1. Process(f.events)
      BY <1>9, <2>3 DEF FragmentArrives
    <3>2. cumulativeBytes' <= MaxResponseBytes
      BY <1>9, <2>1, <2>3, MaxResponseBytesAssumption DEF FragmentArrives, IInv, TypeOK
    <3>3. QED
      BY <2>1, <3>1, <3>2, ProcessCompletedInv
  <2>4. QED
    BY <2>2, <2>3
<1>10. CASE ConsumerNext
  <2>1. phase = "open" /\ cumulativeBytes' = cumulativeBytes
    BY <1>10 DEF ConsumerNext
  <2>2. QED
    BY <1>10, <2>1, IterateCompletedInv, ProcessCompletedInv DEF ConsumerNext, CompletedInv
<1>11. CASE ConsumerReturn
  <2>1. summary'.state = "completed" => UNCHANGED summary
    BY <1>11, NotCompleted DEF ConsumerReturn, finalVars, Terminal
  <2>2. summary'.state # "completed"
    BY <1>11, <2>1 DEF ConsumerReturn, CompletedInv, CompletedIsWhole
  <2>3. QED
    BY <1>11, <2>2 DEF ConsumerReturn, CompletedInv, CompletedIsWhole
<1>12. CASE \E l \in Listeners : Subscribe(l) \/ Unsubscribe(l)
  BY <1>12, AsideCompletedInv DEF Subscribe, Unsubscribe, genVars, dataVars
<1>13. CASE UNCHANGED vars
  BY <1>13, AsideCompletedInv DEF vars, finalVars, genVars, dataVars
<1>14. QED
  BY <1>1, <1>3, <1>5, <1>6, <1>7, <1>8, <1>9, <1>10, <1>11, <1>12, <1>13
     DEF Next, Caller, Transport, Timers, Upstream, Consumer

(* A session that reports completed delivered the whole answer. *)
THEOREM CompletionIsWhole == Spec => []CompletedIsWhole
<1>1. CompletedInv => CompletedIsWhole
  BY DEF CompletedInv
<1>2. QED
  BY <1>1, Inductive, InitCompletedInv, NextCompletedInv, PTL DEF Spec

(* The first finalization is the abstract Settle step. *)
LEMMA FinalizeSettles ==
    ASSUME IInv, IInv', phase \in {"acquiring", "open"}, phase' \in {phase, "refused"},
           NEW s \in Terminal, NEW e \in Codes \cup {"none"}, FinalizeOnce(s, e)
    PROVE  [Call!Next]_Call!vars
<1>1. CASE isFinalized
  <2>1. phase = "open" /\ isFinalized' /\ credential' = credential /\ sessionState' = sessionState
    BY <1>1 DEF FinalizeOnce, finalVars, IInv, Lifecycle
  <2>2. QED
    BY <1>1, <2>1 DEF Call!vars
<1>2. CASE ~isFinalized
  <2>1. isFinalized' /\ sessionState' = s
    BY <1>2, FirstFinalization
  <2>2. credential' = IF credential = "live" THEN "destroyed" ELSE credential
    BY <1>2 DEF FinalizeOnce
  <2>3. Call!Settle(s)
    BY <1>2, <2>1, <2>2 DEF Call!Settle
  <2>4. QED
    BY <2>3 DEF Call!Next, Call!SettleSomehow
<1>3. QED
  BY <1>1, <1>2

(* A step that touches none of the three abstract variables stutters. *)
LEMMA AsideStutters ==
    ASSUME sessionState' = sessionState, isFinalized' = isFinalized,
           credential' = credential,
           \/ phase' = phase
           \/ phase = "acquiring" /\ phase' = "open" /\ ~isFinalized
    PROVE  UNCHANGED Call!vars
  BY DEF Call!vars

(* Every step of the session is a step of GovernedCall or leaves its state alone. *)
LEMMA NextRefines == IInv /\ IInv' /\ [Next]_vars => [Call!Next]_Call!vars
<1> SUFFICES ASSUME IInv, IInv', [Next]_vars
             PROVE  [Call!Next]_Call!vars
  OBVIOUS
<1>1. CASE RefuseCall
  <2>1. ~isFinalized /\ ~isFinalized' /\ credential' \in {"none", "destroyed"}
    BY <1>1 DEF RefuseCall, IInv, Lifecycle
  <2>2. Call!Refuse
    BY <1>1, <2>1 DEF RefuseCall, Call!Refuse
  <2>3. QED
    BY <2>2 DEF Call!Next
<1>2. CASE BeginAcquisition
  <2>1. ~isFinalized /\ ~isFinalized' /\ credential' \in {"none", "live"}
    BY <1>2 DEF BeginAcquisition, IInv, Lifecycle
  <2>2. Call!Begin
    BY <1>2, <2>1 DEF BeginAcquisition, Call!Begin
  <2>3. QED
    BY <2>2 DEF Call!Next
<1>3. ASSUME NEW s \in Terminal, NEW e \in Codes, FinalizeFromOutside(s, e),
             phase \in {"acquiring", "open"}
      PROVE  [Call!Next]_Call!vars
  BY <1>3, FinalizeSettles DEF FinalizeFromOutside, Unwind
<1>4. ASSUME NEW r \in AbortReasons, CallerAbort(r)
      PROVE  [Call!Next]_Call!vars
  <2>1. CASE watching
    <3>1. phase \in {"acquiring", "open"}
      BY <2>1 DEF IInv, Lifecycle, TypeOK
    <3>2. ListenerReading(r) \in Codes /\ StateOf(ListenerReading(r)) \in Terminal
      BY CodeNames DEF ListenerReading, StateOf, Terminal
    <3>3. QED
      BY <1>3, <1>4, <2>1, <3>1, <3>2 DEF CallerAbort
  <2>2. CASE ~watching
    BY <1>4, <2>2, AsideStutters DEF CallerAbort, finalVars
  <2>3. QED
    BY <2>1, <2>2
<1>5. CASE TransportRejects \/ UnusableResponse
  <2>1. \E s \in Terminal, code \in Codes : AcquisitionFails(s, code)
    BY <1>5, CodeNames DEF TransportRejects, UnusableResponse, StateOf, Terminal
  <2>2. QED
    BY <2>1, FinalizeSettles DEF AcquisitionFails
<1>6. CASE AcquisitionSucceeds
  <2>1. /\ ~isFinalized /\ ~isFinalized' /\ credential' = credential
        /\ phase = "acquiring" /\ phase' = "open"
    BY <1>6 DEF AcquisitionSucceeds, IInv, Lifecycle
  <2>2. QED
    BY <2>1 DEF Call!vars
<1>7. CASE TotalTimerFires \/ UnusedTimerFires \/ \E r \in CancelReasons : Cancel(r)
  <2>1. phase \in {"acquiring", "open"}
    BY <1>7 DEF TotalTimerFires, UnusedTimerFires, Cancel, IInv, Lifecycle, TypeOK
  <2>2. QED
    BY <1>3, <1>7, <2>1, CodeNames DEF TotalTimerFires, UnusedTimerFires, Cancel, Terminal
<1>8. ASSUME GeneratorRuns, phase = "open", phase' = "open"
      PROVE  [Call!Next]_Call!vars
  <2>1. \A code \in Codes : StateOf(code) \in Terminal /\ Rethrown(code) \in Codes
    BY CodeNames DEF StateOf, Rethrown, Terminal
  <2>2. CASE \E code \in Codes : Throw(code)
    BY <1>8, <2>1, <2>2, FinalizeSettles DEF Throw
  <2>3. CASE Complete
    BY <1>8, <2>3, FinalizeSettles DEF Complete, Terminal
  <2>4. CASE Iterate /\ abortReason = "none"
    BY <1>8, <2>4, AsideStutters DEF Iterate
  <2>5. CASE Iterate /\ abortReason # "none"
    BY <2>2, <2>5, CodeNames DEF Iterate, ListenerReading
  <2>6. QED
    BY <1>8, <2>2, <2>3, <2>4, <2>5 DEF GeneratorRuns
<1>9. ASSUME NEW evs, Process(evs), phase = "open", phase' = "open"
      PROVE  [Call!Next]_Call!vars
  <2>1. CASE GeneratorRuns
    BY <1>8, <1>9, <2>1
  <2>2. CASE UNCHANGED <<sessionState, isFinalized, credential>>
    BY <1>9, <2>2, AsideStutters
  <2>3. QED
    BY <1>9, <2>1, <2>2, CodeNames, EventCodes DEF Process, GeneratorRuns
<1>10. CASE Upstream \/ IdleTimerFires
  <2>1. phase = "open" /\ phase' = "open"
    BY <1>10, GeneratorNeedsOpen
       DEF Upstream, IdleTimerFires, FragmentArrives, BodyEnds, UpstreamFails, ReadFails,
           callVars
  <2>2. GeneratorRuns \/ \E evs : Process(evs)
    BY <1>10, CodeNames, EventCodes
       DEF Upstream, IdleTimerFires, FragmentArrives, BodyEnds, UpstreamFails, ReadFails,
           GeneratorRuns, CancelReasons
  <2>3. QED
    BY <1>8, <1>9, <2>1, <2>2
<1>11. CASE ConsumerNext
  <2>1. phase = "open" /\ phase' = "open"
    BY <1>11 DEF ConsumerNext, callVars
  <2>2. QED
    BY <1>8, <1>9, <1>11, <2>1 DEF ConsumerNext, GeneratorRuns
<1>12. CASE ConsumerReturn
  <2>1. phase = "open" /\ phase' = phase
    BY <1>12 DEF ConsumerReturn, callVars
  <2>2. CASE UNCHANGED finalVars
    BY <2>1, <2>2, AsideStutters DEF finalVars
  <2>3. CASE FinalizeOnce("cancelled", "none")
    BY <2>1, <2>3, FinalizeSettles DEF Terminal
  <2>4. QED
    BY <1>12, <2>2, <2>3 DEF ConsumerReturn
<1>13. CASE \E l \in Listeners : Subscribe(l) \/ Unsubscribe(l)
  BY <1>13, AsideStutters DEF Subscribe, Unsubscribe, callVars
<1>14. CASE UNCHANGED vars
  BY <1>14, AsideStutters DEF vars, callVars, finalVars
<1>15. QED
  BY <1>1, <1>2, <1>4, <1>5, <1>6, <1>7, <1>10, <1>11, <1>12, <1>13, <1>14
     DEF Next, Caller, Transport, Timers, Consumer

(* The session implements the safety part of GovernedCall: it settles at most once
   and destroys its credential in the step that settles it. *)
THEOREM Refinement == Spec => Call!Spec
<1>1. Init => Call!Init
  BY DEF Init, Call!Init
<1>2. QED
  BY <1>1, Inductive, NextRefines, PTL DEF Spec, Call!Spec

(* A finalization calls everyone subscribed at that moment and forgets them. *)
Called ==
    /\ ~isFinalized /\ isFinalized'
    /\ finalizationListeners' = {}
    /\ UNCHANGED subscribed
    /\ heard' = [l \in Listeners |->
                    IF l \in finalizationListeners THEN heard[l] + 1 ELSE heard[l]]

(* No call is made, and who asked for one and who waits for it stay the same or lose
   the same listener. *)
NotCalled ==
    /\ UNCHANGED <<heard, isFinalized>>
    /\ \E gone \in SUBSET Listeners :
          /\ subscribed' = subscribed \ gone
          /\ finalizationListeners' = finalizationListeners \ gone

(* What a step can do to the listeners: call them all, none, or take a subscriber. *)
LEMMA ListenerStep ==
    ASSUME [Next]_vars
    PROVE  Called \/ NotCalled \/ \E l \in Listeners : Subscribe(l)
<1>1. UNCHANGED <<heard, isFinalized, subscribed, finalizationListeners>> => NotCalled
  <2>1. \A S : S = S \ {}
    OBVIOUS
  <2>2. QED
    BY <2>1, Zenon DEF NotCalled
<1>2. \A s, e : FinalizeOnce(s, e) => Called \/ NotCalled
  BY <1>1 DEF FinalizeOnce, finalVars, Called
<1>3. CASE Caller
  BY <1>1, <1>2, <1>3 DEF Caller, RefuseCall, BeginAcquisition, CallerAbort,
     FinalizeFromOutside, finalVars
<1>4. CASE Transport
  BY <1>1, <1>2, <1>4 DEF Transport, TransportRejects, UnusableResponse, AcquisitionFails,
     AcquisitionSucceeds
<1>5. CASE Timers
  BY <1>2, <1>5 DEF Timers, TotalTimerFires, UnusedTimerFires, IdleTimerFires, ReadFails,
     Throw, FinalizeFromOutside
<1>6. ASSUME Iterate
      PROVE  Called \/ NotCalled
  BY <1>1, <1>2, <1>6 DEF Iterate, Throw
<1>7. ASSUME NEW evs, Process(evs)
      PROVE  Called \/ NotCalled
  BY <1>1, <1>2, <1>6, <1>7 DEF Process, Throw, Complete
<1>8. CASE Upstream
  BY <1>2, <1>7, <1>8 DEF Upstream, FragmentArrives, BodyEnds, UpstreamFails, ReadFails,
     Throw, Complete
<1>9. ASSUME NEW l \in Listeners, Unsubscribe(l)
      PROVE  NotCalled
  <2>1. {l} \in SUBSET Listeners
    OBVIOUS
  <2>2. QED
    BY <1>9, <2>1 DEF Unsubscribe, NotCalled
<1>10. CASE Consumer
  BY <1>1, <1>2, <1>6, <1>7, <1>9, <1>10 DEF Consumer, ConsumerNext, ConsumerReturn, Cancel,
     FinalizeFromOutside, finalVars
<1>11. CASE UNCHANGED vars
  BY <1>1, <1>11 DEF vars, finalVars
<1>12. QED
  BY <1>3, <1>4, <1>5, <1>8, <1>10, <1>11 DEF Next

(* Those who asked wait for their call, or had it: after the finalization, and once. *)
HeardInv ==
    /\ ~isFinalized => finalizationListeners = subscribed
    /\ \A l \in Listeners :
          /\ heard[l] <= 1
          /\ heard[l] = 1 => isFinalized
          /\ isFinalized /\ l \in subscribed => heard[l] = 1

(* What a step may do to a listener. *)
HeardAct(l) ==
    /\ heard'[l] <= 1
    /\ l \in subscribed' /\ isFinalized' => heard'[l] = 1
    /\ heard'[l] # heard[l] => isFinalized' /\ l \in subscribed'

(* One call to each listener that asked for it is what every step keeps to. *)
LEMMA HeardStep ==
    ASSUME IInv, HeardInv, [Next]_vars
    PROVE  HeardInv' /\ \A l \in Listeners : HeardAct(l)
<1> USE DEF HeardAct
<1>1. heard \in [Listeners -> Nat] /\ subscribed \subseteq Listeners
  BY DEF IInv, TypeOK
<1>2. \A l \in Listeners : heard[l] \in Nat
  BY <1>1
<1>3. CASE Called
  <2>1. /\ ~isFinalized /\ isFinalized' /\ subscribed' = subscribed
        /\ finalizationListeners = subscribed
    BY <1>3 DEF Called, HeardInv
  <2>2. \A l \in Listeners : heard'[l] = IF l \in subscribed THEN heard[l] + 1 ELSE heard[l]
    BY <1>3, <2>1 DEF Called
  <2>3. \A l \in Listeners : heard[l] = 0
    BY <1>2, <2>1 DEF HeardInv
  <2>4. \A l \in Listeners : heard'[l] = IF l \in subscribed THEN 1 ELSE 0
    BY <2>2, <2>3
  <2>5. QED
    BY <2>1, <2>3, <2>4 DEF HeardInv
<1>4. CASE NotCalled
  <2>1. /\ heard' = heard /\ isFinalized' = isFinalized /\ subscribed' \subseteq subscribed
        /\ finalizationListeners = subscribed => finalizationListeners' = subscribed'
    BY <1>4 DEF NotCalled
  <2>2. QED
    BY <2>1 DEF HeardInv
<1>5. ASSUME NEW m \in Listeners, Subscribe(m)
      PROVE  HeardInv' /\ \A l \in Listeners : HeardAct(l)
  <2>1. heard[m] = 0 /\ isFinalized' = isFinalized /\ subscribed' = subscribed \cup {m}
    BY <1>5 DEF Subscribe
  <2>2. CASE isFinalized
    <3>1. \A l \in Listeners : heard'[l] = IF l = m THEN 1 ELSE heard[l]
      BY <1>1, <1>5, <2>1, <2>2 DEF Subscribe
    <3>2. QED
      BY <2>1, <2>2, <3>1 DEF HeardInv
  <2>3. CASE ~isFinalized
    <3>1. heard' = heard /\ finalizationListeners' = finalizationListeners \cup {m}
      BY <1>5, <2>3 DEF Subscribe
    <3>2. QED
      BY <2>1, <2>3, <3>1 DEF HeardInv
  <2>4. QED
    BY <2>2, <2>3
<1>6. QED
  BY <1>3, <1>4, <1>5, ListenerStep

(* subscribeFinalization keeps its contract with every set of listeners: whoever has asked
   when finalizeOnce runs is called in that step, whoever asks later is called at once,
   nobody is called twice, and nobody who never asked or who left in time. *)
THEOREM HeardExactlyOnce == Spec => ListenersHeardOnce
<1>1. Init => HeardInv
  BY DEF Init, HeardInv
<1>2. IInv /\ HeardInv /\ [Next]_vars => HeardInv'
  BY HeardStep
<1>3. IInv /\ HeardInv /\ [Next]_vars =>
        [\A l \in Listeners :
            /\ heard'[l] <= 1
            /\ l \in subscribed' /\ isFinalized' => heard'[l] = 1
            /\ heard'[l] # heard[l] => isFinalized' /\ l \in subscribed']_vars
  BY HeardStep DEF HeardAct
<1>4. QED
  BY <1>1, <1>2, <1>3, Inductive, PTL DEF Spec, ListenersHeardOnce

-----------------------------------------------------------------------------
(* The request handler and its session.                                     *)

(* A step of the composition is a step of the session, or a stutter of it: the
   handler and its callbacks (app.js) reach the session only through the call, the
   signal, next, return and subscribeFinalization. *)
LEMMA RequestStepIsSessionStep == [RequestNext]_allVars => [Next]_vars
<1> SUFFICES ASSUME [RequestNext]_allVars
             PROVE  Next \/ UNCHANGED vars
  BY DEF vars
<1>1. CASE StartRefused
  BY <1>1 DEF StartRefused, Next, Caller
<1>2. CASE StartAcquiring
  BY <1>2 DEF StartAcquiring, Next, Caller
<1>3. CASE Resume
  BY <1>3 DEF Resume, Next, Consumer
<1>4. CASE WriteChunk
  BY <1>4 DEF WriteChunk
<1>5. CASE WriteChunkBackpressured
  BY <1>5, DrainListenerAssumption DEF WriteChunkBackpressured, Next, Consumer
<1>6. CASE LoopThrows
  BY <1>6 DEF LoopThrows
<1>7. CASE BodyThrows
  BY <1>7 DEF BodyThrows, Next, Consumer
<1>8. CASE LoopEnds
  BY <1>8 DEF LoopEnds
<1>9. CASE WriteHead
  BY <1>9 DEF WriteHead, Next, Transport
<1>10. CASE Drained
  BY <1>10, DrainListenerAssumption DEF Drained, Next, Consumer
<1>11. CASE ClientCloses
  <2>1. \/ CallerAbort("cancelled")
        \/ Unsubscribe(DrainListener)
        \/ UNCHANGED vars
    BY <1>11 DEF ClientCloses
  <2>2. "cancelled" \in AbortReasons
    BY DEF AbortReasons
  <2>3. QED
    BY <2>1, <2>2, DrainListenerAssumption DEF Next, Caller, Consumer
<1>12. CASE AppTimerFires
  <2>1. CallerAbort("wrapped_timeout")
    BY <1>12 DEF AppTimerFires
  <2>2. "wrapped_timeout" \in AbortReasons
    BY DEF AbortReasons
  <2>3. QED
    BY <2>1, <2>2 DEF Next, Caller
<1>13. CASE SessionTimerFires
  BY <1>13 DEF SessionTimerFires, Next, Timers
<1>14. CASE AcquisitionRefused
  BY <1>14 DEF AcquisitionRefused, Next, Transport
<1>15. CASE UpstreamDelivers
  BY <1>15 DEF UpstreamDelivers, Next
<1>16. CASE UNCHANGED allVars
  BY <1>16 DEF allVars
<1>17. QED
  BY <1>1, <1>2, <1>3, <1>4, <1>5, <1>6, <1>7, <1>8, <1>9, <1>10, <1>11, <1>12,
     <1>13, <1>14, <1>15, <1>16 DEF RequestNext, HandlerRuns

(* The gateway drives its sessions within their specification. *)
THEOREM RequestImplementsSession == RequestSpec => Spec
<1>1. RequestInit => Init
  BY DEF RequestInit
<1>2. QED
  BY <1>1, RequestStepIsSessionStep, PTL DEF RequestSpec, Spec

(* A streaming request therefore keeps its session's promises: a live credential is
   always guarded by the total timer, a finalized session is quiescent, and the
   three reports of an outcome agree, whatever the client, the timers and the
   upstream do. *)
THEOREM RequestKeepsSessionInvariants ==
    RequestSpec => [](IInv /\ CredentialGuarded /\ OutcomesAgree /\ CompletedIsWhole)
<1>1. QED
  BY RequestImplementsSession, Inductive, CredentialSafety, OutcomeAgreement,
     CompletionIsWhole, PTL

(* A verdict is on record exactly when the handler is finished. *)
FinishedIsRecorded == traceStatus # "none" <=> handler = "finished"

(* No callback writes what a finished handler left. *)
LEMMA VerdictStep ==
    ASSUME FinishedIsRecorded, [RequestNext]_allVars
    PROVE  /\ FinishedIsRecorded'
           /\ traceStatus # "none" =>
                 UNCHANGED <<traceStatus, streamEvent, health, sent, tail, headersSent>>
<1> USE DEF FinishedIsRecorded, records
<1>1. CASE HandlerRuns
  <2>1. handler # "finished"
    BY <1>1 DEF HandlerRuns, StartRefused, StartAcquiring, Resume, WriteChunk,
                WriteChunkBackpressured, LoopThrows, BodyThrows, LoopEnds
  <2>2. handler' = "finished" <=> traceStatus' # "none"
    BY <1>1, <2>1 DEF HandlerRuns, StartRefused, StartAcquiring, Resume, WriteChunk,
                WriteChunkBackpressured, LoopThrows, BodyThrows, LoopEnds, AnswerJsonError,
                FailStream
  <2>3. QED
    BY <2>1, <2>2
<1>2. CASE WriteHead \/ Drained
  BY <1>2 DEF WriteHead, Drained
<1>3. ASSUME Reaction
      PROVE  /\ FinishedIsRecorded'
             /\ traceStatus # "none" =>
                   UNCHANGED <<traceStatus, streamEvent, health, sent, tail, headersSent>>
  BY <1>3 DEF Reaction, AnswerJsonError
<1>4. CASE ClientCloses
  BY <1>3, <1>4 DEF ClientCloses
<1>5. CASE AppTimerFires \/ SessionTimerFires \/ AcquisitionRefused \/ UpstreamDelivers
  BY <1>3, <1>5 DEF AppTimerFires, SessionTimerFires, AcquisitionRefused, UpstreamDelivers
<1>6. CASE UNCHANGED allVars
  BY <1>6 DEF allVars, appVars
<1>7. QED
  BY <1>1, <1>2, <1>4, <1>5, <1>6 DEF RequestNext

(* The verdict on a request is recorded once: no timer, late fragment or disconnect that
   comes after it changes the trace, the event, the health record or the response. *)
THEOREM VerdictFinality == RequestSpec => VerdictIsFinal
<1>1. RequestInit => FinishedIsRecorded
  BY DEF RequestInit, FinishedIsRecorded
<1>2. FinishedIsRecorded /\ [RequestNext]_allVars => FinishedIsRecorded'
  BY VerdictStep
<1>3. FinishedIsRecorded /\ [RequestNext]_allVars =>
        [traceStatus # "none" => UNCHANGED <<traceStatus, streamEvent, health, sent, tail,
                                             headersSent>>]_allVars
  BY VerdictStep
<1>4. QED
  BY <1>1, <1>2, <1>3, PTL DEF RequestSpec, VerdictIsFinal

(***************************************************************************)
(* The four safety properties of the handler.  None is inductive: a        *)
(* verdict is decided from what the session did several turns earlier.     *)
(* RInv says where the session is while the handler is at each of its      *)
(* stages.  The argument rests on one fact of app.js: the handler is       *)
(* Waiting whenever a callback runs, so a session is finalized from        *)
(* outside only while the handler awaits it or drains, and both hear of it *)
(* in the same turn.                                                       *)
(***************************************************************************)

Streaming == {"resuming", "running", "awaiting", "draining", "failing"}

(* An unfinalized call listens to a signal that was not aborted. *)
Listening ==
    phase \in {"acquiring", "open"} /\ ~isFinalized => watching /\ callerSignal = "idle"

(* Where the session is at each stage of the handler. *)
StageInv ==
    /\ handler \in Streaming \cup {"starting", "acquiring", "finished"}
    /\ handler = "starting" => phase = "idle"
    /\ handler = "acquiring" => phase = "acquiring"
    /\ handler \in Streaming => phase = "open"
    /\ handler = "resuming" => generator \in {"unstarted", "yielded"} /\ ~isFinalized
    /\ handler = "running" => \/ generator = "yielded" /\ ~isFinalized
                              \/ generator \in {"returned", "threw"} /\ isFinalized
    /\ handler = "awaiting" => generator = "awaiting"
    /\ handler = "draining" => generator = "yielded" /\ ~isFinalized
    /\ handler = "failing" => generator = "yielded"
    /\ handler = "finished" => phase = "refused" \/ (phase = "open" /\ isFinalized)
    /\ finalizationListeners \subseteq (IF handler = "draining" THEN {DrainListener} ELSE {})

(* What was written so far; sent counts the chunks the generator yielded. *)
ResponseInv ==
    /\ headersSent <=> phase = "open"
    /\ handler # "finished" => ~ended /\ tail = <<>> /\ jsonCode = "none" /\ traceStatus = "none"
    /\ handler \in {"starting", "acquiring"} => sent = 0 /\ chunkCount = 0
    /\ handler \in {"resuming", "awaiting", "draining"} => sent = chunkCount
    /\ handler = "running" => chunkCount = IF generator = "yielded" THEN sent + 1 ELSE sent

(* What the error that ends a stream says of the session's summary. *)
VerdictInv ==
    /\ handler = "running" /\ generator = "returned" => summary.state = "completed"
    /\ handler = "running" /\ generator = "threw" =>
           summary.state = StateOf(raised) /\ raised # "bare_timeout"
    /\ handler \in Streaming /\ isFinalized /\ callerSignal # "idle" =>
           summary.state \in {"cancelled", "timed_out"}
    /\ handler = "failing" /\ isFinalized =>
           failure \in {"timeout", "cancelled"} /\ summary.state = StateOf(failure)
    /\ handler = "failing" /\ ~isFinalized => failure = "closed" /\ ~connected
    /\ handler \notin {"failing", "finished"} => failure # "closed"

(* What a finished handler recorded, and what it released. *)
Recorded ==
    /\ ~appTimer /\ ~attached
    /\ connected => ended
    /\ phase = "refused" => traceStatus = "json" /\ tail = <<>>
    /\ phase = "open" =>
          /\ jsonCode = "none"
          /\ traceStatus \in {"200", "499", "502", "504"}
          /\ traceStatus = "200" => sent = chunkCount /\ health = "success" /\ tail # <<"error">>
          /\ traceStatus = "200" <=> summary.state = "completed"
          /\ traceStatus = "504" <=> summary.state = "timed_out"
          /\ traceStatus = "499" <=> summary.state = "cancelled" /\ failure # "closed"
          /\ tail = <<"done">> => summary.state = "completed"
          /\ tail = <<"error">> => summary.state \in {"failed", "timed_out"}

RInv == /\ IInv /\ CompletedInv /\ Listening
        /\ StageInv /\ ResponseInv /\ VerdictInv
        /\ (handler = "finished" => Recorded)

(* Nothing is finalized or aborted without the flag that says so: a call stops listening
   only when it is finalized. *)
LEMMA ListeningStep == IInv /\ Listening /\ [Next]_vars => Listening'
<1> SUFFICES ASSUME IInv, Listening, [Next]_vars, phase' \in {"acquiring", "open"}, ~isFinalized'
             PROVE  watching' /\ callerSignal' = "idle"
  BY DEF Listening
<1>1. \A s, e : FinalizeOnce(s, e) => isFinalized /\ UNCHANGED finalVars
  BY DEF FinalizeOnce
<1>2. ~isFinalized /\ phase # "refused"
  <2>1. ~isFinalized
    <3>1. CASE isFinalized
      BY <3>1, FinalizedStep
    <3>2. QED
      BY <3>1
  <2>2. ASSUME phase = "refused"
        PROVE  FALSE
    BY <2>2 DEF Next, Caller, Transport, Timers, Upstream, Consumer, RefuseCall,
       BeginAcquisition, CallerAbort, TransportRejects, UnusableResponse, AcquisitionFails,
       AcquisitionSucceeds, TotalTimerFires, UnusedTimerFires, IdleTimerFires, ReadFails,
       FragmentArrives, BodyEnds, UpstreamFails, ConsumerNext, ConsumerReturn, Cancel,
       Subscribe, Unsubscribe, FinalizeFromOutside, Unwind, vars, callVars, finalVars,
       IInv, Lifecycle
  <2>3. QED
    BY <2>1, <2>2
<1>3. ASSUME UNCHANGED <<phase, watching, callerSignal>>
      PROVE  watching' /\ callerSignal' = "idle"
  BY <1>2, <1>3 DEF Listening
<1>4. CASE Caller
  <2>1. CASE BeginAcquisition
    BY <2>1 DEF BeginAcquisition, Failing
  <2>2. ASSUME NEW r \in AbortReasons, CallerAbort(r)
        PROVE  watching' /\ callerSignal' = "idle"
    BY <1>1, <1>2, <2>2 DEF CallerAbort, FinalizeFromOutside, Listening, finalVars
  <2>3. QED
    BY <1>4, <2>1, <2>2 DEF Caller, RefuseCall
<1>5. CASE Transport
  BY <1>1, <1>2, <1>5 DEF Transport, TransportRejects, UnusableResponse, AcquisitionFails,
     AcquisitionSucceeds, Listening
<1>6. CASE Timers
  BY <1>1, <1>2, <1>3, <1>6 DEF Timers, TotalTimerFires, UnusedTimerFires, IdleTimerFires,
     ReadFails, Throw, FinalizeFromOutside
<1>7. ASSUME Iterate, UNCHANGED <<phase, callerSignal>>
      PROVE  watching' /\ callerSignal' = "idle"
  BY <1>1, <1>2, <1>3, <1>7 DEF Iterate, Throw
<1>8. ASSUME NEW evs, Process(evs), UNCHANGED <<phase, callerSignal>>
      PROVE  watching' /\ callerSignal' = "idle"
  BY <1>1, <1>2, <1>3, <1>7, <1>8 DEF Process, Throw, Complete
<1>9. CASE Upstream
  BY <1>1, <1>2, <1>8, <1>9 DEF Upstream, FragmentArrives, BodyEnds, UpstreamFails, ReadFails,
     Throw, Complete, callVars
<1>10. CASE Consumer
  BY <1>1, <1>2, <1>3, <1>7, <1>8, <1>10 DEF Consumer, ConsumerNext, ConsumerReturn, Cancel,
     Subscribe, Unsubscribe, FinalizeFromOutside, callVars, finalVars
<1>11. CASE UNCHANGED vars
  BY <1>3, <1>11 DEF vars, callVars, finalVars
<1>12. QED
  BY <1>4, <1>5, <1>6, <1>9, <1>10, <1>11 DEF Next

(* What one turn of the generator on a session that is not finalized leaves behind. *)
Turned ==
    \/ generator' = "awaiting" /\ ~isFinalized' /\ chunkCount' = chunkCount
    \/ generator' = "yielded" /\ ~isFinalized' /\ chunkCount' = chunkCount + 1
    \/ /\ generator' = "returned" /\ isFinalized' /\ chunkCount' = chunkCount
       /\ summary'.state = "completed"
    \/ /\ generator' = "threw" /\ isFinalized' /\ chunkCount' = chunkCount
       /\ summary'.state = StateOf(raised') /\ raised' # "bare_timeout"

(* A generator that throws in an open session finalizes it in the state of the error. *)
LEMMA ThrowTurns ==
    ASSUME IInv, phase = "open", ~isFinalized, NEW code \in Codes, Throw(code),
           chunkCount' = chunkCount
    PROVE  Turned /\ finalizationListeners' \subseteq finalizationListeners
<1>1. StateOf(code) \in Terminal /\ Rethrown(code) \in Codes
  BY CodeNames DEF StateOf, Rethrown, Terminal
<1>2. isFinalized' /\ summary'.state = StateOf(code)
  BY <1>1, FirstFinalization DEF Throw
<1>3. StateOf(Rethrown(code)) = StateOf(code) /\ Rethrown(code) # "bare_timeout"
  BY DEF StateOf, Rethrown
<1>4. QED
  BY <1>2, <1>3 DEF Throw, Turned, FinalizeOnce

LEMMA CompleteTurns ==
    ASSUME IInv, phase = "open", ~isFinalized, Complete, chunkCount' = chunkCount
    PROVE  Turned /\ finalizationListeners' \subseteq finalizationListeners
<1>1. isFinalized' /\ summary'.state = "completed"
  BY FirstFinalization DEF Complete, Terminal
<1>2. QED
  BY <1>1 DEF Complete, Turned, FinalizeOnce

LEMMA IterateTurns ==
    ASSUME IInv, phase = "open", ~isFinalized, Iterate, chunkCount' = chunkCount
    PROVE  Turned /\ finalizationListeners' \subseteq finalizationListeners
<1>1. abortReason = "none"
  BY DEF IInv, SummaryMatches
<1>2. QED
  BY <1>1 DEF Iterate, Turned

LEMMA ProcessTurns ==
    ASSUME IInv, phase = "open", ~isFinalized, NEW evs, Process(evs)
    PROVE  Turned /\ finalizationListeners' \subseteq finalizationListeners
<1>1. CASE chunkCount' = chunkCount /\ Throw(EventCode(evs[Stop(evs)]))
  BY <1>1, ThrowTurns, EventCodes
<1>2. CASE chunkCount' = chunkCount /\ Complete
  BY <1>2, CompleteTurns
<1>3. CASE chunkCount' = chunkCount /\ Iterate
  BY <1>3, IterateTurns
<1>4. CASE chunkCount' = chunkCount + 1 /\ generator' = "yielded"
           /\ UNCHANGED <<isFinalized, finalizationListeners>>
  BY <1>4 DEF Turned
<1>5. QED
  BY <1>1, <1>2, <1>3, <1>4 DEF Process

(* The consumer's next: safeEventGenerator runs to its next await, yield or end. *)
LEMMA NextTurns ==
    ASSUME IInv, ~isFinalized, ConsumerNext
    PROVE  /\ Turned /\ UNCHANGED callVars
           /\ finalizationListeners' \subseteq finalizationListeners
<1>1. phase = "open" /\ UNCHANGED callVars
  BY DEF ConsumerNext
<1>2. QED
  BY <1>1, IterateTurns, ProcessTurns DEF ConsumerNext

(* The upstream delivers, fails or stays silent too long while the generator awaits it. *)
LEMMA UpstreamTurns ==
    ASSUME IInv, Upstream \/ IdleTimerFires
    PROVE  /\ Turned /\ UNCHANGED callVars
           /\ finalizationListeners' \subseteq finalizationListeners
           /\ generator = "awaiting" /\ ~isFinalized /\ phase = "open"
<1>1. generator = "awaiting" /\ UNCHANGED callVars
  BY DEF Upstream, FragmentArrives, BodyEnds, UpstreamFails, ReadFails, IdleTimerFires
<1>2. phase = "open" /\ ~isFinalized
  BY <1>1, GeneratorNeedsOpen DEF IInv, FinalizedIsQuiescent
<1>3. ASSUME NEW code \in Codes, ReadFails(code)
      PROVE  Turned /\ finalizationListeners' \subseteq finalizationListeners
  BY <1>2, <1>3, ThrowTurns DEF ReadFails
<1>4. ASSUME NEW flushed, BodyEnds(flushed)
      PROVE  Turned /\ finalizationListeners' \subseteq finalizationListeners
  BY <1>2, <1>4, ThrowTurns, CompleteTurns, EventCodes DEF BodyEnds
<1>5. ASSUME NEW f \in Fragments, FragmentArrives(f)
      PROVE  Turned /\ finalizationListeners' \subseteq finalizationListeners
  BY <1>2, <1>5, ThrowTurns, ProcessTurns, CodeNames DEF FragmentArrives
<1>6. QED
  BY <1>1, <1>2, <1>3, <1>4, <1>5, CodeNames
     DEF Upstream, UpstreamFails, IdleTimerFires, CancelReasons

(* A finalization from outside (a timer or the caller's abort): the acquisition is
   refused, or an awaiting generator throws what the summary says. *)
LEMMA OutsideTurns ==
    ASSUME IInv, phase \in {"acquiring", "open"}, NEW e \in {"timeout", "cancelled"},
           FinalizeFromOutside(StateOf(e), e)
    PROVE  /\ isFinalized' /\ summary'.state = StateOf(e) /\ summary'.error = e
           /\ finalizationListeners' = {}
           /\ phase' = IF phase = "acquiring" THEN "refused" ELSE "open"
           /\ generator' = IF generator = "awaiting" THEN "threw" ELSE generator
           /\ generator = "awaiting" => raised' = e
           /\ chunkCount' = chunkCount
<1>1. StateOf(e) \in Terminal /\ e \in Codes /\ Published(e) = e /\ Rethrown(e) = e
  BY CodeNames DEF StateOf, Terminal, Published, Rethrown
<1>2. isFinalized' /\ summary'.state = StateOf(e) /\ summary'.error = e
  BY <1>1, FirstFinalization DEF FinalizeFromOutside
<1>3. QED
  BY <1>1, <1>2 DEF FinalizeFromOutside, FinalizeOnce, Unwind, dataVars

(* The handler's part of RInv, which the steps below establish. *)
HandlerInv == /\ StageInv /\ ResponseInv /\ VerdictInv
              /\ (handler = "finished" => Recorded)

(* The handler waits for its acquisition: a refusal is answered in the same turn. *)
LEMMA RefusalReacts ==
    ASSUME RInv, handler = "acquiring", phase' = "refused", Reaction,
           finalizationListeners' = {}
    PROVE  HandlerInv'
<1>1. AnswerJsonError
  BY DEF Reaction
<1>2. ~headersSent /\ tail = <<>>
  BY DEF RInv, StageInv, ResponseInv
<1>3. QED
  BY <1>1, <1>2 DEF AnswerJsonError, HandlerInv, StageInv, ResponseInv, VerdictInv, Recorded,
     Streaming

(* The handler awaits the next event: one turn of the generator wakes it, or leaves it
   waiting. *)
LEMMA TurnReacts ==
    ASSUME RInv, Waiting, generator = "awaiting", phase = "open", ~isFinalized,
           Turned, UNCHANGED callVars, Reaction,
           finalizationListeners' \subseteq finalizationListeners
    PROVE  HandlerInv'
<1>1. handler = "awaiting" /\ callerSignal' = "idle" /\ phase' = "open"
  BY DEF RInv, StageInv, Waiting, Listening, callVars
<1>2. /\ handler' = IF generator' = "awaiting" THEN "awaiting" ELSE "running"
      /\ UNCHANGED <<failure, headersSent, sent, tail, jsonCode, ended, traceStatus>>
  BY <1>1 DEF Reaction, records
<1>3. StageInv' /\ ResponseInv'
  BY <1>1, <1>2 DEF RInv, StageInv, ResponseInv, Turned, Streaming
<1>4. VerdictInv'
  BY <1>1, <1>2 DEF RInv, VerdictInv, Turned
<1>5. QED
  BY <1>1, <1>2, <1>3, <1>4 DEF HandlerInv

(* A finalization from outside reaches the handler in each of its three waits. *)
LEMMA OutsideReacts ==
    ASSUME RInv, Waiting, handler # "finished", NEW e \in {"timeout", "cancelled"},
           FinalizeFromOutside(StateOf(e), e), Reaction
    PROVE  HandlerInv'
<1>1. /\ handler \in {"acquiring", "awaiting", "draining"}
      /\ phase = IF handler = "acquiring" THEN "acquiring" ELSE "open"
  BY DEF RInv, StageInv, Waiting, Streaming
<1>2. /\ isFinalized' /\ summary'.state = StateOf(e) /\ summary'.error = e
      /\ finalizationListeners' = {}
      /\ phase' = IF phase = "acquiring" THEN "refused" ELSE "open"
      /\ generator' = IF generator = "awaiting" THEN "threw" ELSE generator
      /\ generator = "awaiting" => raised' = e
      /\ chunkCount' = chunkCount
  BY <1>1, OutsideTurns DEF RInv
<1>3. StateOf(e) \in {"cancelled", "timed_out"}
  BY DEF StateOf
<1>4. CASE handler = "acquiring"
  BY <1>1, <1>2, <1>4, RefusalReacts
<1>5. CASE handler = "awaiting"
  <2>1. /\ handler' = "running"
        /\ UNCHANGED <<failure, headersSent, sent, tail, jsonCode, ended, traceStatus>>
        /\ generator' = "threw" /\ raised' = e /\ phase' = "open"
    BY <1>1, <1>2, <1>5 DEF Reaction, records, RInv, StageInv
  <2>2. QED
    BY <1>1, <1>2, <1>3, <1>5, <2>1 DEF RInv, HandlerInv, StageInv, ResponseInv, VerdictInv, Streaming
<1>6. CASE handler = "draining"
  <2>1. /\ handler' = "failing" /\ failure' = e
        /\ UNCHANGED <<headersSent, sent, tail, jsonCode, ended, traceStatus>>
        /\ generator' = "yielded" /\ phase' = "open"
    BY <1>1, <1>2, <1>6 DEF Reaction, records, RInv, StageInv
  <2>2. QED
    BY <1>1, <1>2, <1>3, <1>6, <2>1 DEF RInv, HandlerInv, StageInv, ResponseInv, VerdictInv, Streaming
<1>7. QED
  BY <1>1, <1>4, <1>5, <1>6

(* The caller's abort comes while its call still listens: the listener finalizes. *)
LEMMA AbortReacts ==
    ASSUME RInv, Waiting, handler # "finished", Reaction,
           CallerAbort("cancelled") \/ CallerAbort("wrapped_timeout")
    PROVE  HandlerInv'
<1>1. phase \in {"acquiring", "open"} /\ ~isFinalized
  <2>1. handler = "awaiting" => generator = "awaiting"
    BY DEF RInv, StageInv
  <2>2. QED
    BY <2>1 DEF RInv, StageInv, Waiting, Streaming, IInv, Lifecycle, FinalizedIsQuiescent
<1>2. watching
  BY <1>1 DEF RInv, Listening
<1>3. FinalizeFromOutside(StateOf("cancelled"), "cancelled")
  BY <1>2 DEF CallerAbort, ListenerReading
<1>4. QED
  BY <1>3, OutsideReacts

(* A refused acquisition: only the handler that waits for it is there to hear of it. *)
LEMMA AcquisitionRefusedReacts ==
    ASSUME RInv, AcquisitionRefused
    PROVE  HandlerInv'
<1>1. PICK s, code : AcquisitionFails(s, code)
  BY DEF AcquisitionRefused, TransportRejects, UnusableResponse
<1>2. handler = "acquiring" /\ phase' = "refused"
  BY <1>1 DEF AcquisitionFails, AcquisitionRefused, Waiting, RInv, StageInv, Streaming
<1>3. finalizationListeners' = {}
  BY <1>1, <1>2 DEF AcquisitionFails, FinalizeOnce, finalVars, RInv, StageInv
<1>4. QED
  BY <1>2, <1>3, RefusalReacts DEF AcquisitionRefused

(* The call is refused at once, or begins its acquisition, or hands out its session. *)
LEMMA StartKeeps ==
    ASSUME RInv, StartRefused \/ StartAcquiring \/ WriteHead
    PROVE  HandlerInv'
<1>1. CASE StartRefused
  <2>1. /\ phase = "idle" /\ phase' = "refused"
        /\ UNCHANGED <<headersSent, sent, tail, finalizationListeners>>
        /\ handler' = "finished" /\ ended' /\ ~appTimer' /\ ~attached' /\ traceStatus' = "json"
    BY <1>1 DEF StartRefused, RefuseCall, AnswerJsonError
  <2>2. ~headersSent /\ tail = <<>> /\ finalizationListeners = {}
    BY <1>1, <2>1 DEF RInv, StageInv, ResponseInv, StartRefused
  <2>3. QED
    BY <2>1, <2>2 DEF HandlerInv, StageInv, ResponseInv, VerdictInv, Recorded, Streaming
<1>2. CASE StartAcquiring
  BY <1>2 DEF StartAcquiring, BeginAcquisition, dataVars, records,
     RInv, HandlerInv, StageInv, ResponseInv, VerdictInv, Streaming
<1>3. CASE WriteHead
  <2>1. generator = "unstarted" /\ ~isFinalized /\ phase = "acquiring"
    BY <1>3 DEF WriteHead, AcquisitionSucceeds, RInv, IInv, Lifecycle
  <2>2. QED
    BY <1>3, <2>1 DEF WriteHead, AcquisitionSucceeds, dataVars, genVars, records,
       RInv, HandlerInv, StageInv, ResponseInv, VerdictInv, Streaming
<1>4. QED
  BY <1>1, <1>2, <1>3

(* The loop asks for the next event of a session that is still open. *)
LEMMA ResumeKeeps ==
    ASSUME RInv, Resume
    PROVE  HandlerInv'
<1>1. phase = "open" /\ ~isFinalized /\ callerSignal = "idle" /\ handler = "resuming"
  BY DEF Resume, RInv, StageInv, Listening, Streaming
<1>2. /\ Turned /\ UNCHANGED callVars
      /\ finalizationListeners' \subseteq finalizationListeners
  BY <1>1, NextTurns DEF Resume, RInv
<1>3. phase' = "open" /\ callerSignal' = "idle"
  BY <1>1, <1>2 DEF callVars
<1>4. /\ handler' = IF generator' = "awaiting" THEN "awaiting" ELSE "running"
      /\ UNCHANGED <<failure, headersSent, sent, tail, jsonCode, ended, traceStatus>>
  BY DEF Resume, records
<1>5. StageInv' /\ ResponseInv'
  BY <1>1, <1>2, <1>3, <1>4 DEF RInv, StageInv, ResponseInv, Turned, Streaming
<1>6. VerdictInv'
  BY <1>1, <1>2, <1>3, <1>4 DEF RInv, VerdictInv, Turned
<1>7. QED
  BY <1>4, <1>5, <1>6 DEF HandlerInv

(* A chunk is written, or dropped with its connection; the drain ends. *)
LEMMA WriteKeeps ==
    ASSUME RInv, WriteChunk \/ WriteChunkBackpressured \/ Drained
    PROVE  HandlerInv'
<1> USE DEF RInv, HandlerInv, StageInv, ResponseInv, VerdictInv, Streaming
<1>1. CASE WriteChunk
  BY <1>1 DEF WriteChunk, vars, callVars, finalVars, genVars, dataVars, records
<1>2. CASE WriteChunkBackpressured
  <2>1. /\ handler = "running" /\ generator = "yielded" /\ phase = "open" /\ ~isFinalized
        /\ chunkCount = sent + 1
    BY <1>2 DEF WriteChunkBackpressured
  <2>2. callerSignal = "idle" /\ sessionState = "active"
    BY <2>1 DEF Listening, IInv, Lifecycle
  <2>3. DrainRejected <=> ~connected
    BY <2>2 DEF DrainRejected, Terminal
  <2>4. UNCHANGED <<headersSent, tail, jsonCode, ended, connected, traceStatus>>
    BY <1>2 DEF WriteChunkBackpressured, records
  <2>5. CASE connected
    <3>1. /\ Subscribe(DrainListener) /\ handler' = "draining" /\ sent' = sent + 1
          /\ UNCHANGED failure
      BY <1>2, <2>3, <2>5 DEF WriteChunkBackpressured
    <3>2. /\ finalizationListeners' \subseteq finalizationListeners \cup {DrainListener}
          /\ UNCHANGED <<phase, generator, isFinalized, chunkCount, callerSignal, summary>>
      BY <3>1, <2>1 DEF Subscribe, callVars, genVars, dataVars
    <3>3. QED
      BY <2>1, <2>4, <3>1, <3>2
  <2>6. CASE ~connected
    <3>1. UNCHANGED vars /\ handler' = "failing" /\ failure' = "closed"
      BY <1>2, <2>3, <2>6 DEF WriteChunkBackpressured
    <3>2. QED
      BY <2>1, <2>4, <2>6, <3>1 DEF vars, callVars, finalVars, genVars, dataVars
  <2>7. QED
    BY <2>5, <2>6
<1>3. CASE Drained
  <2>1. /\ handler = "draining" /\ handler' = "resuming"
        /\ Unsubscribe(DrainListener)
        /\ UNCHANGED <<failure, headersSent, sent, tail, jsonCode, ended, traceStatus>>
    BY <1>3 DEF Drained, records
  <2>2. /\ finalizationListeners' = finalizationListeners \ {DrainListener}
        /\ UNCHANGED <<phase, generator, isFinalized, chunkCount, callerSignal, summary>>
    BY <2>1 DEF Unsubscribe, callVars, genVars, dataVars
  <2>3. QED
    BY <2>1, <2>2
<1>4. QED
  BY <1>1, <1>2, <1>3

(* The three ends of the loop: what is recorded agrees with the session's summary. *)
LEMMA EndKeeps ==
    ASSUME RInv, LoopThrows \/ BodyThrows \/ LoopEnds
    PROVE  HandlerInv'
<1>1. CASE LoopEnds
  <2>1. /\ phase = "open" /\ isFinalized /\ summary.state = "completed" /\ sent = chunkCount
        /\ tail = <<>> /\ jsonCode = "none" /\ headersSent /\ finalizationListeners = {}
    BY <1>1 DEF LoopEnds, RInv, StageInv, ResponseInv, VerdictInv, Streaming
  <2>2. QED
    BY <1>1, <2>1 DEF LoopEnds, HandlerInv, StageInv, ResponseInv, VerdictInv, Recorded,
       Streaming, vars, callVars, finalVars, genVars, dataVars
<1>2. CASE LoopThrows
  <2>1. /\ phase = "open" /\ isFinalized /\ summary.state = StateOf(raised)
        /\ tail = <<>> /\ jsonCode = "none" /\ headersSent /\ finalizationListeners = {}
        /\ callerSignal # "idle" => summary.state \in {"cancelled", "timed_out"}
        /\ failure # "closed" /\ raised # "bare_timeout"
    BY <1>2 DEF LoopThrows, RInv, StageInv, ResponseInv, VerdictInv, Streaming
  <2>2. Recorded'
    BY <1>2, <2>1 DEF LoopThrows, FailStream, StateOf, Recorded,
       vars, callVars, finalVars, genVars, dataVars
  <2>3. QED
    BY <1>2, <2>1, <2>2 DEF LoopThrows, FailStream, HandlerInv, StageInv, ResponseInv,
       VerdictInv, Streaming, vars, callVars, finalVars, genVars, dataVars
<1>3. CASE BodyThrows
  <2>1. /\ phase = "open" /\ generator = "yielded" /\ handler = "failing"
        /\ tail = <<>> /\ jsonCode = "none" /\ headersSent /\ finalizationListeners = {}
    BY <1>3 DEF BodyThrows, RInv, StageInv, ResponseInv, Streaming
  <2>2. /\ FinalizeOnce("cancelled", "none") /\ UNCHANGED callVars /\ FailStream(failure)
    BY <1>3, <2>1 DEF BodyThrows, ConsumerReturn
  <2>3. isFinalized' /\ finalizationListeners' = {}
    BY <2>1, <2>2 DEF FinalizeOnce, finalVars
  <2>4. CASE isFinalized
    <3>1. /\ failure \in {"timeout", "cancelled"} /\ summary' = summary
          /\ summary.state = StateOf(failure)
          /\ callerSignal # "idle" => summary.state \in {"cancelled", "timed_out"}
      BY <2>1, <2>2, <2>4 DEF FinalizeOnce, finalVars, RInv, VerdictInv, Streaming
    <3>2. QED
      BY <2>1, <2>2, <2>3, <3>1 DEF FailStream, StateOf, HandlerInv, StageInv, ResponseInv,
         VerdictInv, Recorded, Streaming, callVars
  <2>5. CASE ~isFinalized
    <3>1. /\ failure = "closed" /\ ~connected /\ callerSignal = "idle"
          /\ summary'.state = "cancelled"
      BY <2>1, <2>2, <2>5, FirstFinalization DEF RInv, VerdictInv, Listening, Terminal
    <3>2. QED
      BY <2>1, <2>2, <2>3, <3>1 DEF FailStream, HandlerInv, StageInv, ResponseInv,
         VerdictInv, Recorded, Streaming, callVars
  <2>6. QED
    BY <2>4, <2>5
<1>4. QED
  BY <1>1, <1>2, <1>3

(* The client leaves: before the head its close aborts the call, while the handler
   drains it fails the loop body, and otherwise nobody notices. *)
LEMMA CloseKeeps ==
    ASSUME RInv, ClientCloses
    PROVE  HandlerInv'
<1>1. CASE attached /\ ~headersSent
  <2>1. handler \notin {"draining", "finished"}
    BY <1>1 DEF RInv, StageInv, ResponseInv, Recorded, Streaming
  <2>2. Waiting /\ CallerAbort("cancelled") /\ Reaction
    BY <1>1, <2>1 DEF ClientCloses
  <2>3. QED
    BY <2>1, <2>2, AbortReacts
<1>2. CASE handler = "draining" /\ ~(attached /\ ~headersSent)
  <2>1. /\ Unsubscribe(DrainListener) /\ handler' = "failing" /\ failure' = "closed" /\ ~connected'
        /\ UNCHANGED <<headersSent, sent, tail, jsonCode, ended, traceStatus>>
    BY <1>2 DEF ClientCloses, records
  <2>2. /\ finalizationListeners' = finalizationListeners \ {DrainListener}
        /\ UNCHANGED <<phase, generator, isFinalized, chunkCount, callerSignal, summary>>
    BY <2>1 DEF Unsubscribe, callVars, genVars, dataVars
  <2>3. QED
    BY <1>2, <2>1, <2>2 DEF RInv, HandlerInv, StageInv, ResponseInv, VerdictInv, Streaming
<1>3. CASE handler # "draining" /\ ~(attached /\ ~headersSent)
  <2>1. /\ UNCHANGED vars /\ ~connected' /\ handler \in {"acquiring", "awaiting", "finished"}
        /\ UNCHANGED <<handler, failure, headersSent, sent, tail, jsonCode, ended, appTimer,
                       attached, records>>
    BY <1>3 DEF ClientCloses, Waiting
  <2>2. QED
    BY <2>1 DEF RInv, HandlerInv, StageInv, ResponseInv, VerdictInv, Recorded, Streaming,
       vars, callVars, finalVars, genVars, dataVars, records
<1>4. QED
  BY <1>1, <1>2, <1>3

(* The timers: the handler's own, the session's total timer, the idle timer of a read. *)
LEMMA TimersKeep ==
    ASSUME RInv, AppTimerFires \/ SessionTimerFires \/ UpstreamDelivers
    PROVE  HandlerInv'
<1>1. CASE AppTimerFires
  <2>1. handler # "finished"
    BY <1>1 DEF AppTimerFires, RInv, Recorded
  <2>2. QED
    BY <1>1, <2>1, AbortReacts DEF AppTimerFires
<1>2. CASE SessionTimerFires /\ TotalTimerFires
  <2>1. handler # "finished"
    BY <1>2 DEF TotalTimerFires, RInv, StageInv, IInv, Lifecycle, FinalizedIsQuiescent
  <2>2. StateOf("timeout") = "timed_out"
    BY DEF StateOf
  <2>3. FinalizeFromOutside(StateOf("timeout"), "timeout") /\ Waiting /\ Reaction
    BY <1>2, <2>2 DEF SessionTimerFires, TotalTimerFires
  <2>4. QED
    BY <2>1, <2>3, OutsideReacts
<1>3. CASE Waiting /\ Reaction /\ (Upstream \/ IdleTimerFires)
  BY <1>3, UpstreamTurns, TurnReacts DEF RInv
<1>4. QED
  BY <1>1, <1>2, <1>3 DEF SessionTimerFires, UpstreamDelivers

(* RInv is inductive: one lemma for each stage of the handler and each callback. *)
LEMMA RequestStep == RInv /\ [RequestNext]_allVars => RInv'
<1> SUFFICES ASSUME RInv, [RequestNext]_allVars
             PROVE  RInv'
  OBVIOUS
<1>1. IInv' /\ CompletedInv' /\ Listening'
  BY RequestStepIsSessionStep, NextIInv, NextCompletedInv, ListeningStep DEF RInv
<1>2. HandlerInv'
  <2>1. CASE HandlerRuns
    BY <2>1, StartKeeps, ResumeKeeps, WriteKeeps, EndKeeps DEF HandlerRuns
  <2>2. CASE WriteHead \/ Drained \/ ClientCloses
    BY <2>2, StartKeeps, WriteKeeps, CloseKeeps
  <2>3. CASE AppTimerFires \/ SessionTimerFires \/ UpstreamDelivers \/ AcquisitionRefused
    BY <2>3, TimersKeep, AcquisitionRefusedReacts
  <2>4. CASE UNCHANGED allVars
    BY <2>4 DEF allVars, appVars, vars, callVars, finalVars, genVars, dataVars,
       RInv, HandlerInv, StageInv, ResponseInv, VerdictInv, Recorded, Streaming
  <2>5. QED
    BY <2>1, <2>2, <2>3, <2>4 DEF RequestNext
<1>3. QED
  BY <1>1, <1>2 DEF RInv, HandlerInv

LEMMA RequestInduction == RequestSpec => []RInv
<1>1. RequestInit => RInv
  <2>1. RequestInit => IInv /\ CompletedInv
    BY InitIInv, InitCompletedInv DEF RequestInit
  <2>2. RequestInit => Listening /\ StageInv /\ ResponseInv /\ VerdictInv /\ handler # "finished"
    BY DEF RequestInit, Init, Listening, StageInv, ResponseInv, VerdictInv, Streaming
  <2>3. QED
    BY <2>1, <2>2 DEF RInv
<1>2. QED
  BY <1>1, RequestStep, PTL DEF RequestSpec

(* A request recorded as a success (the catch-free end of the loop in app.js) is one: its
   session completed, and each chunk the session counted was accepted by response.write,
   for every upstream, every limit, and every order of timers, disconnects and drains. *)
THEOREM SuccessIsHonest == RequestSpec => []SuccessIsReal
<1>1. RInv => SuccessIsReal
  <2> SUFFICES ASSUME RInv, traceStatus = "200"
               PROVE  /\ summary.state = "completed" /\ sent = summary.chunks
                      /\ tail # <<"error">> /\ health = "success"
    BY DEF SuccessIsReal
  <2>1. handler = "finished" /\ phase = "open"
    BY DEF RInv, ResponseInv, StageInv, Recorded
  <2>2. /\ summary.state = "completed" /\ sent = chunkCount
        /\ tail # <<"error">> /\ health = "success"
    BY <2>1 DEF RInv, Recorded
  <2>3. summary.chunks = chunkCount
    BY <2>2 DEF RInv, CompletedInv, CompletedIsWhole
  <2>4. QED
    BY <2>2, <2>3
<1>2. QED
  BY <1>1, RequestInduction, PTL

(* The status traceComplete records of a stream whose head was sent is the one its session
   reports of itself, for each of the four ways a session ends, although FailStream decides
   it from the error it caught; the one exception is a client that left while the handler
   wrote to it, whose session says cancelled and whose trace 502. *)
THEOREM TraceAgreement == RequestSpec => []TraceMatchesSession
<1>1. RInv => TraceMatchesSession
  <2> SUFFICES ASSUME RInv, handler = "finished", headersSent
               PROVE  /\ traceStatus = "200" <=> summary.state = "completed"
                      /\ traceStatus = "504" <=> summary.state = "timed_out"
                      /\ traceStatus = "499" <=> summary.state = "cancelled" /\ ~LeftWhileWritten
                      /\ traceStatus = "502" <=> summary.state = "failed" \/ LeftWhileWritten
    BY DEF TraceMatchesSession
  <2>1. phase = "open" /\ isFinalized
    BY DEF RInv, ResponseInv, StageInv
  <2>2. summary.state \in {"completed", "timed_out", "cancelled", "failed"}
    BY <2>1 DEF RInv, IInv, SummaryMatches, Terminal
  <2>3. /\ traceStatus \in {"200", "499", "502", "504"}
        /\ traceStatus = "200" <=> summary.state = "completed"
        /\ traceStatus = "504" <=> summary.state = "timed_out"
        /\ traceStatus = "499" <=> summary.state = "cancelled" /\ failure # "closed"
    BY <2>1 DEF RInv, Recorded
  <2>4. QED
    BY <2>2, <2>3 DEF LeftWhileWritten
<1>2. QED
  BY <1>1, RequestInduction, PTL

(* However a request ends, no timer, listener, live credential or unfinalized session
   outlives it, and a connected client is not left waiting. *)
THEOREM NothingIsLeftBehind == RequestSpec => []NothingLeftBehind
<1>1. RInv => NothingLeftBehind
  BY DEF RInv, NothingLeftBehind, Recorded, StageInv, IInv, Lifecycle, FinalizedIsQuiescent
<1>2. QED
  BY <1>1, RequestInduction, PTL

(* The client gets one kind of answer: [DONE] after a completed session, an error frame
   after a head, a JSON error without one. *)
THEOREM OneAnswer == RequestSpec => []OneKindOfAnswer
<1>1. RInv => OneKindOfAnswer
  <2> SUFFICES ASSUME RInv
               PROVE  OneKindOfAnswer
    OBVIOUS
  <2>1. CASE handler # "finished"
    BY <2>1 DEF RInv, ResponseInv, OneKindOfAnswer
  <2>2. CASE handler = "finished"
    BY <2>2 DEF RInv, StageInv, ResponseInv, Recorded, OneKindOfAnswer
  <2>3. QED
    BY <2>1, <2>2
<1>2. QED
  BY <1>1, RequestInduction, PTL

(* A call that is refused returns an error code: jsonCode has a type. *)
LEMMA RefusalHasCode ==
    ASSUME IInv, [Next]_vars, phase # "refused", phase' = "refused"
    PROVE  result' \in Codes
<1>1. CASE RefuseCall
  BY <1>1, RefusalCodeIsCode DEF RefuseCall, IInv, TypeOK
<1>2. ASSUME NEW s, NEW code \in Codes, AcquisitionFails(s, code)
      PROVE  result' \in Codes
  BY <1>2 DEF AcquisitionFails
<1>3. ASSUME NEW s, NEW e, FinalizeFromOutside(s, e)
      PROVE  result' \in Codes
  BY <1>3, CodeNames DEF FinalizeFromOutside, Unwind, ListenerReading
<1>4. CASE Caller
  BY <1>1, <1>3, <1>4 DEF Caller, BeginAcquisition, CallerAbort
<1>5. CASE Transport
  <2>1. CASE TransportRejects \/ UnusableResponse
    BY <1>2, <2>1, CodeNames DEF TransportRejects, UnusableResponse
  <2>2. QED
    BY <1>5, <2>1 DEF Transport, AcquisitionSucceeds
<1>6. CASE Timers \/ Upstream \/ Consumer
  <2>1. CASE TotalTimerFires \/ UnusedTimerFires \/ \E r \in CancelReasons : Cancel(r)
    BY <1>3, <2>1 DEF TotalTimerFires, UnusedTimerFires, Cancel
  <2>2. QED
    BY <1>6, <2>1 DEF Timers, Upstream, Consumer, IdleTimerFires, ReadFails, FragmentArrives,
       BodyEnds, UpstreamFails, ConsumerNext, ConsumerReturn, Subscribe, Unsubscribe, callVars
<1>7. CASE UNCHANGED vars
  BY <1>7 DEF vars, callVars
<1>8. QED
  BY <1>4, <1>5, <1>6, <1>7 DEF Next

(* The frames that may follow the last chunk. *)
Tails == {<<>>, <<"done">>, <<"error">>}

LEMMA TailNames == <<>> \in Tails /\ <<"done">> \in Tails /\ <<"error">> \in Tails
  BY Zenon DEF Tails

(* The types of the handler's own variables. *)
HandlerTypes ==
    /\ failure \in Codes \cup {"none", "closed"}
    /\ headersSent \in BOOLEAN
    /\ sent \in Nat
    /\ tail \in Tails
    /\ jsonCode \in Codes \cup {"none"}
    /\ ended \in BOOLEAN
    /\ connected \in BOOLEAN
    /\ leftMidStream \in BOOLEAN
    /\ appTimer \in BOOLEAN
    /\ attached \in BOOLEAN
    /\ traceStatus \in {"none", "200", "499", "502", "504", "json"}
    /\ streamEvent \in {"none", "completed", "failed", "cancelled", "timed-out",
                        "request-failed"}
    /\ health \in {"none", "success", "failure"}

LEMMA HandlerTypesStep ==
    ASSUME RInv, HandlerTypes, [RequestNext]_allVars
    PROVE  HandlerTypes'
<1> USE TailNames
<1>1. [Next]_vars /\ RInv'
  BY RequestStepIsSessionStep, RequestStep
<1>2. CASE UNCHANGED allVars
  BY <1>2 DEF allVars, appVars, HandlerTypes
<1>3. ASSUME AnswerJsonError, phase # "refused", phase' = "refused", connected' \in BOOLEAN,
             leftMidStream' \in BOOLEAN
      PROVE  HandlerTypes'
  <2>1. result' \in Codes
    BY <1>1, <1>3, RefusalHasCode DEF RInv
  <2>2. QED
    BY <1>3, <2>1 DEF AnswerJsonError, HandlerTypes
<1>4. ASSUME Reaction, connected' \in BOOLEAN, leftMidStream' \in BOOLEAN
      PROVE  HandlerTypes'
  <2>1. CASE handler = "acquiring" /\ phase' = "refused"
    BY <1>3, <1>4, <2>1 DEF Reaction, RInv, StageInv
  <2>2. CASE handler = "draining" /\ isFinalized'
    <3>1. failure' \in Codes \cup {"none"}
      BY <1>1, <1>4, <2>2 DEF Reaction, RInv, IInv, TypeOK
    <3>2. QED
      BY <1>4, <2>2, <3>1 DEF Reaction, HandlerTypes, records
  <2>3. CASE /\ ~(handler = "acquiring" /\ phase' = "refused")
             /\ ~(handler = "draining" /\ isFinalized')
    <3>1. UNCHANGED <<failure, headersSent, sent, tail, jsonCode, ended, appTimer, attached,
                      records>>
      BY <1>4, <2>3 DEF Reaction
    <3>2. QED
      BY <1>4, <3>1 DEF HandlerTypes, records
  <2>4. QED
    BY <2>1, <2>2, <2>3
<1>5. CASE HandlerRuns
  <2>1. CASE StartRefused
    BY <1>3, <2>1 DEF StartRefused, RefuseCall, HandlerTypes
  <2>2. CASE StartAcquiring \/ Resume \/ WriteChunk
    <3>1. sent' \in Nat
      BY <2>2 DEF StartAcquiring, Resume, WriteChunk, HandlerTypes
    <3>2. QED
      BY <2>2, <3>1, Zenon DEF StartAcquiring, Resume, WriteChunk, HandlerTypes, records
  <2>3. CASE WriteChunkBackpressured
    <3>1. Published(sessionError) \in Codes \cup {"none"}
      BY CodeNames DEF Published, RInv, IInv, TypeOK
    <3>2. QED
      BY <2>3, <3>1 DEF WriteChunkBackpressured, HandlerTypes, records
  <2>4. CASE LoopThrows \/ BodyThrows
    BY <2>4 DEF LoopThrows, BodyThrows, FailStream, HandlerTypes
  <2>5. CASE LoopEnds
    BY <2>5 DEF LoopEnds, HandlerTypes
  <2>6. QED
    BY <1>5, <2>1, <2>2, <2>3, <2>4, <2>5 DEF HandlerRuns
<1>6. CASE WriteHead \/ Drained
  BY <1>6 DEF WriteHead, Drained, HandlerTypes, records
<1>7. CASE ClientCloses
  <2>1. connected' = FALSE /\ leftMidStream' \in BOOLEAN
    BY <1>7 DEF ClientCloses
  <2>2. CASE Reaction
    BY <1>4, <2>1, <2>2
  <2>3. CASE ~Reaction
    <3>1. /\ failure' \in {failure, "closed"}
          /\ UNCHANGED <<headersSent, sent, tail, jsonCode, ended, appTimer, attached, records>>
      BY <1>7, <2>3 DEF ClientCloses
    <3>2. failure' \in Codes \cup {"none", "closed"}
      BY <3>1 DEF HandlerTypes
    <3>3. QED
      BY <2>1, <3>1, <3>2, Zenon DEF HandlerTypes, records
  <2>4. QED
    BY <2>2, <2>3
<1>8. CASE AppTimerFires \/ SessionTimerFires \/ AcquisitionRefused \/ UpstreamDelivers
  BY <1>4, <1>8 DEF AppTimerFires, SessionTimerFires, AcquisitionRefused, UpstreamDelivers,
     HandlerTypes
<1>9. QED
  BY <1>2, <1>5, <1>6, <1>7, <1>8 DEF RequestNext

(* Every variable of the composition keeps its type: the error a JSON answer or a failed
   drain carries is always one of the execution codes. *)
THEOREM RequestTypeCorrect == RequestSpec => []RequestTypeOK
<1>1. RequestInit => HandlerTypes
  <2>1. RequestInit => sent \in Nat
    BY DEF RequestInit
  <2>2. QED
    BY <2>1, TailNames, Zenon DEF RequestInit, HandlerTypes
<1>2. RInv /\ HandlerTypes /\ [RequestNext]_allVars => HandlerTypes'
  BY HandlerTypesStep
<1>3. RInv /\ HandlerTypes => RequestTypeOK
  BY DEF RInv, IInv, StageInv, Streaming, HandlerTypes, Tails, RequestTypeOK
<1>4. QED
  BY <1>1, <1>2, <1>3, RequestInduction, PTL DEF RequestSpec
==============================================================================
