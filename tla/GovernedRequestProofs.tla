------------------------ MODULE GovernedRequestProofs ------------------------
(***************************************************************************)
(* Proofs about GovernedRequest: its invariants, and that it implements    *)
(* GovernedCall.                                                           *)
(*                                                                         *)
(* None of the properties is inductive by itself: they speak of a finished *)
(* request, and hold because of what is still untouched before.  IInv says *)
(* what each stage of the handler has and has not done yet.                *)
(***************************************************************************)
EXTENDS GovernedRequest, TLAPS

(* No record was made and nothing was answered. *)
Unrecorded == /\ answer = 0 /\ traceStatus = 0
              /\ usageRecords = <<>>
              /\ health = "none"
              /\ eventType = "none"

Starting == /\ signal = "idle"
            /\ ~listening /\ ~appTimer /\ ~attached
            /\ credential = "none"
            /\ transport = "idle"
            /\ result = NoResult
            /\ Unrecorded

Executing == /\ signal = "idle"
             /\ listening
             /\ transport = "pending"
             /\ result = NoResult
             /\ Unrecorded

(* The records of a finished request all follow from its result. *)
Recorded == /\ result # NoResult
            /\ answer = result.status
            /\ traceStatus = result.status
            /\ Len(usageRecords) = IF result.state = "completed" THEN 1 ELSE 0
            /\ health = IF result.state = "completed" THEN "success" ELSE "failure"
            /\ eventType = EventOf(result.state)

Finished == /\ Recorded
            /\ NothingLeftBehind
            /\ signal # "idle" => result = Rejected(signal)
            /\ result.state = "completed" => transport = "settled"

IInv == /\ TypeOK
        /\ handler = "starting" => Starting
        /\ handler = "executing" => Executing
        /\ handler = "finished" => Finished

(* What the results of the executor have in common: a completed call has status 200, and
   nothing that ended has status 0. *)
LEMMA ResultFacts ==
    /\ \A code \in RejectionCodes : Rejected(code) \in Results \ {NoResult}
    /\ \A r \in RejectedWithStatus \cup UnusableResults : r \in Results \ {NoResult}
    /\ \A form \in PayloadForms : Completed(form) \in Results \ {NoResult}
    /\ \A r \in Results \ {NoResult} :
          /\ r.state \in States
          /\ r.state = "completed" => r.status = 200
          /\ r.status # 0 /\ r.status \in Statuses
          /\ r.state = "completed" => /\ r.attempts = 1
                                      /\ r.tokens \in {"counted", "unknown"}
    /\ Rejected("timeout").status = 504 /\ Rejected("timeout").state = "timed_out"
    /\ Rejected("cancelled").status = 499 /\ Rejected("cancelled").state = "cancelled"
<1>1. /\ \A code \in RejectionCodes : Rejected(code) \in Results
      /\ \A r \in RejectedWithStatus \cup UnusableResults : r \in Results
      /\ \A form \in PayloadForms : Completed(form) \in Results
  BY DEF Results
<1>2. \A code \in RejectionCodes : Rejected(code).state \in States \ {"completed"}
                                   /\ Rejected(code).status \in {413, 499, 502, 504}
  BY DEF RejectionCodes, Rejected, Failed, Error, States
<1>3. \A r \in RejectedWithStatus \cup UnusableResults :
          r.state = "failed" /\ r.status \in 100 .. 599
  BY DEF RejectedWithStatus, UnusableResults, OwnStatuses, Failed, Error
<1>4. \A form \in PayloadForms : /\ Completed(form).state = "completed"
                                 /\ Completed(form).status = 200
                                 /\ Completed(form).attempts = 1
                                 /\ Completed(form).tokens \in {"counted", "unknown"}
  BY DEF PayloadForms, Completed, TokensOf
<1>5. ASSUME NEW c \in Checks
      PROVE  Refused(c).state = "failed" /\ Refused(c).status \in {500, 403, 503}
  <2>1. CheckError[c].status \in {500, 403, 503}
    BY DEF Checks, CheckOrder, CheckError
  <2>2. QED
    BY <2>1 DEF Refused, Error
<1>6. \A r \in Results \ {NoResult} :
          /\ r.state \in States
          /\ r.state = "completed" => r.status = 200
          /\ r.status # 0 /\ r.status \in Statuses
          /\ r.state = "completed" => /\ r.attempts = 1
                                      /\ r.tokens \in {"counted", "unknown"}
  BY <1>2, <1>3, <1>4, <1>5 DEF Results, Statuses, States
<1>7. NoResult.state = "none"
  BY DEF NoResult
<1>8. /\ \A code \in RejectionCodes : Rejected(code) # NoResult
      /\ \A r \in RejectedWithStatus \cup UnusableResults : r # NoResult
      /\ \A form \in PayloadForms : Completed(form) # NoResult
  BY <1>2, <1>3, <1>4, <1>7 DEF States
<1>9. /\ Rejected("timeout").status = 504 /\ Rejected("timeout").state = "timed_out"
      /\ Rejected("cancelled").status = 499 /\ Rejected("cancelled").state = "cancelled"
  BY DEF Rejected, Error
<1>10. QED
  BY <1>1, <1>6, <1>8, <1>9

(* A request with a failing check is refused by its first one. *)
LEMMA RefusalFacts ==
    ASSUME request.failing \subseteq Checks, request.failing # {}
    PROVE  RefusedResult \in Results \ {NoResult} /\ RefusedResult.state = "failed"
           /\ RefusedResult.attempts = 0
<1> DEFINE P(i) == i \in DOMAIN CheckOrder /\ CheckOrder[i] \in request.failing
<1>1. DOMAIN CheckOrder = 1 .. 6
  BY DEF CheckOrder
<1>2. \E i \in 1 .. 6 : P(i)
  BY <1>1 DEF Checks
<1>3. \E i \in 1 .. 6 : P(i) /\ \A j \in 1 .. i - 1 : ~P(j)
  <2>1. CASE P(1) BY <2>1
  <2>2. CASE ~P(1) /\ P(2) BY <2>2
  <2>3. CASE ~P(1) /\ ~P(2) /\ P(3) BY <2>3
  <2>4. CASE ~P(1) /\ ~P(2) /\ ~P(3) /\ P(4) BY <2>4
  <2>5. CASE ~P(1) /\ ~P(2) /\ ~P(3) /\ ~P(4) /\ P(5) BY <2>5
  <2>6. CASE ~P(1) /\ ~P(2) /\ ~P(3) /\ ~P(4) /\ ~P(5) /\ P(6) BY <2>6
  <2>7. QED
    BY <1>2, <2>1, <2>2, <2>3, <2>4, <2>5, <2>6
<1>4. \E i \in DOMAIN CheckOrder :
          /\ CheckOrder[i] \in request.failing
          /\ \A j \in 1 .. i - 1 : CheckOrder[j] \notin request.failing
  BY <1>1, <1>3
<1>5. Decisive \in DOMAIN CheckOrder
  BY <1>4 DEF Decisive
<1>6. CheckOrder[Decisive] \in Checks
  BY <1>5 DEF Checks
<1>7. RefusedResult \in Results
  BY <1>6 DEF RefusedResult, Results
<1>8. RefusedResult.state = "failed" /\ RefusedResult.attempts = 0
  BY DEF RefusedResult, Refused, Error
<1>9. NoResult.state = "none"
  BY DEF NoResult
<1>10. QED
  BY <1>7, <1>8, <1>9

(* The records are made once, from the result, when the handler is woken. *)
LEMMA RespondFacts ==
    ASSUME Unrecorded, Respond, result' \in Results \ {NoResult}
    PROVE  /\ handler' = "finished" /\ ~appTimer' /\ ~attached'
           /\ Recorded'
           /\ usageRecords' \in Seq({"counted", "unknown"})
           /\ answer' \in Statuses /\ traceStatus' \in Statuses
           /\ health' \in {"success", "failure"}
           /\ eventType' \in {"execution-completed", "execution-failed",
                              "execution-cancelled", "execution-timed-out"}
<1>1. /\ result'.state \in States
      /\ result'.status \in Statuses
      /\ result'.state = "completed" => result'.tokens \in {"counted", "unknown"}
  BY ResultFacts
<1>2. /\ usageRecords' \in Seq({"counted", "unknown"})
      /\ Len(usageRecords') = IF result'.state = "completed" THEN 1 ELSE 0
  <2>1. CASE result'.state = "completed"
    BY <1>1, <2>1 DEF Respond, Unrecorded
  <2>2. CASE result'.state # "completed"
    BY <2>2 DEF Respond, Unrecorded
  <2>3. QED
    BY <2>1, <2>2
<1>3. eventType' \in {"execution-completed", "execution-failed",
                      "execution-cancelled", "execution-timed-out"}
  BY DEF Respond, EventOf
<1>4. Recorded'
  BY <1>2 DEF Recorded, Respond, EventOf
<1>5. QED
  BY <1>1, <1>2, <1>3, <1>4 DEF Respond

(* Nothing has happened before the handler runs. *)
LEMMA InitIInv == Init => IInv
<1> SUFFICES ASSUME Init PROVE IInv
  OBVIOUS
<1>1. NoResult \in Results /\ 0 \in Statuses
  <2>1. NoResult \in Results
    BY DEF Results
  <2>2. NoResult.status = 0
    BY DEF NoResult
  <2>3. QED
    BY <2>1, <2>2 DEF Statuses
<1>2. <<>> \in Seq({"counted", "unknown"})
  OBVIOUS
<1>3. TypeOK
  BY <1>1, <1>2 DEF Init, TypeOK
<1>4. QED
  BY <1>3 DEF Init, IInv, Starting, Unrecorded

(* A race decided while the request executes, with the response that follows. *)
LEMMA RaceIInv ==
    ASSUME IInv, Executing, NEW r \in Results \ {NoResult}, RaceEnds(r), Respond,
           request' = request, connected' \in BOOLEAN,
           signal' \in {"idle", "timeout", "cancelled"},
           signal' # "idle" => r = Rejected(signal'),
           transport' \in {"pending", "settled"},
           r.state = "completed" => transport' = "settled"
    PROVE  IInv'
<1>1. result' = r /\ ~listening' /\ credential' # "live"
  BY DEF RaceEnds
<1>2. credential' \in {"none", "live", "destroyed"}
  BY DEF RaceEnds, IInv, TypeOK
<1>3. /\ handler' = "finished" /\ ~appTimer' /\ ~attached'
      /\ Recorded'
      /\ usageRecords' \in Seq({"counted", "unknown"})
      /\ answer' \in Statuses /\ traceStatus' \in Statuses
      /\ health' \in {"success", "failure"}
      /\ eventType' \in {"execution-completed", "execution-failed",
                         "execution-cancelled", "execution-timed-out"}
  BY <1>1, RespondFacts DEF Executing
<1>4. Finished'
  BY <1>1, <1>3 DEF Finished, NothingLeftBehind
<1>5. TypeOK'
  <2>1. /\ listening' \in BOOLEAN /\ appTimer' \in BOOLEAN /\ attached' \in BOOLEAN
        /\ request' \in [failing : SUBSET Checks, credential : BOOLEAN]
    BY <1>3 DEF RaceEnds, Respond, IInv, TypeOK
  <2>2. QED
    BY <1>1, <1>2, <1>3, <2>1 DEF TypeOK
<1>6. QED
  BY <1>3, <1>4, <1>5 DEF IInv

(* An abort can only reach a request that executes. *)
LEMMA AbortIInv ==
    ASSUME IInv, Executing, NEW reason \in {"timeout", "cancelled"}, Abort(reason),
           connected' \in BOOLEAN
    PROVE  IInv'
<1>1. Rejected(reason) \in Results \ {NoResult} /\ Rejected(reason).state # "completed"
  BY ResultFacts DEF RejectionCodes
<1>2. transport' = "pending" /\ signal' = reason /\ request' = request
  BY DEF Abort, Executing
<1>3. QED
  BY <1>1, <1>2, RaceIInv DEF Abort

(* IInv is inductive. *)
LEMMA NextIInv == IInv /\ [Next]_vars => IInv'
<1> SUFFICES ASSUME IInv, [Next]_vars PROVE IInv'
  OBVIOUS
<1> USE DEF IInv
<1>1. CASE StartRefused
  <2>1. Starting /\ request.failing # {} /\ request.failing \subseteq Checks
    BY <1>1 DEF StartRefused, Refuse, TypeOK
  <2>2. result' = RefusedResult /\ RefusedResult \in Results \ {NoResult}
        /\ RefusedResult.state = "failed"
    BY <1>1, <2>1, RefusalFacts DEF StartRefused, Refuse
  <2>3. /\ ~listening' /\ signal' = "idle" /\ credential' \in {"none", "destroyed"}
        /\ request' = request /\ connected' = connected /\ transport' = "idle"
    BY <1>1, <2>1 DEF StartRefused, Refuse, Starting
  <2>4. /\ handler' = "finished" /\ ~appTimer' /\ ~attached'
        /\ Recorded'
        /\ usageRecords' \in Seq({"counted", "unknown"})
        /\ answer' \in Statuses /\ traceStatus' \in Statuses
        /\ health' \in {"success", "failure"}
        /\ eventType' \in {"execution-completed", "execution-failed",
                           "execution-cancelled", "execution-timed-out"}
    BY <1>1, <2>1, <2>2, RespondFacts DEF StartRefused, Starting
  <2>5. Finished'
    BY <2>2, <2>3, <2>4 DEF Finished, NothingLeftBehind
  <2>6. TypeOK'
    <3>1. /\ listening' \in BOOLEAN /\ appTimer' \in BOOLEAN /\ attached' \in BOOLEAN
          /\ connected' \in BOOLEAN
          /\ request' \in [failing : SUBSET Checks, credential : BOOLEAN]
      BY <1>1 DEF StartRefused, Refuse, Respond, TypeOK
    <3>2. /\ signal' \in {"idle", "timeout", "cancelled"}
          /\ transport' \in {"idle", "pending", "settled"}
          /\ credential' \in {"none", "live", "destroyed"}
          /\ result' \in Results
      BY <2>2, <2>3
    <3>3. QED
      BY <2>4, <3>1, <3>2 DEF TypeOK
  <2>7. QED
    BY <2>4, <2>5, <2>6
<1>2. CASE StartExecuting
  <2>1. Starting
    BY <1>2 DEF StartExecuting
  <2>2. Executing' /\ handler' = "executing"
    BY <1>2, <2>1 DEF StartExecuting, Invoke, Starting, Executing, Unrecorded
  <2>3. TypeOK'
    BY <1>2 DEF StartExecuting, Invoke, TypeOK
  <2>4. QED
    BY <2>2, <2>3
<1>3. CASE TransportAnswers
  <2>1. handler # "starting" /\ handler # "finished"
    BY <1>3 DEF TransportAnswers, Starting, Finished, NothingLeftBehind
  <2>2. Executing /\ connected' \in BOOLEAN
    BY <1>3, <2>1 DEF TransportAnswers, TypeOK
  <2>3. PICK r \in Results \ {NoResult} : RaceEnds(r)
    BY <1>3, ResultFacts DEF TransportAnswers
  <2>4. /\ Respond /\ request' = request /\ signal' = "idle"
        /\ transport' = "settled"
    BY <1>3, <2>2 DEF TransportAnswers, Executing
  <2>5. QED
    BY <2>2, <2>3, <2>4, RaceIInv
<1>4. CASE TransportTooLate
  <2>1. handler = "finished" => Finished'
    BY <1>4 DEF TransportTooLate, handlerVars, Finished, Recorded, NothingLeftBehind
  <2>2. handler = "finished" /\ handler' = handler
    BY <1>4 DEF TransportTooLate, handlerVars, Starting, Executing, TypeOK
  <2>3. TypeOK'
    BY <1>4 DEF TransportTooLate, handlerVars, TypeOK
  <2>4. QED
    BY <2>1, <2>2, <2>3
<1>5. CASE AppTimerFires
  <2>1. handler # "starting" /\ handler # "finished"
    BY <1>5 DEF AppTimerFires, Starting, Finished, NothingLeftBehind
  <2>2. Executing /\ connected' \in BOOLEAN
    BY <1>5, <2>1 DEF AppTimerFires, TypeOK
  <2>3. QED
    BY <1>5, <2>2, AbortIInv DEF AppTimerFires
<1>6. CASE ClientCloses
  <2>1. CASE attached
    <3>1. handler # "starting" /\ handler # "finished"
      BY <2>1 DEF Starting, Finished, NothingLeftBehind
    <3>2. Executing /\ connected' \in BOOLEAN
      BY <1>6, <3>1 DEF ClientCloses, TypeOK
    <3>3. QED
      BY <1>6, <2>1, <3>2, AbortIInv DEF ClientCloses
  <2>2. CASE ~attached
    <3>1. UNCHANGED <<request, signal, executorVars, handlerVars>> /\ connected' = FALSE
      BY <1>6, <2>2 DEF ClientCloses
    <3>2. TypeOK'
      <4>1. /\ listening' \in BOOLEAN /\ connected' \in BOOLEAN
            /\ appTimer' \in BOOLEAN /\ attached' \in BOOLEAN
        BY <3>1 DEF TypeOK, executorVars, handlerVars
      <4>2. QED
        BY <3>1, <4>1 DEF TypeOK, executorVars, handlerVars
    <3>3. QED
      BY <3>1, <3>2 DEF executorVars, handlerVars, Starting, Executing, Finished,
                        Recorded, NothingLeftBehind, Unrecorded
  <2>3. QED
    BY <2>1, <2>2
<1>7. CASE UNCHANGED vars
  BY <1>7 DEF vars, executorVars, handlerVars, TypeOK, Starting, Executing, Finished,
              Recorded, NothingLeftBehind, Unrecorded
<1>8. QED
  BY <1>1, <1>2, <1>3, <1>4, <1>5, <1>6, <1>7 DEF Next

(* IInv holds of every behaviour. *)
THEOREM Inductive == Spec => []IInv
BY InitIInv, NextIInv, PTL DEF Spec

(* The variables keep their types. *)
THEOREM TypeCorrect == Spec => []TypeOK
<1>1. IInv => TypeOK
  BY DEF IInv
<1>2. QED
  BY Inductive, <1>1, PTL

(* Only a request that completed, after one invocation and without an abort, is
   charged and counts for its provider's health. *)
THEOREM ChargedOnlyForSuccess == Spec => []OnlySuccessIsCharged
<1>1. IInv => OnlySuccessIsCharged
  <2> SUFFICES ASSUME IInv PROVE OnlySuccessIsCharged
    OBVIOUS
  <2>1. CASE handler # "finished"
    <3>1. Unrecorded /\ result.state = "none"
      BY <2>1 DEF IInv, TypeOK, Starting, Executing, NoResult
    <3>2. QED
      BY <3>1 DEF Unrecorded, OnlySuccessIsCharged
  <2>2. CASE handler = "finished"
    <3>1. Finished /\ result \in Results \ {NoResult} /\ signal \in {"idle", "timeout", "cancelled"}
      BY <2>2 DEF IInv, TypeOK, Finished, Recorded
    <3>2. eventType = "execution-completed" <=> result.state = "completed"
      BY <3>1 DEF Finished, Recorded, EventOf
    <3>3. result.state = "completed" =>
              answer = 200 /\ signal = "idle" /\ transport = "settled" /\ result.attempts = 1
      BY <3>1, ResultFacts DEF Finished, Recorded
    <3>4. QED
      BY <3>1, <3>2, <3>3 DEF Finished, Recorded, OnlySuccessIsCharged
  <2>3. QED
    BY <2>1, <2>2
<1>2. QED
  BY Inductive, <1>1, PTL

(* The answer, the trace and the event agree, and an abort decides all three. *)
THEOREM VerdictsAgree == Spec => []VerdictFollowsSignal
<1>1. IInv => VerdictFollowsSignal
  <2> SUFFICES ASSUME IInv, handler = "finished"
               PROVE  /\ signal = "timeout" => answer = 504 /\ eventType = "execution-timed-out"
                      /\ signal = "cancelled" => answer = 499 /\ eventType = "execution-cancelled"
                      /\ traceStatus = answer
                      /\ answer # 0
    BY DEF VerdictFollowsSignal
  <2>1. Finished /\ result \in Results \ {NoResult}
    BY DEF IInv, TypeOK, Finished, Recorded
  <2>2. QED
    BY <2>1, ResultFacts DEF Finished, Recorded, EventOf
<1>2. QED
  BY Inductive, <1>1, PTL

(* A finished request holds no timer, no listener and no live credential. *)
THEOREM Cleanup == Spec => []NothingLeftBehind
<1>1. IInv => NothingLeftBehind
  BY DEF IInv, Finished, NothingLeftBehind
<1>2. QED
  BY Inductive, <1>1, PTL

(* A decided race, with the response that follows it, settles the abstract call. *)
LEMMA RaceSettles ==
    ASSUME IInv, Executing, NEW r \in Results \ {NoResult}, r.attempts = 1,
           RaceEnds(r), Respond
    PROVE  [Call!Next]_Call!vars
<1>1. handler = "executing" /\ handler' = "finished"
  BY DEF Executing, Starting, IInv, TypeOK, Finished, Recorded, Respond
<1>2. result' = r /\ r.state \in States
  BY ResultFacts DEF RaceEnds
<1>3. Call!Settle(r.state)
  BY <1>1, <1>2 DEF Call!Settle, RaceEnds
<1>4. QED
  BY <1>2, <1>3 DEF Call!Next, Call!SettleSomehow

(* A result that is no refusal comes from exactly one invocation. *)
LEMMA RaceAttempts ==
    /\ \A code \in RejectionCodes : Rejected(code).attempts = 1
    /\ \A r \in RejectedWithStatus \cup UnusableResults : r.attempts = 1
    /\ \A form \in PayloadForms : Completed(form).attempts = 1
BY DEF RejectionCodes, Rejected, Failed, Error, RejectedWithStatus, UnusableResults,
       PayloadForms, Completed

(* Every step of the request is a step of the abstract call, or none of its steps. *)
LEMMA NextRefines == IInv /\ [Next]_vars => [Call!Next]_Call!vars
<1> SUFFICES ASSUME IInv, [Next]_vars PROVE [Call!Next]_Call!vars
  OBVIOUS
<1>1. CASE StartRefused
  <2>1. /\ Starting /\ request.failing # {} /\ request.failing \subseteq Checks
        /\ handler = "starting" /\ handler' = "finished"
    BY <1>1 DEF StartRefused, Refuse, Respond, TypeOK, IInv
  <2>2. result' = RefusedResult /\ result'.attempts = 0
    BY <1>1, <2>1, RefusalFacts DEF StartRefused, Refuse
  <2>3. credential' \in {"none", "destroyed"}
    BY <1>1 DEF StartRefused, Refuse
  <2>4. Call!Refuse
    BY <2>1, <2>2, <2>3 DEF Call!Refuse
  <2>5. QED
    BY <2>4 DEF Call!Next
<1>2. CASE StartExecuting
  <2>1. /\ Starting /\ handler = "starting" /\ handler' = "executing"
        /\ credential' \in {"none", "live"}
    BY <1>2 DEF StartExecuting, Invoke, IInv
  <2>2. Call!Begin
    BY <2>1 DEF Call!Begin
  <2>3. QED
    BY <2>2 DEF Call!Next
<1>3. ASSUME handler # "starting", listening \/ attached \/ appTimer
      PROVE  Executing
  BY <1>3 DEF IInv, TypeOK, Finished, NothingLeftBehind
<1>4. CASE TransportAnswers
  <2>1. Executing
    BY <1>3, <1>4 DEF TransportAnswers, IInv, Starting
  <2>2. PICK r \in Results \ {NoResult} : RaceEnds(r) /\ r.attempts = 1
    BY <1>4, ResultFacts, RaceAttempts DEF TransportAnswers
  <2>3. QED
    BY <1>4, <2>1, <2>2, RaceSettles DEF TransportAnswers
<1>5. ASSUME NEW reason \in {"timeout", "cancelled"}, Abort(reason), Executing
      PROVE  [Call!Next]_Call!vars
  <2>1. Rejected(reason) \in Results \ {NoResult} /\ Rejected(reason).attempts = 1
    BY ResultFacts, RaceAttempts DEF RejectionCodes
  <2>2. QED
    BY <1>5, <2>1, RaceSettles DEF Abort
<1>6. CASE AppTimerFires
  <2>1. Executing
    BY <1>3, <1>6 DEF AppTimerFires, IInv, Starting
  <2>2. QED
    BY <1>5, <1>6, <2>1 DEF AppTimerFires
<1>7. CASE ClientCloses
  <2>1. CASE attached
    BY <1>3, <1>5, <1>7, <2>1 DEF ClientCloses
  <2>2. CASE ~attached
    BY <1>7, <2>2 DEF ClientCloses, executorVars, handlerVars, Call!vars
  <2>3. QED
    BY <2>1, <2>2
<1>8. CASE TransportTooLate
  BY <1>8 DEF TransportTooLate, handlerVars, Call!vars
<1>9. CASE UNCHANGED vars
  BY <1>9 DEF vars, executorVars, handlerVars, Call!vars
<1>10. QED
  BY <1>1, <1>2, <1>4, <1>6, <1>7, <1>8, <1>9 DEF Next

(* The request implements the safety part of GovernedCall. *)
THEOREM Refinement == Spec => Call!Spec
<1>1. Init => Call!Init
  BY DEF Init, Call!Init
<1>2. QED
  BY <1>1, Inductive, NextRefines, PTL DEF Spec, Call!Spec
=============================================================================
