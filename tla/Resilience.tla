----------------------------- MODULE Resilience -----------------------------
(***************************************************************************)
(* The planning of retries, delays, fallbacks and the circuit breaker for  *)
(* one request: simulateGatewayResilience (gateway/resilience/simulation.js) *)
(* with everything it calls.                                               *)
(*                                                                         *)
(* The caller supplies the route decision, the policies and the outcomes.  *)
(* Each turn of the loop takes one outcome: a success ends the simulation, *)
(* a failure is classified and then retried, answered by a fallback or     *)
(* given up.  Time is planned, not spent: elapsed is the sum of the delays *)
(* of the retries.                                                         *)
(*                                                                         *)
(* Policies are the normalized ones (ResiliencePolicies).  An error code stands for the         *)
(* category it is classified as, and a category is retryable by policy if  *)
(* both lists of the policy allow it.  An outcome reports on the current   *)
(* route.  Abstracted: the records of the timeline, the advice of the      *)
(* rate-limit and quota planners, fractions of a millisecond.              *)
(***************************************************************************)
EXTENDS Integers, Sequences, FiniteSets

CONSTANTS
    Routes,       \* records with a provider and a model
    Plans,        \* route decisions: the selected route and its fallback chain
    Policies,     \* retry, timeout and circuit breaker policies
    RetryAfters,  \* the retry-after delays a provider may ask for
    MaxOutcomes,  \* bound: outcomes the caller supplies
    MaxPlanned    \* bound: the longest delay that is planned

Never == -1        \* no retry-after was reported, no time the circuit was opened at

(* A fallback chain as the router plans it: other routes, each once. *)
ASSUME PlansAssumption ==
    \A p \in Plans : /\ p.route \in Routes
                     /\ p.chain \in Seq(Routes)
                     /\ \A i \in DOMAIN p.chain : p.chain[i] # p.route
                     /\ \A i, j \in DOMAIN p.chain : p.chain[i] = p.chain[j] => i = j

ASSUME PoliciesAssumption ==
    \A p \in Policies : /\ p.max_attempts \in 1 .. 10
                        /\ p.total_operation_timeout \in Nat
                        /\ p.failure_threshold \in Nat \ {0}
                        /\ p.success_threshold \in Nat \ {0}
                        /\ p.open_duration \in Nat

ASSUME NumbersAssumption ==
    RetryAfters \subseteq Nat /\ MaxOutcomes \in Nat /\ MaxPlanned \in Nat

VARIABLES
    plan,
    policy,
    outcomesLeft,      \* outcomes the caller supplied that are not consumed
    status,            \* "running" or the final status
    currentRoute,
    attempts,          \* number of planned attempts
    failure,           \* the category of the last failure, "none" before
    retryEligible,     \* what the last retry decision said
    attemptHistory,    \* the retries that were planned
    transitionHistory, \* the routes of the fallbacks that were planned
    elapsed,
    circuit

inputs    == <<plan, policy>>
decisions == <<failure, retryEligible, attemptHistory, transitionHistory, currentRoute,
               elapsed>>
vars      == <<inputs, outcomesLeft, status, attempts, circuit, decisions>>

(* --------------------------- classification ---------------------------- *)

RetryableCategories == {"rate-limit", "timeout", "upstream-timeout", "transient-upstream",
                        "provider-unavailable", "stream"}
FallbackCategories  == RetryableCategories
                       \cup {"quota", "context-limit", "unsupported-capability", "internal"}
NeverRetried        == {"policy-denied", "invalid-request", "authentication", "configuration"}
Categories          == FallbackCategories \cup NeverRetried

FinalStatus(category) ==
    CASE category = "policy-denied"                                  -> "denied"
      [] category \in {"authentication", "configuration", "quota"}   -> "user-action-required"
      [] OTHER                                                       -> "exhausted"

FinalStatuses == {"planned-success", "exhausted", "denied", "user-action-required",
                  "invalid-simulation"}

(* ------------------------------- delays -------------------------------- *)

Capped(delay) ==
    LET below(d, cap) == IF cap > 0 /\ cap < d THEN cap ELSE d
    IN  below(below(delay, policy.max_delay), policy.max_total_delay)

Calculated(attempt, retryAfter) ==
    IF policy.respect_retry_after /\ retryAfter # Never THEN retryAfter
    ELSE CASE policy.backoff = "none"   -> 0
           [] policy.backoff \in {"fixed", "retry-after"} -> policy.base_delay
           [] policy.backoff = "linear" -> policy.base_delay * attempt
           [] policy.backoff \in {"exponential", "bounded-exponential"} ->
                  policy.base_delay * policy.multiplier ^ (attempt - 1)

(* The jitter is a hash of a seed: any change of up to a tenth, rounded. *)
Jittered(delay) ==
    IF policy.jitter THEN {d \in 0 .. 2 * delay : /\ 9 * delay <= 10 * d + 5
                                                  /\ 10 * d - 5 <= 11 * delay}
                     ELSE {delay}

PlannedDelays(attempt, retryAfter) ==
    {d \in 0 .. MaxPlanned :
        \E j \in Jittered(Capped(Calculated(attempt, retryAfter))) : d = Capped(j)}

(* ------------------------------ decisions ------------------------------ *)

RetriesAt(field, value) ==
    Cardinality({i \in DOMAIN attemptHistory : attemptHistory[i][field] = value})

(* evaluateRetryEligibility.  The total delay matters only where it is zero. *)
Eligible(category) ==
    /\ policy.enabled
    /\ category \in RetryableCategories \cap policy.retryable
    /\ category \notin NeverRetried
    /\ category = "timeout" => policy.retry_on_timeout
    /\ category = "rate-limit" => policy.retry_on_rate_limit
    /\ Len(attemptHistory) + 1 <= policy.max_attempts
    /\ policy.max_total_delay = 0 => policy.backoff = "none"
    /\ RetriesAt("provider", currentRoute.provider) < policy.same_provider_retry_limit
    /\ RetriesAt("model", currentRoute.model) < policy.same_model_retry_limit

(* planTimeoutBudget: what is left of the operation after the delay. *)
RetryPossible(delay) ==
    policy.timeout_retryable /\ policy.total_operation_timeout - elapsed - delay > 0

(* planFallbackTransition skips the current route and those that were used. *)
Untried == {i \in DOMAIN plan.chain :
               /\ plan.chain[i] # currentRoute
               /\ \A j \in DOMAIN transitionHistory : plan.chain[i] # transitionHistory[j]}

(* Mutant of MayFallBack: the limit is one too low. *)
MayFallBackButOne(category) ==
    /\ category \in FallbackCategories
    /\ ~Eligible(category)
    /\ Len(transitionHistory) + 1 < Len(plan.chain)
    /\ Untried # {}

MayFallBack(category) ==
    /\ category \in FallbackCategories
    /\ ~Eligible(category)
    /\ Len(transitionHistory) < Len(plan.chain)
    /\ Untried # {}

(* --------------------------- circuit breaker --------------------------- *)

NewCircuit == [state |-> "closed", failures |-> 0, successes |-> 0, openedAt |-> Never]

(* An open circuit takes no event before its time; the first one after it finds the
   circuit half-open and counts. *)
Blocked(now) == circuit.state = "open" /\ now < circuit.openedAt + policy.open_duration
Awakened     == IF circuit.state = "open" THEN "half-open" ELSE circuit.state

(* Mutant of AfterSuccess: a circuit that closes keeps the time it was opened at. *)
AfterSuccessKeepsTime ==
    LET closes == /\ Awakened = "half-open"
                  /\ circuit.successes + 1 >= policy.success_threshold
    IN  [state     |-> IF closes THEN "closed" ELSE Awakened,
         failures  |-> 0,
         successes |-> circuit.successes + 1,
         openedAt  |-> circuit.openedAt]

AfterSuccess ==
    LET closes == /\ Awakened = "half-open"
                  /\ circuit.successes + 1 >= policy.success_threshold
    IN  [state     |-> IF closes THEN "closed" ELSE Awakened,
         failures  |-> 0,
         successes |-> circuit.successes + 1,
         openedAt  |-> IF closes THEN Never ELSE circuit.openedAt]

AfterFailure(category, now) ==
    LET opens == \/ Awakened = "half-open"
                 \/ circuit.failures + 1 >= policy.failure_threshold
    IN  IF category \in policy.tracked
        THEN [state     |-> IF opens THEN "open" ELSE Awakened,
              failures  |-> circuit.failures + 1,
              successes |-> 0,
              openedAt  |-> IF opens THEN now ELSE circuit.openedAt]
        ELSE [circuit EXCEPT !.state = Awakened]

(* simulateCircuitBreakerTransition.  The simulation sends no "attempt" events. *)
Observe(after, now) ==
    circuit' = IF ~policy.circuit_enabled \/ Blocked(now) THEN circuit ELSE after

(* ------------------------------ the loop ------------------------------- *)

TypeOK ==
    /\ plan \in Plans
    /\ policy \in Policies
    /\ outcomesLeft \in 0 .. MaxOutcomes
    /\ status \in FinalStatuses \cup {"running"}
    /\ currentRoute \in Routes
    /\ attempts \in Nat
    /\ failure \in Categories \cup {"none"}
    /\ retryEligible \in BOOLEAN
    /\ attemptHistory \in Seq(Routes)
    /\ transitionHistory \in Seq(Routes)
    /\ elapsed \in Nat
    /\ circuit \in [state : {"closed", "open", "half-open"}, failures : Nat,
                    successes : Nat, openedAt : Nat \cup {Never}]

Init ==
    /\ plan \in Plans
    /\ policy \in Policies
    /\ outcomesLeft \in 0 .. MaxOutcomes
    /\ status = "running"
    /\ currentRoute = plan.route
    /\ attempts = 0
    /\ failure = "none"
    /\ retryEligible = FALSE
    /\ attemptHistory = <<>>
    /\ transitionHistory = <<>>
    /\ elapsed = 0
    /\ circuit = NewCircuit

(* The timestamp of the attempt that is about to be planned.  The start time is a
   common offset of all timestamps; it is 1, the default. *)
Timestamp == 1 + elapsed + attempts + 1

TakeOutcome ==
    /\ status = "running"
    /\ outcomesLeft > 0
    /\ outcomesLeft' = outcomesLeft - 1
    /\ attempts' = attempts + 1
    /\ UNCHANGED inputs

Succeed ==
    /\ TakeOutcome
    /\ status' = "planned-success"
    /\ Observe(AfterSuccess, Timestamp)
    /\ UNCHANGED decisions

Classify(category) ==
    /\ TakeOutcome
    /\ failure' = category
    /\ retryEligible' = Eligible(category)
    /\ Observe(AfterFailure(category, Timestamp), Timestamp)

Retry(category, delay) ==
    /\ Classify(category)
    /\ Eligible(category)
    /\ RetryPossible(delay)
    /\ attemptHistory' = Append(attemptHistory, currentRoute)
    /\ elapsed' = elapsed + delay
    /\ UNCHANGED <<status, transitionHistory, currentRoute>>

FallBack(category, delay) ==
    /\ Classify(category)
    /\ ~(Eligible(category) /\ RetryPossible(delay))
    /\ MayFallBack(category)
    /\ \E i \in Untried :
          /\ \A j \in Untried : i <= j
          /\ currentRoute' = plan.chain[i]
          /\ transitionHistory' = Append(transitionHistory, plan.chain[i])
    /\ UNCHANGED <<status, attemptHistory, elapsed>>

GiveUp(category, delay) ==
    /\ Classify(category)
    /\ ~(Eligible(category) /\ RetryPossible(delay))
    /\ ~MayFallBack(category)
    /\ status' = FinalStatus(category)
    /\ UNCHANGED <<attemptHistory, transitionHistory, currentRoute, elapsed>>

Fail == \E category \in Categories, retryAfter \in RetryAfters \cup {Never} :
            \E delay \in PlannedDelays(Len(attemptHistory) + 1, retryAfter) :
                \/ Retry(category, delay)
                \/ FallBack(category, delay)
                \/ GiveUp(category, delay)

(* Without any outcome the simulation is invalid; when they run out it is exhausted. *)
RunOut ==
    /\ status = "running"
    /\ outcomesLeft = 0
    /\ status' = IF attempts = 0 THEN "invalid-simulation" ELSE "exhausted"
    /\ UNCHANGED <<inputs, outcomesLeft, attempts, circuit, decisions>>

Next == Succeed \/ Fail \/ RunOut

Spec == Init /\ [][Next]_vars

(* ------------------------------ properties ----------------------------- *)

(* Whatever outcomes the caller supplies, a simulation plans a bounded number of
   attempts, and each of them was answered by one retry or one fallback, or ended it.
   The loop's own limit (maxSteps) grows with the outcomes and bounds nothing: what
   bounds the attempts are the decisions. *)
AttemptsAreBounded ==
    /\ attempts <= policy.max_attempts + Len(plan.chain) + 1
    /\ status = "running" => attempts = Len(attemptHistory) + Len(transitionHistory)

(* Retries never use up the time of the operation: as long as a retry was planned,
   time is left for the attempt it leads to. *)
RetriesLeaveTime ==
    attemptHistory # <<>> => elapsed < policy.total_operation_timeout

(* A fallback never returns to a route the request has left, so a simulation cannot
   go in circles through its chain. *)
RoutesAreFresh ==
    /\ \A i \in DOMAIN transitionHistory : transitionHistory[i] # plan.route
    /\ \A i, j \in DOMAIN transitionHistory :
          transitionHistory[i] = transitionHistory[j] => i = j

(* The breaker's state means what its counters say: closed is below the threshold and
   never opened, open and half-open know when they were opened, which was in the past,
   and half-open has not yet seen the successes that close it. *)
CircuitIsHonest ==
    /\ circuit.state = "closed" <=> circuit.openedAt = Never
    /\ circuit.state = "closed" => circuit.failures < policy.failure_threshold
    /\ circuit.openedAt <= 1 + elapsed + attempts
    /\ circuit.state = "half-open" => circuit.successes < policy.success_threshold

(* A failure that no retry and no other route can cure ends the simulation, whatever
   the retry policy lists as retryable. *)
FaultsEnd == failure \in NeverRetried => status # "running"

(* A simulation gives up on a failure that another route might cure only when it has
   tried the whole chain, or when the retry was eligible but out of time. *)
GivesUpHonestly ==
    /\ status \in {"exhausted", "user-action-required"}
    /\ outcomesLeft > 0
    /\ failure \in FallbackCategories
    /\ ~retryEligible
    => \A i \in DOMAIN plan.chain :
          \E j \in DOMAIN transitionHistory : plan.chain[i] = transitionHistory[j]

(* ----------------------- what a fixture says --------------------------- *)

(* tests/fixtures/gateway-resilience/delay-budget-exhausted/scenario.json: once the
   planned delays have used up max_total_delay_ms, a retry is not eligible.  The code
   compares the budget with the delays only where it is zero. *)
DelayBudgetHolds ==
    policy.max_total_delay > 0 => elapsed <= policy.max_total_delay
=============================================================================
