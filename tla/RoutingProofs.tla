--------------------------- MODULE RoutingProofs ---------------------------
(***************************************************************************)
(* Proofs about RoutePlanning and Resilience: how a route is selected with *)
(* a chain of fallbacks, for every registry, request and policy; and how   *)
(* retries and fallbacks use such a chain, for every set of plans,         *)
(* policies, retry-after delays and bounds.                                *)
(*                                                                         *)
(* RoutingIInv says what a ranking guarantees of its candidates and, for   *)
(* the two loops that make the chain, that what a loop has seen is in the  *)
(* chain, or of a provider that is there already: when the first loop runs *)
(* out of candidates every provider is used, so that the second one may    *)
(* repeat any of them.  That the ranking puts no unknown metric first      *)
(* rests on the scores: each is a sum of rounded shares that rises with    *)
(* each share, and of a weight the least known metric has the whole.       *)
(*                                                                         *)
(* IInv adds to the properties of Resilience what makes them inductive.    *)
(* The heart of it is InOrder: because the first untried route is always   *)
(* the next one, the fallbacks that were taken are a prefix of the chain.  *)
(* A route is then never taken twice, and as many fallbacks as the chain   *)
(* is long are the whole chain.                                            *)
(***************************************************************************)
EXTENDS Resilience, RoutePlanning, FiniteSetTheorems, SequenceTheorems, WellFoundedInduction, TLAPS

-----------------------------------------------------------------------------
(* Resilience.                                                             *)

(* The fallbacks that were taken are a prefix of the chain, and the current route is
   the selected one or the route of a fallback. *)
InOrder ==
    /\ Len(transitionHistory) <= Len(plan.chain)
    /\ \A j \in DOMAIN transitionHistory : transitionHistory[j] = plan.chain[j]
    /\ \/ currentRoute = plan.route
       \/ \E j \in DOMAIN transitionHistory : currentRoute = transitionHistory[j]

(* Each attempt but the last was answered by one retry or one fallback. *)
Accounted ==
    /\ Len(attemptHistory) <= policy.max_attempts
    /\ attempts <= Len(attemptHistory) + Len(transitionHistory) + 1
    /\ status = "running" => attempts = Len(attemptHistory) + Len(transitionHistory)

(* An open circuit has seen no success since it opened. *)
CircuitFacts == CircuitIsHonest /\ (circuit.state = "open" => circuit.successes = 0)

IInv == /\ TypeOK
        /\ InOrder
        /\ Accounted
        /\ RetriesLeaveTime
        /\ CircuitFacts
        /\ FaultsEnd
        /\ GivesUpHonestly

(* The invariant holds of a simulation that has not begun. *)
LEMMA InitIInv == Init => IInv
<1> SUFFICES ASSUME Init PROVE IInv
  OBVIOUS
<1>1. /\ plan.route \in Routes
      /\ plan.chain \in Seq(Routes)
      /\ policy.max_attempts \in 1 .. 10
      /\ policy.failure_threshold \in Nat \ {0}
  BY PlansAssumption, PoliciesAssumption DEF Init
<1>2. TypeOK
  <2>1. circuit \in [state : {"closed", "open", "half-open"}, failures : Nat,
                     successes : Nat, openedAt : Nat \cup {Never}]
    BY DEF Init, NewCircuit
  <2>2. attemptHistory \in Seq(Routes) /\ transitionHistory \in Seq(Routes)
    BY DEF Init
  <2>3. QED
    BY <1>1, <2>1, <2>2 DEF Init, TypeOK
<1>3. InOrder /\ Accounted
  BY <1>1 DEF Init, InOrder, Accounted
<1>4. CircuitFacts
  BY <1>1 DEF Init, CircuitFacts, CircuitIsHonest, NewCircuit, Never
<1>5. RetriesLeaveTime /\ FaultsEnd /\ GivesUpHonestly
  BY DEF Init, RetriesLeaveTime, FaultsEnd, NeverRetried, GivesUpHonestly
<1>6. QED
  BY <1>2, <1>3, <1>4, <1>5 DEF IInv

(* What the assumptions say about the plan and the policy of a state. *)
LEMMA InputFacts ==
    ASSUME TypeOK
    PROVE  /\ plan.route \in Routes
           /\ plan.chain \in Seq(Routes)
           /\ \A i \in DOMAIN plan.chain : plan.chain[i] # plan.route
           /\ \A i, j \in DOMAIN plan.chain : plan.chain[i] = plan.chain[j] => i = j
           /\ policy.max_attempts \in Nat
           /\ policy.total_operation_timeout \in Nat
           /\ policy.failure_threshold \in Nat \ {0}
           /\ policy.success_threshold \in Nat \ {0}
<1>1. plan \in Plans /\ policy \in Policies
  BY DEF TypeOK
<1>2. /\ plan.route \in Routes
      /\ plan.chain \in Seq(Routes)
      /\ \A i \in DOMAIN plan.chain : plan.chain[i] # plan.route
      /\ \A i, j \in DOMAIN plan.chain : plan.chain[i] = plan.chain[j] => i = j
  BY <1>1, PlansAssumption
<1>3. /\ policy.max_attempts \in 1 .. 10
      /\ policy.total_operation_timeout \in Nat
      /\ policy.failure_threshold \in Nat \ {0}
      /\ policy.success_threshold \in Nat \ {0}
  BY <1>1, PoliciesAssumption
<1>4. QED
  BY <1>2, <1>3

(* Whatever the breaker observes, its state stays honest: the timestamp of an attempt is
   never later than the time after it. *)
LEMMA ObserveKeepsFacts ==
    ASSUME TypeOK, CircuitFacts, UNCHANGED policy,
           NEW after \in {AfterSuccess} \cup {AfterFailure(c, Timestamp) : c \in Categories},
           Observe(after, Timestamp),
           attempts' = attempts + 1, elapsed' \in Nat, elapsed' >= elapsed
    PROVE  /\ CircuitFacts'
           /\ circuit' \in [state : {"closed", "open", "half-open"}, failures : Nat,
                            successes : Nat, openedAt : Nat \cup {Never}]
<1> DEFINE Honest(k) ==
        /\ k \in [state : {"closed", "open", "half-open"}, failures : Nat,
                  successes : Nat, openedAt : Nat \cup {Never}]
        /\ k.state = "closed" <=> k.openedAt = Never
        /\ k.state = "closed" => k.failures < policy.failure_threshold
        /\ k.openedAt <= Timestamp
        /\ k.state = "half-open" => k.successes < policy.success_threshold
        /\ k.state = "open" => k.successes = 0
<1>1. /\ policy.failure_threshold \in Nat \ {0}
      /\ policy.success_threshold \in Nat \ {0}
      /\ Timestamp \in Nat /\ Timestamp > 0
  BY InputFacts DEF Timestamp, TypeOK
<1>2. Honest(circuit)
  BY DEF CircuitFacts, CircuitIsHonest, TypeOK, Timestamp, Never
<1>3. ~Blocked(Timestamp) => Honest(AfterSuccess)
  BY <1>1, <1>2 DEF AfterSuccess, Awakened, Never
<1>4. ASSUME NEW c \in Categories
      PROVE  Honest(AfterFailure(c, Timestamp))
  <2>1. CASE c \in policy.tracked
    BY <1>1, <1>2, <2>1 DEF AfterFailure, Awakened, Never
  <2>2. CASE c \notin policy.tracked
    BY <1>1, <1>2, <2>2 DEF AfterFailure, Awakened, Never
  <2>3. QED
    BY <2>1, <2>2
<1>5. Honest(circuit')
  <2>1. CASE circuit' = circuit
    BY <1>2, <2>1
  <2>2. CASE circuit' = after /\ ~Blocked(Timestamp)
    BY <1>3, <1>4, <2>2
  <2>3. QED
    BY <2>1, <2>2 DEF Observe
<1>6. Timestamp <= 1 + elapsed' + attempts'
  <2>1. elapsed \in Nat /\ attempts \in Nat
    BY DEF TypeOK
  <2>2. ASSUME NEW e \in Nat, NEW f \in Nat, NEW a \in Nat, NEW b, b = a + 1, f >= e
        PROVE  1 + e + a + 1 <= 1 + f + b
    BY <2>2
  <2>3. QED
    BY <2>1, <2>2 DEF Timestamp
<1>7. circuit'.openedAt \in Int
  BY <1>5 DEF Never
<1>8. circuit'.openedAt <= 1 + elapsed' + attempts'
  <2>1. attempts' \in Nat /\ elapsed' \in Nat
    BY DEF TypeOK
  <2>2. circuit'.openedAt <= Timestamp
    BY <1>5
  <2>3. QED
    BY <1>1, <1>6, <1>7, <2>1, <2>2
<1>9. QED
  BY <1>5, <1>8 DEF CircuitFacts, CircuitIsHonest

(* The first untried route is the one after those that were taken. *)
LEMMA NextInOrder ==
    ASSUME TypeOK, InOrder, NEW i \in Untried, \A j \in Untried : i <= j,
           Len(transitionHistory) < Len(plan.chain)
    PROVE  i = Len(transitionHistory) + 1
<1> DEFINE n == Len(transitionHistory) + 1
<1>1. n \in DOMAIN plan.chain /\ i \in DOMAIN plan.chain
  BY InputFacts DEF TypeOK, Untried
<1>2. \A j \in DOMAIN transitionHistory : j \in DOMAIN plan.chain /\ j < n
  BY <1>1, InputFacts DEF TypeOK, InOrder
<1>3. \A j \in DOMAIN transitionHistory : plan.chain[n] # transitionHistory[j]
  BY <1>1, <1>2, InputFacts DEF InOrder
<1>4. plan.chain[n] # currentRoute
  BY <1>1, <1>3, InputFacts DEF InOrder
<1>5. n \in Untried
  BY <1>1, <1>3, <1>4 DEF Untried
<1>6. ~(i < n)
  <2>1. ASSUME i < n PROVE i \in DOMAIN transitionHistory
    BY <1>1, <2>1, InputFacts DEF TypeOK
  <2>2. ASSUME i < n PROVE FALSE
    BY <2>1, <2>2 DEF Untried, InOrder
  <2>3. QED
    BY <2>2
<1>7. QED
  BY <1>1, <1>5, <1>6, InputFacts DEF TypeOK

(* When no fallback is possible and the failure allows one, the whole chain was taken. *)
LEMMA NothingUntried ==
    ASSUME TypeOK, InOrder, NEW c \in FallbackCategories, ~Eligible(c), ~MayFallBack(c)
    PROVE  \A i \in DOMAIN plan.chain :
              \E j \in DOMAIN transitionHistory : plan.chain[i] = transitionHistory[j]
<1> SUFFICES ASSUME NEW i \in DOMAIN plan.chain
             PROVE  \E j \in DOMAIN transitionHistory : plan.chain[i] = transitionHistory[j]
  OBVIOUS
<1>1. CASE Untried = {}
  <2>1. \/ plan.chain[i] = currentRoute
        \/ \E j \in DOMAIN transitionHistory : plan.chain[i] = transitionHistory[j]
    BY <1>1 DEF Untried
  <2>2. QED
    BY <2>1, InputFacts DEF InOrder
<1>2. CASE ~(Len(transitionHistory) < Len(plan.chain))
  <2>1. i \in DOMAIN transitionHistory
    BY <1>2, InputFacts DEF TypeOK, InOrder
  <2>2. QED
    BY <2>1 DEF InOrder
<1>3. QED
  BY <1>1, <1>2 DEF MayFallBack

(* The delays are natural numbers. *)
LEMMA DelayIsNatural ==
    ASSUME NEW n, NEW r, NEW d \in PlannedDelays(n, r)
    PROVE  d \in Nat
BY NumbersAssumption DEF PlannedDelays

(* Each action of the simulation keeps it: a success ends the simulation, *)
LEMMA SucceedIInv == IInv /\ Succeed => IInv'
<1> SUFFICES ASSUME IInv, Succeed PROVE IInv'
  OBVIOUS
<1>1. /\ status = "running" /\ status' = "planned-success"
      /\ attempts' = attempts + 1
      /\ outcomesLeft' \in 0 .. MaxOutcomes
      /\ UNCHANGED <<plan, policy, decisions>>
  BY NumbersAssumption DEF Succeed, TakeOutcome, inputs, IInv, TypeOK
<1>2. CircuitFacts' /\ circuit' \in [state : {"closed", "open", "half-open"},
                     failures : Nat, successes : Nat, openedAt : Nat \cup {Never}]
  BY <1>1, ObserveKeepsFacts DEF Succeed, decisions, IInv, TypeOK
<1>3. TypeOK'
  BY <1>1, <1>2 DEF IInv, TypeOK, decisions, FinalStatuses
<1>4. InOrder' /\ Accounted'
  BY <1>1 DEF IInv, InOrder, Accounted, decisions, TypeOK
<1>5. RetriesLeaveTime' /\ FaultsEnd' /\ GivesUpHonestly'
  BY <1>1 DEF IInv, RetriesLeaveTime, FaultsEnd, GivesUpHonestly, decisions
<1>6. QED
  BY <1>2, <1>3, <1>4, <1>5 DEF IInv

(* A failed attempt keeps the breaker honest and consumes one outcome. *)
LEMMA ClassifyFacts ==
    ASSUME IInv, NEW c \in Categories, Classify(c), elapsed' \in Nat, elapsed' >= elapsed
    PROVE  /\ status = "running"
           /\ attempts' = attempts + 1 /\ attempts' \in Nat
           /\ outcomesLeft' \in 0 .. MaxOutcomes
           /\ failure' = c /\ retryEligible' = Eligible(c) /\ retryEligible' \in BOOLEAN
           /\ UNCHANGED <<plan, policy>>
           /\ CircuitFacts'
           /\ circuit' \in [state : {"closed", "open", "half-open"}, failures : Nat,
                            successes : Nat, openedAt : Nat \cup {Never}]
<1>1. /\ status = "running"
      /\ attempts' = attempts + 1 /\ attempts' \in Nat
      /\ outcomesLeft' \in 0 .. MaxOutcomes
      /\ failure' = c /\ retryEligible' = Eligible(c)
      /\ UNCHANGED <<plan, policy>>
  BY NumbersAssumption DEF Classify, TakeOutcome, inputs, IInv, TypeOK
<1>2. Eligible(c) \in BOOLEAN
  BY DEF Eligible
<1>3. QED
  BY <1>1, <1>2, ObserveKeepsFacts DEF Classify, IInv

(* a retry spends an attempt and its delay, *)
LEMMA RetryIInv ==
    ASSUME IInv, NEW c \in Categories, NEW d \in Nat, Retry(c, d)
    PROVE  IInv'
<1>1. /\ elapsed' = elapsed + d /\ elapsed' \in Nat /\ elapsed' >= elapsed
      /\ attemptHistory' = Append(attemptHistory, currentRoute)
      /\ UNCHANGED <<status, transitionHistory, currentRoute>>
      /\ Classify(c) /\ Eligible(c) /\ RetryPossible(d)
  BY DEF Retry, IInv, TypeOK
<1>2. /\ attemptHistory' \in Seq(Routes)
      /\ Len(attemptHistory') = Len(attemptHistory) + 1
      /\ attemptHistory' # <<>>
  BY <1>1 DEF IInv, TypeOK
<1>3. TypeOK' /\ CircuitFacts'
  BY <1>1, <1>2, ClassifyFacts DEF IInv, TypeOK
<1>4. InOrder'
  BY <1>1, ClassifyFacts DEF IInv, InOrder
<1>5. Accounted'
  <2>1. Len(attemptHistory) + 1 <= policy.max_attempts
    BY <1>1 DEF Eligible
  <2>2. /\ attempts' = attempts + 1
        /\ attempts = Len(attemptHistory) + Len(transitionHistory)
        /\ policy' = policy
    BY <1>1, ClassifyFacts DEF IInv, Accounted
  <2>3. QED
    BY <1>1, <1>2, <2>1, <2>2 DEF Accounted, IInv, TypeOK
<1>6. RetriesLeaveTime'
  <2>1. policy.total_operation_timeout - elapsed - d > 0
    BY <1>1 DEF RetryPossible
  <2>2. policy' = policy
    BY <1>1, ClassifyFacts
  <2>3. policy.total_operation_timeout \in Nat /\ elapsed \in Nat
    BY InputFacts DEF IInv, TypeOK
  <2>4. QED
    BY <1>1, <2>1, <2>2, <2>3 DEF RetriesLeaveTime
<1>7. FaultsEnd'
  BY <1>1, ClassifyFacts DEF FaultsEnd, Eligible
<1>8. GivesUpHonestly'
  BY <1>1, ClassifyFacts DEF GivesUpHonestly
<1>9. QED
  BY <1>3, <1>4, <1>5, <1>6, <1>7, <1>8 DEF IInv

(* a fallback takes the next route of the chain, *)
LEMMA FallBackIInv ==
    ASSUME IInv, NEW c \in Categories, NEW d \in Nat, FallBack(c, d)
    PROVE  IInv'
<1>1. /\ UNCHANGED <<status, attemptHistory, elapsed>>
      /\ elapsed' \in Nat /\ elapsed' >= elapsed
      /\ Classify(c) /\ MayFallBack(c)
  BY DEF FallBack, IInv, TypeOK
<1>2. PICK i \in Untried : /\ \A j \in Untried : i <= j
                           /\ currentRoute' = plan.chain[i]
                           /\ transitionHistory' = Append(transitionHistory, plan.chain[i])
  BY DEF FallBack
<1>3. /\ i = Len(transitionHistory) + 1
      /\ i \in DOMAIN plan.chain
      /\ Len(transitionHistory) < Len(plan.chain)
  BY <1>1, <1>2, NextInOrder DEF IInv, MayFallBack, Untried
<1>4. plan.chain[i] \in Routes
  BY <1>3, InputFacts DEF IInv
<1>5. /\ transitionHistory' \in Seq(Routes)
      /\ Len(transitionHistory') = Len(transitionHistory) + 1
      /\ transitionHistory'[i] = plan.chain[i]
      /\ i \in DOMAIN transitionHistory'
      /\ \A j \in DOMAIN transitionHistory' :
            j # i => /\ j \in DOMAIN transitionHistory
                     /\ transitionHistory'[j] = transitionHistory[j]
  BY <1>2, <1>3, <1>4 DEF IInv, TypeOK
<1>6. TypeOK' /\ CircuitFacts'
  BY <1>1, <1>2, <1>4, <1>5, ClassifyFacts DEF IInv, TypeOK
<1>7. InOrder'
  <2>1. plan' = plan
    BY <1>1, ClassifyFacts
  <2>2. Len(transitionHistory') <= Len(plan.chain)
    BY <1>3, <1>5, InputFacts DEF IInv, TypeOK
  <2>3. \A j \in DOMAIN transitionHistory' : transitionHistory'[j] = plan.chain[j]
    BY <1>5 DEF IInv, InOrder
  <2>4. currentRoute' = transitionHistory'[i]
    BY <1>2, <1>5
  <2>5. QED
    BY <1>5, <2>1, <2>2, <2>3, <2>4 DEF InOrder
<1>8. Accounted'
  <2>1. /\ attempts' = attempts + 1
        /\ attempts = Len(attemptHistory) + Len(transitionHistory)
        /\ policy' = policy
    BY <1>1, ClassifyFacts DEF IInv, Accounted
  <2>2. QED
    BY <1>1, <1>5, <2>1 DEF Accounted, IInv, TypeOK
<1>9. RetriesLeaveTime'
  BY <1>1, ClassifyFacts DEF RetriesLeaveTime, IInv
<1>10. FaultsEnd'
  BY <1>1, ClassifyFacts DEF FaultsEnd, MayFallBack, FallbackCategories,
         RetryableCategories, NeverRetried
<1>11. GivesUpHonestly'
  BY <1>1, ClassifyFacts DEF GivesUpHonestly
<1>12. QED
  BY <1>6, <1>7, <1>8, <1>9, <1>10, <1>11 DEF IInv

(* giving up takes no further route, *)
LEMMA GiveUpIInv ==
    ASSUME IInv, NEW c \in Categories, NEW d \in Nat, GiveUp(c, d)
    PROVE  IInv'
<1>1. /\ UNCHANGED <<attemptHistory, transitionHistory, currentRoute, elapsed>>
      /\ elapsed' \in Nat /\ elapsed' >= elapsed
      /\ Classify(c) /\ ~MayFallBack(c)
      /\ status' = FinalStatus(c)
  BY DEF GiveUp, IInv, TypeOK
<1>2. status' \in FinalStatuses /\ status' # "running"
  BY <1>1 DEF FinalStatus, FinalStatuses
<1>3. TypeOK' /\ CircuitFacts'
  BY <1>1, <1>2, ClassifyFacts DEF IInv, TypeOK
<1>4. InOrder' /\ RetriesLeaveTime'
  BY <1>1, ClassifyFacts DEF IInv, InOrder, RetriesLeaveTime
<1>5. Accounted'
  BY <1>1, <1>2, ClassifyFacts DEF IInv, Accounted, TypeOK
<1>6. FaultsEnd'
  BY <1>2 DEF FaultsEnd
<1>7. GivesUpHonestly'
  BY <1>1, ClassifyFacts, NothingUntried DEF GivesUpHonestly, IInv
<1>8. QED
  BY <1>3, <1>4, <1>5, <1>6, <1>7 DEF IInv

(* and running out of outcomes changes nothing but the status. *)
LEMMA RunOutIInv == IInv /\ RunOut => IInv'
<1> SUFFICES ASSUME IInv, RunOut PROVE IInv'
  OBVIOUS
<1>1. /\ status' \in FinalStatuses /\ status' # "running" /\ outcomesLeft = 0
      /\ UNCHANGED <<plan, policy, outcomesLeft, attempts, circuit, decisions>>
  BY DEF RunOut, FinalStatuses, inputs
<1>2. TypeOK' /\ InOrder' /\ RetriesLeaveTime' /\ CircuitFacts'
  BY <1>1 DEF IInv, TypeOK, InOrder, RetriesLeaveTime, CircuitFacts, CircuitIsHonest,
              decisions
<1>3. Accounted' /\ FaultsEnd' /\ GivesUpHonestly'
  BY <1>1 DEF IInv, Accounted, FaultsEnd, GivesUpHonestly, decisions
<1>4. QED
  BY <1>2, <1>3 DEF IInv

(* The inductive invariant of simulateGatewayResilience: the routes taken are in the
   order of the chain, the attempts are accounted for, and the breaker agrees with
   its history. *)
THEOREM Inductive == Spec => []IInv
<1>1. IInv /\ [Next]_vars => IInv'
  <2> SUFFICES ASSUME IInv, [Next]_vars PROVE IInv'
    OBVIOUS
  <2>1. CASE Succeed
    BY <2>1, SucceedIInv
  <2>2. CASE Fail
    BY <2>2, DelayIsNatural, RetryIInv, FallBackIInv, GiveUpIInv DEF Fail
  <2>3. CASE RunOut
    BY <2>3, RunOutIInv
  <2>4. CASE UNCHANGED vars
    BY <2>4 DEF vars, inputs, decisions, IInv, TypeOK, InOrder, Accounted,
                RetriesLeaveTime, CircuitFacts, CircuitIsHonest, FaultsEnd,
                GivesUpHonestly
  <2>5. QED
    BY <2>1, <2>2, <2>3, <2>4 DEF Next
<1>2. QED
  BY InitIInv, <1>1, PTL DEF Spec

(* Types: every reachable state of a simulation is well typed. *)
THEOREM TypeCorrect == Spec => []TypeOK
<1>1. IInv => TypeOK
  BY DEF IInv
<1>2. QED
  BY Inductive, <1>1, PTL

(* Termination: the attempts of simulateGatewayResilience are bounded by the policy and
   the chain, whatever the caller supplies. *)
THEOREM BoundedAttempts == Spec => []AttemptsAreBounded
<1>1. IInv => AttemptsAreBounded
  <2> SUFFICES ASSUME IInv PROVE AttemptsAreBounded
    OBVIOUS
  <2>1. /\ Len(attemptHistory) \in Nat /\ Len(transitionHistory) \in Nat
        /\ Len(plan.chain) \in Nat /\ policy.max_attempts \in Nat /\ attempts \in Nat
    BY InputFacts DEF IInv, TypeOK
  <2>2. QED
    BY <2>1 DEF IInv, Accounted, InOrder, AttemptsAreBounded
<1>2. QED
  BY Inductive, <1>1, PTL

(* The timeout budget (planTimeoutBudget) bounds the sum of all delays. *)
THEOREM TimeIsLeft == Spec => []RetriesLeaveTime
<1>1. IInv => RetriesLeaveTime
  BY DEF IInv
<1>2. QED
  BY Inductive, <1>1, PTL

(* No route is entered twice (planFallbackTransition). *)
THEOREM FreshRoutes == Spec => []RoutesAreFresh
<1>1. IInv => RoutesAreFresh
  <2> SUFFICES ASSUME IInv PROVE RoutesAreFresh
    OBVIOUS
  <2>1. \A j \in DOMAIN transitionHistory : j \in DOMAIN plan.chain
    BY InputFacts DEF IInv, TypeOK, InOrder
  <2>2. QED
    BY <2>1, InputFacts DEF IInv, InOrder, RoutesAreFresh
<1>2. QED
  BY Inductive, <1>1, PTL

(* The breaker's state and counters agree (simulateCircuitBreakerTransition). *)
THEOREM HonestCircuit == Spec => []CircuitIsHonest
<1>1. IInv => CircuitIsHonest
  BY DEF IInv, CircuitFacts
<1>2. QED
  BY Inductive, <1>1, PTL

(* Faults of the request, the credentials or the configuration, and denials, end it. *)
THEOREM FaultsEndIt == Spec => []FaultsEnd
<1>1. IInv => FaultsEnd
  BY DEF IInv
<1>2. QED
  BY Inductive, <1>1, PTL

(* Giving up on a curable failure means that the chain was tried. *)
THEOREM HonestDefeat == Spec => []GivesUpHonestly
<1>1. IInv => GivesUpHonestly
  BY DEF IInv
<1>2. QED
  BY Inductive, <1>1, PTL

-----------------------------------------------------------------------------
(* RoutePlanning: shares, scores and rankings.                             *)

(* A set of natural numbers has a least one. *)
LEMMA LeastExists ==
    ASSUME NEW T \in SUBSET Nat, T # {}
    PROVE  \E x \in T : \A y \in T : x <= y
<1>1. PICK x \in T : \A y \in T : ~(<<y, x>> \in OpToRel(<, Nat))
  BY NatLessThanWellFounded, WFMin, Zenon
<1>2. ASSUME NEW y \in T PROVE x <= y
  <2>1. ~(y < x)
    BY <1>1 DEF OpToRel
  <2>2. QED
    BY <2>1
<1>3. QED
  BY <1>2

(* A finite set of integers has a greatest and a least element. *)
LEMMA ExtremesExist ==
    ASSUME NEW K \in SUBSET Int, IsFiniteSet(K), K # {}
    PROVE  /\ Max(K) \in K /\ \A y \in K : Max(K) >= y
           /\ Min(K) \in K /\ \A y \in K : Min(K) <= y
<1> DEFINE Above(x) == {y \in K : y > x}
           Below(x) == {y \in K : y < x}
<1>1. \E x \in K : \A y \in K : x >= y
  <2>1. \A x \in K : IsFiniteSet(Above(x)) /\ Cardinality(Above(x)) \in Nat
    BY FS_Subset, FS_CardinalityType
  <2>2. PICK x \in K : \A y \in K : Cardinality(Above(x)) <= Cardinality(Above(y))
    <3> DEFINE T == {Cardinality(Above(x)) : x \in K}
    <3>1. T \in SUBSET Nat /\ T # {}
      BY <2>1
    <3>2. PICK n \in T : \A m \in T : n <= m
      BY <3>1, LeastExists
    <3>3. QED
      BY <3>2
  <2>3. ASSUME NEW y \in K, y > x PROVE FALSE
    <3>1. Above(y) \subseteq Above(x) /\ Above(y) # Above(x)
      <4>1. x \in Int /\ y \in Int
        OBVIOUS
      <4>2. y \in Above(x) /\ y \notin Above(y)
        BY <2>3, <4>1
      <4>3. \A z \in Above(y) : z \in Above(x)
        BY <2>3, <4>1
      <4>4. QED
        BY <4>2, <4>3
    <3>2. Cardinality(Above(y)) < Cardinality(Above(x))
      BY <2>1, <3>1, FS_Subset
    <3>3. QED
      BY <2>1, <2>2, <3>2
  <2>4. QED
    BY <2>3
<1>2. \E x \in K : \A y \in K : x =< y
  <2>1. \A x \in K : IsFiniteSet(Below(x)) /\ Cardinality(Below(x)) \in Nat
    BY FS_Subset, FS_CardinalityType
  <2>2. PICK x \in K : \A y \in K : Cardinality(Below(x)) <= Cardinality(Below(y))
    <3> DEFINE T == {Cardinality(Below(x)) : x \in K}
    <3>1. T \in SUBSET Nat /\ T # {}
      BY <2>1
    <3>2. PICK n \in T : \A m \in T : n <= m
      BY <3>1, LeastExists
    <3>3. QED
      BY <3>2
  <2>3. ASSUME NEW y \in K, y < x PROVE FALSE
    <3>1. Below(y) \subseteq Below(x) /\ Below(y) # Below(x)
      <4>1. x \in Int /\ y \in Int
        OBVIOUS
      <4>2. y \in Below(x) /\ y \notin Below(y)
        BY <2>3, <4>1
      <4>3. \A z \in Below(y) : z \in Below(x)
        BY <2>3, <4>1
      <4>4. QED
        BY <4>2, <4>3
    <3>2. Cardinality(Below(y)) < Cardinality(Below(x))
      BY <2>1, <3>1, FS_Subset
    <3>3. QED
      BY <2>1, <2>2, <3>2
  <2>4. QED
    BY <2>3
<1>3. QED
  BY <1>1, <1>2 DEF Max, Min

(* What Min makes of two integers. *)
LEMMA MinOfTwo ==
    ASSUME NEW a \in Int, NEW b \in Int
    PROVE  Min({a, b}) = IF a <= b THEN a ELSE b
BY DEF Min

(* The same for Max. *)
LEMMA MaxOfTwo ==
    ASSUME NEW a \in Int, NEW b \in Int
    PROVE  Max({a, b}) = IF a >= b THEN a ELSE b
BY DEF Max

(* Share is the rounded part of a weight: an integer. *)
LEMMA ShareType ==
    ASSUME NEW num \in Int, NEW den \in Nat \ {0}, NEW weight \in Nat
    PROVE  Share(num, den, weight) \in Int
<1>1. num * weight \in Int
  OBVIOUS
<1>2. PICK k \in Int : k = num * weight
  BY <1>1
<1>3. 2 * num * weight = 2 * k
  BY <1>2
<1>4. QED
  BY <1>3 DEF Share

(* The shares the components take. *)
LEMMA CommonShares ==
    ASSUME NEW weight \in Nat
    PROVE  /\ Share(1, 2, weight) \in Int /\ Share(1, 4, weight) \in Int /\ Share(60, 100, weight) \in Int
           /\ \A num \in Int : Share(num, 2, weight) \in Int /\ Share(num, 100, weight) \in Int
<1>1. /\ 1 \in Int /\ 60 \in Int
      /\ 2 \in Nat \ {0} /\ 4 \in Nat \ {0} /\ 100 \in Nat \ {0}
  OBVIOUS
<1>2. Share(1, 2, weight) \in Int /\ Share(1, 4, weight) \in Int /\ Share(60, 100, weight) \in Int
  BY <1>1, ShareType, Zenon
<1>3. \A num \in Int : Share(num, 2, weight) \in Int /\ Share(num, 100, weight) \in Int
  BY <1>1, ShareType, Zenon
<1>4. QED
  BY <1>2, <1>3

(* The whole of a weight is the weight, whatever the rounding. *)
LEMMA ShareOfWhole ==
    ASSUME NEW d \in Nat \ {0}, NEW weight \in Nat
    PROVE  Share(d, d, weight) = weight
<1> DEFINE e == 2 * d
<1>1. e \in Nat /\ e > 0 /\ d >= 0 /\ d < e
  OBVIOUS
<1>2. 2 * d * weight + d = weight * e + d
  OBVIOUS
<1>3. \A q \in Int : q = (weight * e + d) \div e => q = weight
  OBVIOUS
<1>4. QED
  BY <1>2, <1>3 DEF Share

(* A percentage of the weight is at most the weight. *)
LEMMA ShareOfPart ==
    ASSUME NEW weight \in Nat
    PROVE  \A percent \in {15, 20, 50} : Share(percent, 100, weight) <= weight
BY DEF Share

(* The image of a finite set, for the images below. *)
LEMMA ImageIsFinite ==
    ASSUME NEW S, IsFiniteSet(S), NEW g, DOMAIN g = S
    PROVE  IsFiniteSet({g[x] : x \in S})
<1> DEFINE T == {g[x] : x \in S}
           f == [x \in S |-> g[x]]
<1>1. f \in Surjection(S, T)
  BY DEF Surjection
<1>2. QED
  BY <1>1, FS_Surjection, Zenon

-----------------------------------------------------------------------------
(* What is known of a candidate's numbers. *)
Rated(c) ==
    /\ {c.context, c.output, c.inputCost, c.outputCost, c.latency} \subseteq Amount
    /\ c.priority \in Int

Fields == {"provider", "model", "names", "capabilities", "context", "output", "inputCost", "outputCost",
           "local", "enabled", "status", "providerStatus", "priority", "latency"}

(* The numbers of a snapshot are amounts, because those of its documents are. *)
LEMMA ProviderFacts ==
    ASSUME question \in Questions, snapshot = Snapshot(question.source)
    PROVE  \A p \in snapshot.providers : {p.priority, p.latency} \subseteq Amount
<1> TAKE p \in snapshot.providers
<1>1. PICK raw \in Records(question.source, "providers") : p = ProviderOf(raw)
  BY DEF Snapshot
<1>2. raw \in question.source["providers"]
  BY <1>1 DEF Records, Entries
<1>3. {raw.priority, raw.latency} \subseteq Amount
  BY <1>2, QuestionsAssumption
<1>4. QED
  BY <1>1, <1>3 DEF ProviderOf

(* So are those of a candidate made of a model, *)
LEMMA ModelCandidateIsRated ==
    ASSUME question \in Questions, snapshot = Snapshot(question.source), NEW m \in snapshot.models
    PROVE  Rated(ModelCandidate(m)) /\ DOMAIN ModelCandidate(m) = Fields
<1> DEFINE c == ModelCandidate(m)
           owner == Provider(m.provider)
<1>1. PICK raw \in Records(question.source, "models") : m = ModelOf(raw)
  BY DEF Snapshot
<1>2. {raw.context, raw.output, raw.inputCost, raw.outputCost, raw.priority, raw.latency} \subseteq Amount
  <2>1. raw \in question.source["models"]
    BY <1>1 DEF Records, Entries
  <2>2. QED
    BY <2>1, QuestionsAssumption
<1>3. {m.context, m.output, m.inputCost, m.outputCost, m.priority, m.latency} \subseteq Amount
  BY <1>1, <1>2 DEF ModelOf
<1>4. DOMAIN c = Fields
  BY DEF ModelCandidate, Fields
<1>5. /\ c.context = m.context /\ c.output = m.output
      /\ c.inputCost = m.inputCost /\ c.outputCost = m.outputCost
  BY DEF ModelCandidate
<1>6. PICK p1, p2 : /\ {p1, p2} \subseteq Amount
                    /\ c.priority = Priority(m.priority) + Priority(p1)
                    /\ c.latency = FirstKnown(m.latency, p2)
  <2>1. CASE owner = {}
    BY <2>1 DEF ModelCandidate, Amount
  <2>2. CASE owner # {}
    <3>1. (CHOOSE p \in owner : TRUE) \in snapshot.providers
      BY <2>2 DEF Provider
    <3>2. QED
      BY <2>2, <3>1, ProviderFacts DEF ModelCandidate
  <2>3. QED
    BY <2>1, <2>2
<1>7. QED
  BY <1>3, <1>4, <1>5, <1>6 DEF Rated, Amount, Unknown, Priority, FirstKnown

(* or of a local model. *)
LEMMA LocalCandidateIsRated ==
    ASSUME question \in Questions, snapshot = Snapshot(question.source), NEW l \in snapshot.locals
    PROVE  Rated(LocalCandidate(l)) /\ DOMAIN LocalCandidate(l) = Fields
<1> DEFINE c == LocalCandidate(l)
           owner == Provider("local")
<1>1. PICK raw \in Records(question.source, "localModels") : l = LocalModelOf(raw)
  BY DEF Snapshot
<1>2. {raw.context, raw.priority, raw.latency} \subseteq Amount
  <2>1. raw \in question.source["localModels"]
    BY <1>1 DEF Records, Entries
  <2>2. QED
    BY <2>1, QuestionsAssumption
<1>3. {l.context, l.priority, l.latency} \subseteq Amount
  BY <1>1, <1>2 DEF LocalModelOf
<1>4. DOMAIN c = Fields
  BY DEF LocalCandidate, Fields
<1>5. /\ c.context = l.context /\ c.output = Unknown
      /\ c.inputCost = Unknown /\ c.outputCost = Unknown
  BY DEF LocalCandidate
<1>6. PICK p1, p2 : /\ {p1, p2} \subseteq Amount
                    /\ c.priority = Priority(l.priority) + Priority(p1)
                    /\ c.latency = FirstKnown(l.latency, p2)
  <2>1. CASE owner = {}
    BY <2>1 DEF LocalCandidate, Amount
  <2>2. CASE owner # {}
    <3>1. (CHOOSE p \in owner : TRUE) \in snapshot.providers
      BY <2>2 DEF Provider
    <3>2. QED
      BY <2>2, <3>1, ProviderFacts DEF LocalCandidate
  <2>3. QED
    BY <2>1, <2>2
<1>7. QED
  BY <1>3, <1>4, <1>5, <1>6 DEF Rated, Amount, Unknown, Priority, FirstKnown

(* Every candidate has its fields and its amounts, *)
LEMMA CandidatesAreRated ==
    ASSUME question \in Questions, snapshot = Snapshot(question.source)
    PROVE  \A c \in Candidates : Rated(c) /\ DOMAIN c = Fields
BY ModelCandidateIsRated, LocalCandidateIsRated DEF Candidates

(* and there are finitely many. *)
LEMMA CandidatesAreFinite ==
    ASSUME question \in Questions, snapshot = Snapshot(question.source)
    PROVE  IsFiniteSet(Candidates)
<1> DEFINE rawModels == Records(question.source, "models")
           rawLocals == Records(question.source, "localModels")
           models == snapshot.models
           locals == snapshot.locals
<1>1. IsFiniteSet(rawModels) /\ IsFiniteSet(rawLocals)
  <2>1. \A file \in {"models", "localModels"} : IsFiniteSet(question.source[file])
    BY QuestionsAssumption DEF FileNames
  <2>2. \A file \in {"models", "localModels"} : IsFiniteSet(Entries(question.source, file))
    BY <2>1, FS_EmptySet DEF Entries
  <2>3. \A file \in {"models", "localModels"} :
            Records(question.source, file) \in SUBSET Entries(question.source, file)
    BY DEF Records
  <2>4. QED
    BY <2>2, <2>3, FS_Subset
<1>2. IsFiniteSet(models)
  <2> DEFINE f == [raw \in rawModels |-> ModelOf(raw)]
  <2>1. models = {f[raw] : raw \in rawModels}
    BY DEF Snapshot
  <2> HIDE DEF f
  <2>2. DOMAIN f = rawModels
    BY DEF f
  <2>3. QED
    BY <1>1, <2>1, <2>2, ImageIsFinite
<1>3. IsFiniteSet(locals)
  <2> DEFINE f == [raw \in rawLocals |-> LocalModelOf(raw)]
  <2>1. locals = {f[raw] : raw \in rawLocals}
    BY DEF Snapshot
  <2> HIDE DEF f
  <2>2. DOMAIN f = rawLocals
    BY DEF f
  <2>3. QED
    BY <1>1, <2>1, <2>2, ImageIsFinite
<1>4. IsFiniteSet({ModelCandidate(m) : m \in models})
  <2> DEFINE f == [m \in models |-> ModelCandidate(m)]
  <2>1. {ModelCandidate(m) : m \in models} = {f[m] : m \in models}
    OBVIOUS
  <2> HIDE DEF f
  <2>2. DOMAIN f = models
    BY DEF f
  <2>3. QED
    BY <1>2, <2>1, <2>2, ImageIsFinite
<1>5. IsFiniteSet({LocalCandidate(l) : l \in locals})
  <2> DEFINE f == [l \in locals |-> LocalCandidate(l)]
  <2>1. {LocalCandidate(l) : l \in locals} = {f[l] : l \in locals}
    OBVIOUS
  <2> HIDE DEF f
  <2>2. DOMAIN f = locals
    BY DEF f
  <2>3. QED
    BY <1>3, <2>1, <2>2, ImageIsFinite
<1>6. QED
  BY <1>4, <1>5, FS_Union DEF Candidates

(* The policies a route is scored by. *)
Scoring(p) ==
    /\ p.weights \in [Components -> Nat]
    /\ p.neutral \in BOOLEAN
    /\ IsFiniteSet(p.preferred)

(* A metric among the known ones has a share, and the least one has the whole; an
   unknown metric never has more. *)
LEMMA MetricFacts ==
    ASSUME NEW known \in SUBSET Int, IsFiniteSet(known), Unknown \notin known,
           NEW metric \in known \cup {Unknown}, NEW weight \in Nat,
           NEW percent \in {15, 20}, NEW p, p.neutral \in BOOLEAN
    PROVE  LET share == MetricShare(metric, known, percent, p, weight)
           IN /\ share \in Int
              /\ metric = Unknown => share <= weight
              /\ metric # Unknown /\ metric = Min(known) => share = weight
<1> DEFINE share == MetricShare(metric, known, percent, p, weight)
<1>1. CASE metric = Unknown
  <2>1. PICK part \in {15, 20, 50} : share = Share(part, 100, weight)
    BY <1>1 DEF MetricShare
  <2>2. Share(part, 100, weight) \in Int
    BY ShareType
  <2>3. QED
    BY <1>1, <2>1, <2>2, ShareOfPart
<1>2. CASE metric # Unknown /\ Cardinality(known) = 1
  BY <1>2 DEF MetricShare
<1>3. CASE metric # Unknown /\ Cardinality(known) # 1
  <2>1. metric \in known
    BY <1>3
  <2>2. PICK most, least \in known : /\ most = Max(known) /\ least = Min(known)
                                     /\ \A y \in known : y <= most /\ least <= y
    BY <2>1, ExtremesExist
  <2>3. most # least
    <3>1. ASSUME most = least PROVE known = {most}
      <4>1. \A y \in known : y = most
        BY <2>2, <3>1
      <4>2. QED
        BY <4>1
    <3>2. QED
      BY <1>3, <3>1, FS_Singleton
  <2>4. most - least \in Nat \ {0} /\ most - metric \in Int
    BY <2>1, <2>2, <2>3
  <2>5. share = Share(most - metric, most - least, weight)
    BY <1>3, <2>2 DEF MetricShare
  <2>6. share \in Int
    BY <2>4, <2>5, ShareType
  <2>7. metric = least => share = weight
    BY <2>4, <2>5, ShareOfWhole
  <2>8. QED
    BY <1>3, <2>2, <2>6, <2>7
<1>4. QED
  BY <1>1, <1>2, <1>3

(* What the checks of a request leave of its numbers. *)
LEMMA RequestFacts ==
    ASSUME question \in Questions, RequestErrors = {}
    PROVE  /\ request.wellFormed
           /\ {request.input, request.context} \subseteq Amount
           /\ OutputTokens \in Int /\ RequiredContext \in Int
           /\ request.output \in Int
<1>1. request.wellFormed
  BY DEF RequestErrors, When
<1>2. /\ {request.input, request.context} \subseteq Amount
      /\ {request.output, request.maxTokens} \subseteq Int
  BY <1>1, QuestionsAssumption DEF request
<1>3. OutputTokens \in Int
  BY <1>2 DEF OutputTokens
<1>4. RequiredContext \in Int
  <2> DEFINE estimate == IF request.input # Unknown /\ request.output # Unknown
                         THEN request.input + request.output ELSE Unknown
  <2>1. estimate \in Int /\ request.context \in Int
    BY <1>2 DEF Amount, Unknown
  <2>2. RequiredContext = Max({request.context, estimate})
    BY DEF RequiredContext
  <2>3. QED
    BY <2>1, <2>2, MaxOfTwo
<1>5. QED
  BY <1>1, <1>2, <1>3, <1>4

(* An estimated cost is an amount in millionths, or unknown. *)
LEMMA CostIsInteger ==
    ASSUME question \in Questions, RequestErrors = {}, NEW c, Rated(c)
    PROVE  Cost(c) \in Int /\ Latency(c) \in Int
<1>1. {c.inputCost, c.outputCost, c.latency, request.input} \subseteq Int /\ OutputTokens \in Int
  BY RequestFacts DEF Rated, Amount, Unknown
<1>2. PICK a, b, x, y \in Int : a = request.input /\ b = c.inputCost /\ x = OutputTokens /\ y = c.outputCost
  BY <1>1
<1>3. a * b + x * y \in Int
  OBVIOUS
<1>4. QED
  BY <1>1, <1>2, <1>3 DEF Cost, Latency, Unknown

(* The metrics that are known among the candidates. *)
LEMMA KnownIsFinite ==
    ASSUME question \in Questions, RequestErrors = {}, NEW V, IsFiniteSet(V), \A c \in V : Rated(c)
    PROVE  /\ KnownCosts(V) \in SUBSET Int /\ IsFiniteSet(KnownCosts(V)) /\ Unknown \notin KnownCosts(V)
           /\ KnownLatencies(V) \in SUBSET Int /\ IsFiniteSet(KnownLatencies(V))
           /\ Unknown \notin KnownLatencies(V)
           /\ \A c \in V : /\ Cost(c) \in KnownCosts(V) \cup {Unknown}
                           /\ Latency(c) \in KnownLatencies(V) \cup {Unknown}
<1> DEFINE f == [c \in V |-> Cost(c)]
           g == [c \in V |-> Latency(c)]
<1>1. KnownCosts(V) \subseteq {f[c] : c \in V} /\ KnownLatencies(V) \subseteq {g[c] : c \in V}
  BY DEF KnownCosts, KnownLatencies
<1>2. DOMAIN f = V /\ DOMAIN g = V
  OBVIOUS
<1> HIDE DEF f, g
<1>3. IsFiniteSet({f[c] : c \in V}) /\ IsFiniteSet({g[c] : c \in V})
  BY <1>2, ImageIsFinite
<1>4. IsFiniteSet(KnownCosts(V)) /\ IsFiniteSet(KnownLatencies(V))
  BY <1>1, <1>3, FS_Subset
<1>5. QED
  BY <1>4, CostIsInteger DEF KnownCosts, KnownLatencies

(* Each of the nine components of a score is an integer. *)
LEMMA PartsAreIntegers ==
    ASSUME question \in Questions, RequestErrors = {}, NEW V, IsFiniteSet(V), \A d \in V : Rated(d),
           NEW c \in V, NEW p, Scoring(p)
    PROVE  Contributions(c, V, p) \in [Components -> Int]
<1> DEFINE w == p.weights
<1>1. w \in [Components -> Nat] /\ p.neutral \in BOOLEAN /\ IsFiniteSet(p.preferred)
  BY DEF Scoring
<1>2. /\ w.capability \in Nat /\ w.preferred \in Nat /\ w.priority \in Nat /\ w.cost \in Nat
      /\ w.latency \in Nat /\ w.context \in Nat /\ w.local \in Nat /\ w.explicit \in Nat
      /\ w.status \in Nat
  BY <1>1 DEF Components
<1> HIDE DEF w
<1>3. PreferredShare(c, p) \in Int
  <2> PICK v \in Nat : v = p.weights.preferred
    BY <1>2 DEF w
  <2>1. CASE p.preferred = {}
    <3>1. Share(1, 2, v) \in Int
      BY CommonShares, Zenon
    <3>2. QED
      BY <2>1, <3>1 DEF PreferredShare
  <2>2. CASE p.preferred # {}
    <3>1. Cardinality(p.preferred) \in Nat \ {0}
      BY <1>1, <2>2, FS_CardinalityType, FS_EmptySet
    <3>2. Cardinality(p.preferred \cap c.capabilities) \in Nat
      <4>1. p.preferred \cap c.capabilities \in SUBSET p.preferred
        OBVIOUS
      <4>2. QED
        BY <1>1, <4>1, FS_Subset, FS_CardinalityType
    <3>3. PICK num \in Int, den \in Nat \ {0} :
              num = Cardinality(p.preferred \cap c.capabilities) /\ den = Cardinality(p.preferred)
      BY <3>1, <3>2
    <3>4. Share(num, den, v) \in Int
      BY ShareType, Zenon
    <3>5. QED
      BY <2>2, <3>3, <3>4 DEF PreferredShare
  <2>3. QED
    BY <2>1, <2>2
<1>4. PriorityShare(c, p) \in Int
  <2> PICK v \in Nat : v = p.weights.priority
    BY <1>2 DEF w
  <2>1. c.priority \in Int
    BY DEF Rated
  <2>2. PICK num \in Int : num = Min({c.priority, 100})
    BY <2>1, MinOfTwo
  <2>3. Share(1, 2, v) \in Int /\ Share(num, 100, v) \in Int
    BY CommonShares, Zenon
  <2>4. QED
    BY <2>2, <2>3 DEF PriorityShare
<1>5. ContextShare(c, p) \in Int
  <2> PICK v \in Nat : v = p.weights.context
    BY <1>2 DEF w
  <2>1. c.context \in Int /\ RequiredContext \in Int
    BY RequestFacts DEF Rated, Amount, Unknown
  <2>2. PICK size \in Nat \ {0} : size = Max({c.context, 1})
    BY <2>1, MaxOfTwo
  <2>3. PICK rest \in Int : rest = size - (c.context - RequiredContext)
    BY <2>1
  <2>4. /\ Share(1, 2, v) \in Int /\ Share(1, 4, v) \in Int
        /\ Share(rest, size, v) \in Int
    BY CommonShares, ShareType, Zenon
  <2>5. ContextShare(c, p) \in {Share(1, 2, v), Share(1, 4, v), Share(rest, size, v)}
    BY <2>2, <2>3 DEF ContextShare
  <2>6. QED
    BY <2>4, <2>5
<1>6. /\ MetricShare(Cost(c), KnownCosts(V), 15, p, w.cost) \in Int
      /\ MetricShare(Latency(c), KnownLatencies(V), 20, p, w.latency) \in Int
  BY <1>1, <1>2, KnownIsFinite, MetricFacts
<1>7. (IF c.local THEN w.local ELSE IF p.localPreferred THEN 0 ELSE Share(1, 2, w.local)) \in Int
  BY <1>2, ShareType
<1>8. Share(ExplicitHalves(c), 2, w.explicit) \in Int
  <2>1. ExplicitHalves(c) \in Int
    BY DEF ExplicitHalves
  <2>2. QED
    BY <1>2, <2>1, ShareType
<1>9. (IF c.status = "available" THEN w.status ELSE Share(60, 100, w.status)) \in Int
  BY <1>2, ShareType
<1>10. QED
  BY <1>2, <1>3, <1>4, <1>5, <1>6, <1>7, <1>8, <1>9 DEF Contributions, Components, w

(* A score rises with each of its parts, whichever of them the strategy favours. *)
LEMMA TotalRises ==
    ASSUME NEW A \in [Components -> Int], NEW B \in [Components -> Int],
           \A name \in Components : B[name] <= A[name], NEW favoured
    PROVE  LET Doubled(parts) == [name \in DOMAIN parts |->
                                     IF name = favoured THEN 2 * parts[name] ELSE parts[name]]
           IN /\ Total(Doubled(A)) \in Int /\ Total(Doubled(B)) \in Int
              /\ Total(Doubled(B)) <= Total(Doubled(A))
<1> DEFINE Doubled(parts) == [name \in DOMAIN parts |->
                                 IF name = favoured THEN 2 * parts[name] ELSE parts[name]]
<1>1. \A name \in Components : /\ Doubled(A)[name] \in Int /\ Doubled(B)[name] \in Int
                               /\ Doubled(B)[name] <= Doubled(A)[name]
  <2> TAKE name \in Components
  <2>1. PICK a, b \in Int : a = A[name] /\ b = B[name] /\ b <= a
    OBVIOUS
  <2>2. Doubled(A)[name] = (IF name = favoured THEN 2 * a ELSE a)
    BY <2>1
  <2>3. Doubled(B)[name] = (IF name = favoured THEN 2 * b ELSE b)
    BY <2>1
  <2>4. QED
    BY <2>1, <2>2, <2>3
<1> HIDE DEF Doubled
<1>2. QED
  BY <1>1 DEF Total, Components

(* Of two candidates the one that is no worse in any component has no less a score. *)
LEMMA ScoreRises ==
    ASSUME question \in Questions, RequestErrors = {}, NEW V, IsFiniteSet(V), \A d \in V : Rated(d),
           NEW p, Scoring(p), NEW c \in V, NEW d \in V,
           \A name \in Components : Contributions(d, V, p)[name] <= Contributions(c, V, p)[name]
    PROVE  Score(c, V, p) \in Int /\ Score(d, V, p) <= Score(c, V, p)
<1> DEFINE A == Contributions(c, V, p)
           B == Contributions(d, V, p)
           Doubled(parts) == [name \in DOMAIN parts |->
                                 IF name = Favoured(p.strategy) THEN 2 * parts[name] ELSE parts[name]]
<1>1. A \in [Components -> Int] /\ B \in [Components -> Int]
  BY PartsAreIntegers
<1>2. /\ Total(Doubled(A)) \in Int /\ Total(Doubled(B)) \in Int
      /\ Total(Doubled(B)) <= Total(Doubled(A))
  <2> HIDE DEF A, B
  <2>1. \A name \in Components : B[name] <= A[name]
    BY DEF A, B
  <2>2. QED
    BY <1>1, <2>1, TotalRises
<1>3. Total(p.weights) \in Int
  <2>1. \A name \in Components : p.weights[name] \in Nat
    BY DEF Scoring
  <2>2. QED
    BY <2>1 DEF Total, Components
<1>4. Score(c, V, p) = Min({Total(Doubled(A)), Total(p.weights)})
  BY DEF Score
<1>5. Score(d, V, p) = Min({Total(Doubled(B)), Total(p.weights)})
  BY DEF Score
<1> HIDE DEF A, B, Doubled
<1>6. QED
  BY <1>2, <1>3, <1>4, <1>5, MinOfTwo

(* A candidate has finitely many warnings. *)
LEMMA WarningsAreFew ==
    \A c : IsFiniteSet(Warnings(c)) /\ Cardinality(Warnings(c)) \in Nat
<1> DEFINE all == {"cost unknown", "latency unknown", "context window unknown"}
<1>1. IsFiniteSet(all)
  <2>1. IsFiniteSet({"cost unknown"} \cup {"latency unknown"})
    BY FS_Singleton, FS_AddElement
  <2>2. IsFiniteSet(({"cost unknown"} \cup {"latency unknown"}) \cup {"context window unknown"})
    BY <2>1, FS_AddElement
  <2>3. all = ({"cost unknown"} \cup {"latency unknown"}) \cup {"context window unknown"}
    OBVIOUS
  <2>4. QED
    BY <2>2, <2>3
<1>2. \A c : Warnings(c) \in SUBSET all
  BY DEF Warnings, When
<1>3. QED
  BY <1>1, <1>2, FS_Subset, FS_CardinalityType

(* What a ranking is, as far as the first two comparisons go: all of the candidates,
   each once, and none of them has a better score than the first, nor the same score
   and fewer warnings. *)
LEMMA RankingFacts ==
    ASSUME NEW V, IsFiniteSet(V), V # {}, NEW p, NEW s \in Rankings(V, p),
           \A c \in V : Score(c, V, p) \in Int
    PROVE  /\ s \in Seq(V) /\ s # <<>> /\ Len(s) = Cardinality(V)
           /\ Range(s) = V /\ IsInjective(s)
           /\ \A i \in 1 .. Len(s) :
                 /\ Score(s[i], V, p) <= Score(s[1], V, p)
                 /\ Score(s[i], V, p) = Score(s[1], V, p)
                       => Cardinality(Warnings(s[1])) <= Cardinality(Warnings(s[i]))
<1> DEFINE n == Cardinality(V)
           score == [c \in V |-> Score(c, V, p)]
           W(i) == Cardinality(Warnings(s[i]))
           S(i) == Score(s[i], V, p)
           Good(i) == S(i) <= S(1) /\ (S(i) = S(1) => W(1) <= W(i))
<1>1. n \in Nat \ {0}
  BY FS_CardinalityType, FS_EmptySet
<1>2. /\ s \in [1 .. n -> V]
      /\ \A i, j \in 1 .. n : i # j => s[i] # s[j]
      /\ \A i \in 1 .. (Len(s) - 1) : ~Before(s[i + 1], s[i], score, p)
  BY DEF Rankings, SetToSeqs
<1>3. s \in Seq(V) /\ Len(s) = n
  BY <1>1, <1>2
<1>4. Range(s) = V
  <2>1. s \in Injection(1 .. n, V)
    BY <1>2 DEF Injection, IsInjective
  <2>2. IsFiniteSet(1 .. n) /\ Cardinality(1 .. n) = n
    BY <1>1, FS_Interval
  <2>3. s \in Surjection(1 .. n, V)
    BY <2>1, <2>2, FS_Injection
  <2>4. QED
    BY <1>2, <2>3 DEF Surjection, Range
<1>5. IsInjective(s)
  BY <1>2 DEF IsInjective
<1>6. \A i \in 1 .. n : S(i) \in Int /\ W(i) \in Nat
  <2> TAKE i \in 1 .. n
  <2>1. s[i] \in V
    BY <1>2
  <2>2. W(i) \in Nat
    BY WarningsAreFew
  <2>3. QED
    BY <2>1, <2>2
<1>7. \A i \in 1 .. (n - 1) : S(i + 1) <= S(i) /\ (S(i + 1) = S(i) => W(i) <= W(i + 1))
  <2> TAKE i \in 1 .. (n - 1)
  <2>1. i \in 1 .. n /\ i + 1 \in 1 .. n
    BY <1>1
  <2>2. /\ ~Before(s[i + 1], s[i], score, p)
        /\ s[i] \in V /\ s[i + 1] \in V
    BY <1>2, <1>3, <2>1
  <2> DEFINE signs == Comparisons(s[i + 1], s[i], score, p)
  <2>3. signs[1] = S(i) - S(i + 1) /\ signs[2] = W(i + 1) - W(i) /\ {1, 2} \subseteq DOMAIN signs
    BY <2>2 DEF Comparisons
  <2>4. ~(\E k \in DOMAIN signs : signs[k] < 0 /\ \A j \in 1 .. (k - 1) : signs[j] = 0)
    BY <2>2 DEF Before
  <2> HIDE DEF signs
  <2>5. ~(signs[1] < 0)
    BY <2>3, <2>4
  <2>6. ~(signs[2] < 0 /\ signs[1] = 0)
    BY <2>3, <2>4
  <2> HIDE DEF S, W
  <2>7. S(i) \in Int /\ S(i + 1) \in Int /\ W(i) \in Nat /\ W(i + 1) \in Nat
    BY <1>6, <2>1
  <2>8. QED
    BY <2>3, <2>5, <2>6, <2>7
<1> HIDE DEF n, S, W
<1>8. \A i \in 1 .. n : Good(i)
  <2> DEFINE T == {i \in 1 .. n : ~Good(i)}
  <2>1. SUFFICES ASSUME T # {} PROVE FALSE
    OBVIOUS
  <2>2. PICK i \in T : \A j \in T : i <= j
    <3>1. T \in SUBSET Nat
      OBVIOUS
    <3> HIDE DEF T
    <3>2. QED
      BY <2>1, <3>1, LeastExists
  <2>3. i # 1
    BY <1>1, <1>6, <2>2
  <2>4. i - 1 \in 1 .. (n - 1) /\ i - 1 \in 1 .. n /\ (i - 1) + 1 = i
    BY <1>1, <2>2, <2>3
  <2>5. Good(i - 1)
    BY <2>2, <2>4
  <2>6. S(i) <= S(i - 1) /\ (S(i) = S(i - 1) => W(i - 1) <= W(i))
    BY <1>7, <2>4
  <2>7. /\ S(i) \in Int /\ S(i - 1) \in Int /\ S(1) \in Int
        /\ W(i) \in Nat /\ W(i - 1) \in Nat /\ W(1) \in Nat
    BY <1>1, <1>6, <2>2, <2>4
  <2>8. Good(i)
    BY <2>5, <2>6, <2>7
  <2>9. QED
    BY <2>2, <2>8
<1>9. s # <<>>
  BY <1>1, <1>3
<1>10. QED
  BY <1>3, <1>4, <1>5, <1>8, <1>9 DEF S, W, n

(* Candidates alike but for one metric have the same share in all the others. *)
LEMMA AlikeInAll ==
    ASSUME NEW c, NEW d, NEW but, DOMAIN c = Fields, Alike(c, d, but),
           ExplicitHalves(c) = ExplicitHalves(d), NEW V, NEW p
    PROVE  LET Part(x) == Contributions(x, V, p)
           IN /\ Part(c).capability = Part(d).capability /\ Part(c).explicit = Part(d).explicit
              /\ but \in {{"latency"}, {"inputCost", "outputCost"}} =>
                    /\ Part(c).preferred = Part(d).preferred /\ Part(c).priority = Part(d).priority
                    /\ Part(c).context = Part(d).context /\ Part(c).local = Part(d).local
                    /\ Part(c).status = Part(d).status
              /\ but = {"latency"} => Part(c).cost = Part(d).cost /\ Cost(c) = Cost(d) /\ c.context = d.context
              /\ but = {"inputCost", "outputCost"} =>
                    Part(c).latency = Part(d).latency /\ c.latency = d.latency /\ c.context = d.context
<1>1. \A f \in Fields \ ({"provider", "model", "names"} \cup but) : c[f] = d[f]
  BY DEF Alike
<1>2. ASSUME but \in {{"latency"}, {"inputCost", "outputCost"}}
      PROVE  /\ c.capabilities = d.capabilities /\ c.priority = d.priority /\ c.context = d.context
             /\ c.local = d.local /\ c.status = d.status
  BY <1>1, <1>2 DEF Fields
<1>3. ASSUME but = {"latency"} PROVE c.inputCost = d.inputCost /\ c.outputCost = d.outputCost
  BY <1>1, <1>3 DEF Fields
<1>4. ASSUME but = {"inputCost", "outputCost"} PROVE c.latency = d.latency
  BY <1>1, <1>4 DEF Fields
<1>5. but = {"latency"} => Cost(c) = Cost(d)
  BY <1>3 DEF Cost
<1>6. ASSUME but \in {{"latency"}, {"inputCost", "outputCost"}}
      PROVE  /\ PreferredShare(c, p) = PreferredShare(d, p) /\ PriorityShare(c, p) = PriorityShare(d, p)
             /\ ContextShare(c, p) = ContextShare(d, p)
  <2>1. PreferredShare(c, p) = PreferredShare(d, p)
    BY <1>2, <1>6 DEF PreferredShare
  <2>2. PriorityShare(c, p) = PriorityShare(d, p)
    BY <1>2, <1>6 DEF PriorityShare
  <2>3. ContextShare(c, p) = ContextShare(d, p)
    BY <1>2, <1>6 DEF ContextShare
  <2>4. QED
    BY <2>1, <2>2, <2>3
<1>7. QED
  BY <1>2, <1>3, <1>4, <1>5, <1>6 DEF Contributions, Latency

(* A set of warnings with one more warning is greater. *)
LEMMA OneMoreWarning ==
    ASSUME NEW c, NEW d, NEW w, w \notin Warnings(c), Warnings(d) = Warnings(c) \cup {w}
    PROVE  Cardinality(Warnings(c)) < Cardinality(Warnings(d))
<1>1. IsFiniteSet(Warnings(c)) /\ Cardinality(Warnings(c)) \in Nat
  BY WarningsAreFew
<1>2. Cardinality(Warnings(d)) = Cardinality(Warnings(c)) + 1
  BY <1>1, FS_AddElement
<1>3. QED
  BY <1>1, <1>2

(* The first of a ranking is not one with an unknown cost, or latency, where a
   candidate alike in everything else is known to have the least. *)
LEMMA FirstIsKnown ==
    ASSUME question \in Questions, RequestErrors = {},
           NEW V, IsFiniteSet(V), \A x \in V : Rated(x) /\ DOMAIN x = Fields,
           NEW p, Scoring(p), NEW s \in Rankings(V, p), NEW c \in V,
           ExplicitHalves(c) = ExplicitHalves(s[1])
    PROVE  /\ ~(/\ Alike(c, s[1], {"inputCost", "outputCost"})
                /\ Cost(s[1]) = Unknown /\ Cost(c) # Unknown
                /\ Cost(c) = Min(KnownCosts(V)))
           /\ ~(/\ Alike(c, s[1], {"latency"})
                /\ c.latency # Unknown /\ s[1].latency = Unknown
                /\ c.latency = Min(KnownLatencies(V)))
<1> DEFINE d == s[1]
           A == Contributions(c, V, p)
           B == Contributions(d, V, p)
<1>1. V # {} /\ p.neutral \in BOOLEAN /\ p.weights.cost \in Nat /\ p.weights.latency \in Nat
  BY DEF Scoring, Components
<1>2. \A x \in V : Score(x, V, p) \in Int
  <2> TAKE x \in V
  <2>1. Contributions(x, V, p) \in [Components -> Int]
    BY PartsAreIntegers
  <2>2. \A name \in Components : Contributions(x, V, p)[name] <= Contributions(x, V, p)[name]
    <3> TAKE name \in Components
    <3>1. PICK k \in Int : k = Contributions(x, V, p)[name]
      BY <2>1
    <3>2. QED
      BY <3>1
  <2>3. QED
    BY <2>2, ScoreRises
<1>3. /\ d \in V
      /\ \A x \in V : /\ Score(x, V, p) <= Score(d, V, p)
                      /\ Score(x, V, p) = Score(d, V, p)
                            => Cardinality(Warnings(d)) <= Cardinality(Warnings(x))
  <2>1. /\ s \in Seq(V) /\ s # <<>> /\ Range(s) = V
        /\ \A i \in 1 .. Len(s) :
                 /\ Score(s[i], V, p) <= Score(s[1], V, p)
                 /\ Score(s[i], V, p) = Score(s[1], V, p)
                       => Cardinality(Warnings(s[1])) <= Cardinality(Warnings(s[i]))
    BY <1>1, <1>2, RankingFacts
  <2>2. d \in V
    BY <2>1
  <2>3. \A x \in V : \E i \in 1 .. Len(s) : x = s[i]
    BY <2>1 DEF Range
  <2>4. QED
    BY <2>1, <2>2, <2>3
<1>4. Cardinality(Warnings(c)) \in Nat /\ Cardinality(Warnings(d)) \in Nat
  BY WarningsAreFew
<1>5. ASSUME \A name \in Components : B[name] <= A[name]
      PROVE  Cardinality(Warnings(d)) <= Cardinality(Warnings(c))
  <2>1. Score(d, V, p) <= Score(c, V, p)
    BY <1>3, <1>5, ScoreRises
  <2>2. Score(c, V, p) \in Int /\ Score(d, V, p) \in Int
    BY <1>2, <1>3
  <2>3. QED
    BY <1>3, <2>1, <2>2
<1>6. A \in [Components -> Int] /\ B \in [Components -> Int]
  BY <1>3, PartsAreIntegers
<1>7. /\ KnownCosts(V) \in SUBSET Int /\ IsFiniteSet(KnownCosts(V)) /\ Unknown \notin KnownCosts(V)
      /\ KnownLatencies(V) \in SUBSET Int /\ IsFiniteSet(KnownLatencies(V))
      /\ Unknown \notin KnownLatencies(V)
      /\ {Cost(c), Cost(d)} \subseteq KnownCosts(V) \cup {Unknown}
      /\ {Latency(c), Latency(d)} \subseteq KnownLatencies(V) \cup {Unknown}
  BY <1>3, KnownIsFinite
<1>8. ASSUME Alike(c, d, {"inputCost", "outputCost"}), Cost(d) = Unknown, Cost(c) # Unknown,
             Cost(c) = Min(KnownCosts(V))
      PROVE  FALSE
  <2>1. /\ A.capability = B.capability /\ A.explicit = B.explicit /\ A.preferred = B.preferred
        /\ A.priority = B.priority /\ A.context = B.context /\ A.local = B.local /\ A.status = B.status
        /\ A.latency = B.latency /\ c.latency = d.latency /\ c.context = d.context
    BY <1>8, AlikeInAll
  <2>2. /\ A.cost = MetricShare(Cost(c), KnownCosts(V), 15, p, p.weights.cost)
        /\ B.cost = MetricShare(Cost(d), KnownCosts(V), 15, p, p.weights.cost)
    BY DEF Contributions
  <2>3. A.cost = p.weights.cost /\ B.cost <= p.weights.cost
    <3>1. PICK w \in Nat : w = p.weights.cost
      BY <1>1
    <3>2. PICK known \in SUBSET Int : known = KnownCosts(V) /\ IsFiniteSet(known) /\ Unknown \notin known
      BY <1>7
    <3>3. Cost(d) = Unknown /\ Cost(c) # Unknown /\ Cost(c) = Min(known)
      BY <1>8, <3>2 DEF Latency
    <3>4. Cost(c) \in known
      BY <1>7, <3>2, <3>3
    <3>5. PICK a \in known : a = Cost(c)
      BY <3>4
    <3>6. MetricShare(a, known, 15, p, w) = w
      BY <1>1, <3>2, <3>3, <3>5, MetricFacts
    <3>7. PICK b \in known \cup {Unknown} : b = Unknown
      OBVIOUS
    <3>8. MetricShare(b, known, 15, p, w) <= w
      BY <1>1, <3>2, <3>7, MetricFacts
    <3>9. QED
      BY <2>2, <3>1, <3>2, <3>3, <3>5, <3>6, <3>7, <3>8
  <2> HIDE DEF A, B
  <2>4. \A name \in Components : A[name] \in Int /\ B[name] \in Int
    BY <1>6
  <2>5. \A name \in Components : B[name] <= A[name]
    BY <2>1, <2>3, <2>4 DEF Components
  <2>6. Cardinality(Warnings(c)) < Cardinality(Warnings(d))
    <3>1. "cost unknown" \notin Warnings(c) /\ Warnings(d) = Warnings(c) \cup {"cost unknown"}
      BY <1>8, <2>1 DEF Warnings, When
    <3>2. QED
      BY <3>1, OneMoreWarning
  <2>7. QED
    BY <1>4, <1>5, <2>5, <2>6
<1>9. ASSUME Alike(c, d, {"latency"}), c.latency # Unknown, d.latency = Unknown,
             c.latency = Min(KnownLatencies(V))
      PROVE  FALSE
  <2>1. /\ A.capability = B.capability /\ A.explicit = B.explicit /\ A.preferred = B.preferred
        /\ A.priority = B.priority /\ A.context = B.context /\ A.local = B.local /\ A.status = B.status
        /\ A.cost = B.cost /\ Cost(c) = Cost(d) /\ c.context = d.context
    BY <1>9, AlikeInAll
  <2>2. /\ A.latency = MetricShare(Latency(c), KnownLatencies(V), 20, p, p.weights.latency)
        /\ B.latency = MetricShare(Latency(d), KnownLatencies(V), 20, p, p.weights.latency)
    BY DEF Contributions
  <2>3. A.latency = p.weights.latency /\ B.latency <= p.weights.latency
    <3>1. PICK w \in Nat : w = p.weights.latency
      BY <1>1
    <3>2. PICK known \in SUBSET Int : known = KnownLatencies(V) /\ IsFiniteSet(known) /\ Unknown \notin known
      BY <1>7
    <3>3. Latency(d) = Unknown /\ Latency(c) # Unknown /\ Latency(c) = Min(known)
      BY <1>9, <3>2 DEF Latency
    <3>4. Latency(c) \in known
      BY <1>7, <3>2, <3>3
    <3>5. PICK a \in known : a = Latency(c)
      BY <3>4
    <3>6. MetricShare(a, known, 20, p, w) = w
      BY <1>1, <3>2, <3>3, <3>5, MetricFacts
    <3>7. PICK b \in known \cup {Unknown} : b = Unknown
      OBVIOUS
    <3>8. MetricShare(b, known, 20, p, w) <= w
      BY <1>1, <3>2, <3>7, MetricFacts
    <3>9. QED
      BY <2>2, <3>1, <3>2, <3>3, <3>5, <3>6, <3>7, <3>8
  <2> HIDE DEF A, B
  <2>4. \A name \in Components : A[name] \in Int /\ B[name] \in Int
    BY <1>6
  <2>5. \A name \in Components : B[name] <= A[name]
    BY <2>1, <2>3, <2>4 DEF Components
  <2>6. Cardinality(Warnings(c)) < Cardinality(Warnings(d))
    <3>1. "latency unknown" \notin Warnings(c) /\ Warnings(d) = Warnings(c) \cup {"latency unknown"}
      BY <1>9, <2>1 DEF Warnings, When
    <3>2. QED
      BY <3>1, OneMoreWarning
  <2>7. QED
    BY <1>4, <1>5, <2>5, <2>6
<1>10. QED
  BY <1>8, <1>9

-----------------------------------------------------------------------------
(* What requests, presets and callers require of a route. *)
Meets(r) ==
    /\ request.required \cup given.required \cup PresetField("required") \subseteq r.capabilities
    /\ request.privacy = "local-only" \/ given.localRequired = "yes" => r.local
    /\ r.names \cap (request.excludedModels \cup given.excludedModels) = {}
    /\ r.provider \notin request.excludedProviders \cup given.excludedProviders
    /\ request.provider # None => r.provider = request.provider
    /\ request.model # None => request.model \in r.names
    /\ request.context # Unknown => r.context >= request.context
    /\ request.input # Unknown /\ request.output # Unknown => r.context >= request.input + request.output
    /\ OutputTokens > 0 /\ r.output # Unknown => r.output >= OutputTokens
    /\ r.enabled \/ given.allowDisabled = "yes"
    /\ {r.status, r.providerStatus} \subseteq
           IF given.statuses = {} THEN {"available", "metadata-only"} ELSE given.statuses
    /\ Listed("providerIds") # {} => r.provider \in Listed("providerIds")
    /\ Listed("modelIds") # {} => r.names \cap Listed("modelIds") # {}

BestIsKnown ==
    \A c \in Range(ranking) \ {Selected} :
        ExplicitHalves(c) = ExplicitHalves(Selected) =>
            /\ ~(/\ Alike(c, Selected, {"inputCost", "outputCost"})
                 /\ Cost(Selected) = Unknown /\ Cost(c) # Unknown
                 /\ Cost(c) = Min(KnownCosts(Range(ranking))))
            /\ ~(/\ Alike(c, Selected, {"latency"})
                 /\ c.latency # Unknown /\ Selected.latency = Unknown
                 /\ c.latency = Min(KnownLatencies(Range(ranking))))

RankingSound ==
    /\ ranking \in Seq(Range(ranking)) /\ ranking # <<>> /\ IsInjective(ranking)
    /\ \A r \in Range(ranking) : Meets(r)
    /\ BestIsKnown
    /\ merged.maxFallbacks \in Nat

(* What is ranked has passed the checks, and some candidate is viable. *)
LEMMA RefusalFacts ==
    /\ Refusal # "planned"
    /\ Refusal = "none" => RequestErrors = {} /\ Viable(Merged) # {}
<1>1. CASE RequestErrors # {}
  BY <1>1 DEF Refusal
<1>2. CASE RequestErrors = {} /\ question.preset # None /\ Preset = {}
  BY <1>2 DEF Refusal
<1>3. CASE RequestErrors = {} /\ ~(question.preset # None /\ Preset = {})
  BY <1>3 DEF Refusal
<1>4. QED
  BY <1>1, <1>2, <1>3

(* A candidate the filters let pass meets what each of the three asks. *)
LEMMA ViableMeets ==
    ASSUME question \in Questions, snapshot = Snapshot(question.source), RequestErrors = {},
           NEW r \in Viable(Merged)
    PROVE  Meets(r)
<1> DEFINE p == Merged
<1>1. r \in Candidates /\ Rejections(r, p) = {}
  BY DEF Viable
<1>2. /\ r.provider \notin p.excludedProviders
      /\ r.names \cap p.excludedModels = {}
      /\ p.required \subseteq r.capabilities
      /\ p.allowDisabled \/ r.enabled
      /\ {r.status, r.providerStatus} \subseteq p.statuses
      /\ OutsidePreset(r, p) = {}
      /\ OutsideRequest(r) = {} /\ TooSmall(r) = {} /\ NotLocal(r, p) = {}
  <2> HIDE DEF p
  <2>1. /\ When(r.provider \in p.excludedProviders, "provider_excluded") = {}
        /\ When(r.names \cap p.excludedModels # {}, "model_excluded") = {}
        /\ When(~(p.required \subseteq r.capabilities), "capability_missing") = {}
        /\ When(~p.allowDisabled /\ ~r.enabled, "disabled") = {}
        /\ When(~({r.status, r.providerStatus} \subseteq p.statuses), "unsupported_status") = {}
        /\ OutsidePreset(r, p) = {}
        /\ OutsideRequest(r) = {} /\ TooSmall(r) = {} /\ NotLocal(r, p) = {}
    BY <1>1 DEF Rejections
  <2>2. QED
    BY <2>1 DEF When
<1>3. request.required \cup given.required \cup PresetField("required") \subseteq r.capabilities
  BY <1>2 DEF Merged, MergedRequired
<1>4. request.privacy = "local-only" \/ given.localRequired = "yes" => r.local
  <2>1. request.privacy = "local-only" => r.local
    BY <1>2 DEF NotLocal, When
  <2>2. given.localRequired = "yes" => p.localRequired
    BY DEF Merged, Decided
  <2>3. p.localRequired => r.local
    <3> HIDE DEF p
    <3>1. QED
      BY <1>2 DEF NotLocal, When
  <2>4. QED
    BY <2>1, <2>2, <2>3
<1>5. r.names \cap (request.excludedModels \cup given.excludedModels) = {}
  BY <1>2 DEF Merged
<1>6. r.provider \notin request.excludedProviders \cup given.excludedProviders
  BY <1>2 DEF Merged
<1>7. /\ request.provider # None => r.provider = request.provider
      /\ request.model # None => request.model \in r.names
  BY <1>2 DEF OutsideRequest, When
<1>8. ASSUME request.input # Unknown, request.output # Unknown
      PROVE  r.context >= request.input + request.output
  <2>1. /\ request.input \in Nat /\ request.output \in Int /\ request.context \in Amount
    BY <1>8, RequestFacts DEF Amount
  <2>2. r.context \in Amount
    BY <1>1, CandidatesAreRated DEF Rated
  <2>3. PICK sum \in Int : sum = request.input + request.output
    BY <2>1
  <2>4. RequiredContext = Max({request.context, sum})
    BY <1>8, <2>3 DEF RequiredContext
  <2>5. request.context \in Int
    BY <2>1 DEF Amount, Unknown
  <2>6. RequiredContext \in Int /\ RequiredContext >= sum
    BY <2>3, <2>4, <2>5, MaxOfTwo
  <2>7. CASE RequiredContext = Unknown
    BY <2>2, <2>3, <2>6, <2>7 DEF Unknown, Amount
  <2>8. CASE RequiredContext # Unknown
    <3>1. ~(r.context < RequiredContext)
      BY <1>2, <2>8 DEF TooSmall, When
    <3>2. QED
      BY <2>2, <2>3, <2>6, <3>1 DEF Amount, Unknown
  <2>9. QED
    BY <2>7, <2>8
<1>9. ASSUME request.context # Unknown
      PROVE  r.context >= request.context
  <2>1. /\ request.context \in Nat /\ request.input \in Amount /\ request.output \in Int
    BY <1>9, RequestFacts DEF Amount
  <2>2. r.context \in Amount
    BY <1>1, CandidatesAreRated DEF Rated
  <2> DEFINE estimate == IF request.input # Unknown /\ request.output # Unknown
                         THEN request.input + request.output ELSE Unknown
  <2>3. estimate \in Int /\ RequiredContext = Max({request.context, estimate})
    BY <2>1 DEF RequiredContext, Amount, Unknown
  <2> HIDE DEF estimate
  <2>4. RequiredContext \in Int /\ RequiredContext >= request.context
    BY <2>1, <2>3, MaxOfTwo
  <2>5. RequiredContext # Unknown
    BY <2>1, <2>4 DEF Unknown
  <2>6. ~(r.context < RequiredContext)
    BY <1>2, <2>5 DEF TooSmall, When
  <2>7. QED
    BY <2>1, <2>2, <2>4, <2>6 DEF Amount, Unknown
<1>10. OutputTokens > 0 /\ r.output # Unknown => r.output >= OutputTokens
  <2>1. OutputTokens \in Int /\ r.output \in Amount
    BY <1>1, RequestFacts, CandidatesAreRated DEF Rated
  <2>2. OutputTokens > 0 /\ r.output # Unknown => ~(r.output < OutputTokens)
    BY <1>2 DEF TooSmall, When
  <2>3. QED
    BY <2>1, <2>2 DEF Amount, Unknown
<1>11. r.enabled \/ given.allowDisabled = "yes"
  BY <1>2 DEF Merged, Decided
<1>12. {r.status, r.providerStatus} \subseteq
          IF given.statuses = {} THEN {"available", "metadata-only"} ELSE given.statuses
  BY <1>2 DEF Merged
<1>13. /\ Listed("providerIds") # {} => r.provider \in Listed("providerIds")
       /\ Listed("modelIds") # {} => r.names \cap Listed("modelIds") # {}
  <2>1. p.providerIds = Listed("providerIds") /\ p.modelIds = Listed("modelIds")
    BY DEF Merged, Listed
  <2>2. /\ p.providerIds # {} => r.provider \in p.providerIds
        /\ p.modelIds # {} => r.names \cap p.modelIds # {}
    <3> HIDE DEF p
    <3>1. QED
      BY <1>2 DEF OutsidePreset, When
  <2>3. QED
    BY <2>1, <2>2
<1>14. QED
  BY <1>3, <1>4, <1>5, <1>6, <1>7, <1>8, <1>9, <1>10, <1>11, <1>12, <1>13 DEF Meets

(* The merged policy has weights to score by and a limit that is no less than zero. *)
LEMMA MergedFacts ==
    ASSUME question \in Questions, snapshot = Snapshot(question.source), RequestErrors = {}
    PROVE  Scoring(Merged) /\ Merged.maxFallbacks \in Nat
<1>1. given.weights \in [Components -> Nat] /\ given.neutral \in BOOLEAN /\ IsFiniteSet(given.preferred)
      /\ given.maxFallbacks \in Int
  BY QuestionsAssumption DEF given
<1>2. IsFiniteSet(ProviderCapabilities)
  <2> DEFINE f == <<"chat", "streaming", "tools", "vision", "audio", "reasoning", "embeddings", "local",
                    "structured-output">>
  <2>1. f \in Surjection(1 .. 9, ProviderCapabilities)
    BY DEF Surjection, ProviderCapabilities
  <2>2. IsFiniteSet(1 .. 9)
    <3>1. 1 \in Int /\ 9 \in Int
      OBVIOUS
    <3>2. QED
      BY <3>1, FS_Interval, Zenon
  <2>3. QED
    BY <2>1, <2>2, FS_Surjection
<1>3. IsFiniteSet(PresetField("preferred"))
  <2>1. \A q \in snapshot.presets : q.preferred \subseteq ProviderCapabilities
    BY DEF Snapshot, PresetOf, Capabilities
  <2>2. PresetField("preferred") \subseteq ProviderCapabilities
    BY <2>1 DEF PresetField, Preset
  <2>3. QED
    BY <1>2, <2>2, FS_Subset
<1>4. IsFiniteSet(request.preferred)
  <2>1. request.preferred \subseteq ProviderCapabilities
    BY DEF RequestErrors, CapabilityErrors, When
  <2>2. QED
    BY <1>2, <2>1, FS_Subset
<1>5. IsFiniteSet(PresetField("preferred") \cup request.preferred \cup given.preferred)
  BY <1>1, <1>3, <1>4, FS_Union
<1>6. Scoring(Merged)
  BY <1>1, <1>5 DEF Scoring, Merged
<1>7. Merged.maxFallbacks \in Nat
  <2>1. Min({given.maxFallbacks, 10}) = IF given.maxFallbacks <= 10 THEN given.maxFallbacks ELSE 10
    BY <1>1, MinOfTwo
  <2>2. Merged.maxFallbacks = IF given.maxFallbacks < 0 THEN 3 ELSE Min({given.maxFallbacks, 10})
    BY DEF Merged
  <2>3. QED
    BY <1>1, <2>1, <2>2
<1>8. QED
  BY <1>6, <1>7

(* The first ranking is sound. *)
LEMMA RankIsSound ==
    ASSUME question \in Questions, snapshot = Snapshot(question.source), Rank
    PROVE  RankingSound'
<1> DEFINE V == Viable(Merged)
<1>1. RequestErrors = {} /\ V # {}
  BY RefusalFacts DEF Rank
<1>2. ranking' \in Rankings(V, Merged) /\ merged' = Merged /\ question' = question /\ snapshot' = snapshot
  BY DEF Rank
<1>3. IsFiniteSet(V) /\ \A c \in V : Rated(c) /\ DOMAIN c = Fields
  <2>1. V \in SUBSET Candidates
    BY DEF Viable
  <2>2. QED
    BY <2>1, CandidatesAreFinite, CandidatesAreRated, FS_Subset
<1>4. Scoring(Merged) /\ Merged.maxFallbacks \in Nat
  BY <1>1, MergedFacts
<1>5. \A c \in V : Score(c, V, Merged) \in Int
  <2> TAKE c \in V
  <2>1. Contributions(c, V, Merged) \in [Components -> Int]
    BY <1>1, <1>3, <1>4, PartsAreIntegers
  <2>2. \A name \in Components : Contributions(c, V, Merged)[name] <= Contributions(c, V, Merged)[name]
    <3> TAKE name \in Components
    <3>1. PICK k \in Int : k = Contributions(c, V, Merged)[name]
      BY <2>1
    <3>2. QED
      BY <3>1
  <2>3. QED
    BY <1>1, <1>3, <1>4, <2>2, ScoreRises
<1> HIDE DEF V
<1>6. ranking' \in Seq(V) /\ ranking' # <<>> /\ Range(ranking') = V /\ IsInjective(ranking')
  BY <1>1, <1>2, <1>3, <1>5, RankingFacts
<1>7. \A r \in V : Meets(r)
  BY <1>1, ViableMeets DEF V
<1>8. \A r \in V : Meets(r)'
  BY <1>2, <1>7 DEF Meets, Listed, OutputTokens, request, given, PresetField, Preset
<1>9. \A c \in V : ExplicitHalves(c) = ExplicitHalves(ranking'[1]) =>
            /\ ~(/\ Alike(c, ranking'[1], {"inputCost", "outputCost"})
                 /\ Cost(ranking'[1]) = Unknown /\ Cost(c) # Unknown
                 /\ Cost(c) = Min(KnownCosts(V)))
            /\ ~(/\ Alike(c, ranking'[1], {"latency"})
                 /\ c.latency # Unknown /\ (ranking'[1]).latency = Unknown
                 /\ c.latency = Min(KnownLatencies(V)))
  BY <1>1, <1>2, <1>3, <1>4, FirstIsKnown
<1>10. BestIsKnown'
  <2>1. Head(ranking') = ranking'[1]
    BY <1>6
  <2>2. \A c : /\ ExplicitHalves(c)' = ExplicitHalves(c)
               /\ Cost(c)' = Cost(c)
    BY <1>2 DEF ExplicitHalves, Cost, OutputTokens, request
  <2>3. (ExplicitHalves(Selected))' = ExplicitHalves(ranking'[1]) /\ (Cost(Selected))' = Cost(ranking'[1])
    BY <1>2, <2>1 DEF ExplicitHalves, Cost, OutputTokens, request, Selected
  <2>4. KnownCosts(Range(ranking))' = KnownCosts(V) /\ KnownLatencies(Range(ranking))' = KnownLatencies(V)
    BY <1>6, <2>2 DEF KnownCosts, KnownLatencies, Latency
  <2>5. Selected' = ranking'[1] /\ Range(ranking') = V
    BY <1>6, <2>1 DEF Selected
  <2>6. QED
    BY <1>9, <2>2, <2>3, <2>4, <2>5 DEF BestIsKnown
<1>11. QED
  BY <1>2, <1>4, <1>6, <1>8, <1>10 DEF RankingSound

DistinctRoutes == \A c, d \in Range(ranking) : SameRoute(c, d) => c = d
AllProviders == {c.provider : c \in Range(ranking)}

\* the providers of the selected route and of the first n fallbacks
Seen(n) == {Selected.provider} \cup {chain[j].provider : j \in 1 .. n}

ChainSound ==
    /\ index \in 0 .. Len(ranking)
    /\ chain \in Seq(Range(ranking))
    /\ Len(chain) <= merged.maxFallbacks
    /\ \A i \in DOMAIN chain : chain[i] # Selected
    /\ DistinctRoutes => IsInjective(chain)
    /\ merged.diverse => \A i \in DOMAIN chain :
          chain[i].provider \in Seen(i - 1) => AllProviders \subseteq Seen(i - 1)

(* What the first loop has seen is in the chain or of a provider that is used. *)
Spreading ==
    /\ used = Seen(Len(chain))
    /\ \A i \in DOMAIN chain : \E j \in 1 .. index : chain[i] = ranking[j]
    /\ \A i \in 1 .. index : ranking[i].provider \in used

(* The second loop starts when every provider is used, and leaves no route behind. *)
Filled ==
    Planned /\ merged.diverse =>
        /\ Full \/ AllProviders \subseteq Seen(Len(chain))
        /\ \A i \in 1 .. index : \E c \in {Selected} \cup Range(chain) : SameRoute(ranking[i], c)
        /\ stage = "done" => Full \/ index = Len(ranking)

Ranked == stage \in {"spread", "fill"} \/ IsPlan

RoutingIInv ==
    /\ question \in Questions
    /\ stage \in {"load", "resolve", "spread", "fill", "done"}
    /\ stage # "load" => snapshot = Snapshot(question.source)
    /\ stage \in {"load", "resolve"} => chain = <<>> /\ index = 0
    /\ Ranked => RankingSound /\ ChainSound
    /\ stage = "spread" => Spreading
    /\ stage = "fill" \/ IsPlan => Filled

(* A step that leaves the ranking alone leaves it sound. *)
LEMMA RankingStays ==
    ASSUME RankingSound, UNCHANGED <<question, snapshot, merged, ranking>>
    PROVE  RankingSound'
<1>1. question' = question /\ snapshot' = snapshot /\ merged' = merged /\ ranking' = ranking
  OBVIOUS
<1>2. \A r : Meets(r)' = Meets(r)
  BY <1>1 DEF Meets, Listed, OutputTokens, request, given, PresetField, Preset
<1>3. \A c : ExplicitHalves(c)' = ExplicitHalves(c) /\ Cost(c)' = Cost(c)
  BY <1>1 DEF ExplicitHalves, Cost, OutputTokens, request
<1>4. Selected' = Selected
  BY <1>1 DEF Selected
<1>5. ExplicitHalves(Selected)' = ExplicitHalves(Selected) /\ Cost(Selected)' = Cost(Selected)
  BY <1>1 DEF ExplicitHalves, Cost, OutputTokens, request, Selected
<1>6. KnownCosts(Range(ranking))' = KnownCosts(Range(ranking))
  BY <1>1, <1>3 DEF KnownCosts
<1>7. KnownLatencies(Range(ranking))' = KnownLatencies(Range(ranking))
  BY <1>1 DEF KnownLatencies, Latency
<1>8. BestIsKnown'
  BY <1>1, <1>3, <1>4, <1>5, <1>6, <1>7 DEF RankingSound, BestIsKnown
<1>9. QED
  BY <1>1, <1>2, <1>8 DEF RankingSound

(* A fallback added to the chain. *)
LEMMA SeenGrows ==
    ASSUME NEW S, chain \in Seq(S), NEW n \in Nat, n = Len(chain), NEW c, chain' = Append(chain, c), ranking' = ranking
    PROVE  /\ \A m \in 0 .. n : Seen(m)' = Seen(m)
           /\ Seen(n + 1)' = Seen(n) \cup {c.provider}
           /\ Len(chain') = n + 1 /\ DOMAIN chain' = DOMAIN chain \cup {n + 1}
           /\ chain'[n + 1] = c /\ \A i \in DOMAIN chain : chain'[i] = chain[i]
           /\ Range(chain') = Range(chain) \cup {c}
<1>1. /\ n \in Nat /\ DOMAIN chain = 1 .. n
      /\ Len(chain') = n + 1 /\ DOMAIN chain' = 1 .. (n + 1)
      /\ chain'[n + 1] = c /\ \A i \in 1 .. n : chain'[i] = chain[i]
  OBVIOUS
<1>2. Selected' = Selected
  BY DEF Selected
<1>3. \A k \in 0 .. n : Seen(k)' = Seen(k)
  <2> TAKE k \in 0 .. n
  <2>1. \A j \in 1 .. k : chain'[j] = chain[j]
    BY <1>1
  <2>2. {(chain'[j]).provider : j \in 1 .. k} = {chain[j].provider : j \in 1 .. k}
    BY <2>1
  <2>3. QED
    BY <1>2, <2>2 DEF Seen
<1>4. Seen(n + 1)' = Seen(n) \cup {c.provider}
  <2>1. 1 .. (n + 1) = 1 .. n \cup {n + 1}
    BY <1>1
  <2>2. {(chain'[j]).provider : j \in 1 .. (n + 1)} = {chain[j].provider : j \in 1 .. n} \cup {c.provider}
    BY <1>1, <2>1
  <2>3. QED
    BY <1>1, <1>2, <2>2 DEF Seen
<1>5. 1 .. (n + 1) = 1 .. n \cup {n + 1}
  BY <1>1
<1>6. Range(chain') = Range(chain) \cup {c}
  BY <1>1, <1>5 DEF Range
<1>7. QED
  BY <1>1, <1>3, <1>4, <1>5, <1>6

(* The selected route is the first of the ranking. *)
LEMMA SelectedFacts ==
    ASSUME RankingSound
    PROVE  Selected = ranking[1] /\ 1 \in DOMAIN ranking /\ Selected \in Range(ranking)
<1>1. ranking \in Seq(Range(ranking)) /\ ranking # <<>>
  BY DEF RankingSound
<1>2. Head(ranking) = ranking[1] /\ 1 \in DOMAIN ranking
  BY <1>1
<1>3. QED
  BY <1>2 DEF Selected, Range

(* The first loop: a provider is repeated only when none is left. *)
LEMMA SpreadKeeps ==
    ASSUME RoutingIInv, Spread
    PROVE  RankingSound' /\ ChainSound' /\ Spreading'
<1> DEFINE S == Range(ranking)
<1>0. PICK n \in Nat : n = Len(chain)
  BY DEF RoutingIInv, Ranked, Spread, ChainSound
<1>1. RankingSound /\ ChainSound /\ Spreading /\ stage' = "spread"
  BY DEF RoutingIInv, Ranked, Spread
<1>2. UNCHANGED <<question, snapshot, merged, ranking>> /\ index' = index + 1 /\ index < Len(ranking) /\ ~Full
  BY DEF Spread
<1>3. RankingSound'
  BY <1>1, <1>2, RankingStays
<1>4. /\ ranking \in Seq(S) /\ Len(ranking) \in Nat /\ IsInjective(ranking)
      /\ chain \in Seq(S) /\ n = Len(chain) /\ DOMAIN chain = 1 .. n
      /\ index \in Nat /\ index' \in 0 .. Len(ranking) /\ index + 1 \in DOMAIN ranking
  BY <1>0, <1>1, <1>2 DEF RankingSound, ChainSound
<1>5. Candidate \in S /\ Candidate = ranking[index + 1]
  BY <1>4 DEF Candidate, Range
<1>6. Selected' = Selected /\ AllProviders' = AllProviders /\ DistinctRoutes' = DistinctRoutes
  BY <1>2 DEF Selected, AllProviders, DistinctRoutes, SameRoute
<1>7. CASE UNCHANGED <<chain, used>> /\ (SameRoute(Candidate, Selected) \/ Waits(Candidate))
  <2>1. \A k : Seen(k)' = Seen(k)
    BY <1>6, <1>7 DEF Seen
  <2>2. ChainSound'
    BY <1>1, <1>2, <1>4, <1>6, <1>7, <2>1 DEF ChainSound
  <2>3. Candidate.provider \in used
    BY <1>1, <1>7 DEF SameRoute, Waits, Spreading, Seen
  <2>4. \A i \in 1 .. (index + 1) : ranking[i].provider \in used
    <3>1. \A i \in 1 .. (index + 1) : i \in 1 .. index \/ i = index + 1
      BY <1>4
    <3>2. QED
      BY <1>1, <1>5, <2>3, <3>1 DEF Spreading
  <2>5. \A i \in DOMAIN chain : \E j \in 1 .. (index + 1) : chain[i] = ranking[j]
    <3>1. 1 .. index \subseteq 1 .. (index + 1)
      BY <1>4
    <3>2. QED
      BY <1>1, <3>1 DEF Spreading
  <2>6. used' = Seen(Len(chain))'
    BY <1>1, <1>7, <2>1 DEF Spreading
  <2>7. QED
    BY <1>2, <1>3, <1>7, <2>2, <2>4, <2>5, <2>6 DEF Spreading
<1>8. CASE /\ chain' = Append(chain, Candidate) /\ used' = used \cup {Candidate.provider}
           /\ ~SameRoute(Candidate, Selected) /\ ~Waits(Candidate)
  <2>1. /\ \A k \in 0 .. n : Seen(k)' = Seen(k)
        /\ Seen(n + 1)' = Seen(n) \cup {Candidate.provider}
        /\ Len(chain') = n + 1 /\ DOMAIN chain' = DOMAIN chain \cup {n + 1}
        /\ chain'[n + 1] = Candidate /\ \A i \in DOMAIN chain : chain'[i] = chain[i]
    BY <1>2, <1>4, <1>8, SeenGrows
  <2>2. chain' \in Seq(S)
    BY <1>4, <1>5, <1>8
  <2>3. Len(chain') <= merged.maxFallbacks
    BY <1>1, <1>2, <1>4, <2>1 DEF Full, RankingSound
  <2>4. \A i \in DOMAIN chain' : chain'[i] # Selected
    BY <1>1, <1>8, <2>1 DEF ChainSound, SameRoute
  <2>5. \A i \in DOMAIN chain : chain[i] # Candidate
    <3> TAKE i \in DOMAIN chain
    <3>1. PICK j \in 1 .. index : chain[i] = ranking[j]
      BY <1>1 DEF Spreading
    <3>2. j \in DOMAIN ranking /\ j # index + 1
      BY <1>2, <1>4
    <3>3. QED
      BY <1>4, <1>5, <3>1, <3>2 DEF IsInjective
  <2>6. DistinctRoutes => IsInjective(chain')
    BY <1>1, <2>1, <2>5 DEF ChainSound, IsInjective
  <2>7. ASSUME merged.diverse, NEW i \in DOMAIN chain', (chain'[i]).provider \in Seen(i - 1)'
        PROVE  AllProviders \subseteq Seen(i - 1)'
    <3>1. CASE i \in DOMAIN chain
      <4>1. i - 1 \in 0 .. n
        BY <1>4, <3>1
      <4>2. QED
        BY <1>1, <2>1, <2>7, <3>1, <4>1 DEF ChainSound
    <3>2. CASE i = n + 1
      <4>1. i - 1 = n /\ n \in 0 .. n
        BY <1>4, <3>2
      <4>2. Candidate.provider \in used /\ used = Seen(n)
        BY <1>1, <1>4, <2>1, <2>7, <3>2, <4>1 DEF Spreading
      <4>3. \A c \in S : c.provider \in used
        BY <1>8, <2>7, <4>2 DEF Waits
      <4>4. QED
        BY <2>1, <4>1, <4>2, <4>3 DEF AllProviders
    <3>3. QED
      BY <2>1, <3>1, <3>2
  <2>8. ChainSound'
    BY <1>2, <1>4, <1>6, <2>2, <2>3, <2>4, <2>6, <2>7 DEF ChainSound
  <2>9. used' = Seen(Len(chain))'
    <3>1. used' = Seen(n) \cup {Candidate.provider}
      BY <1>1, <1>4, <1>8 DEF Spreading
    <3>2. used' = Seen(n + 1)'
      BY <2>1, <3>1
    <3>3. QED
      BY <2>1, <3>2 DEF Seen
  <2>10. \A i \in DOMAIN chain' : \E j \in 1 .. (index + 1) : chain'[i] = ranking[j]
    <3>1. 1 .. index \subseteq 1 .. (index + 1) /\ index + 1 \in 1 .. (index + 1)
      BY <1>4
    <3>2. QED
      BY <1>1, <1>5, <2>1, <3>1 DEF Spreading
  <2>11. \A i \in 1 .. (index + 1) : ranking[i].provider \in used'
    <3>1. \A i \in 1 .. (index + 1) : i \in 1 .. index \/ i = index + 1
      BY <1>4
    <3>2. QED
      BY <1>1, <1>5, <1>8, <3>1 DEF Spreading
  <2>12. QED
    BY <1>2, <1>3, <2>8, <2>9, <2>10, <2>11 DEF Spreading
<1>9. QED
  BY <1>7, <1>8 DEF Spread

(* Where it ends with room in the chain, it has seen every provider. *)
LEMMA SpreadEndsWell ==
    ASSUME RoutingIInv, SpreadEnds
    PROVE  RankingSound' /\ ChainSound' /\ Filled'
<1>1. /\ RankingSound /\ ChainSound /\ Spreading
      /\ UNCHANGED <<question, snapshot, merged, ranking, chain>>
      /\ index' = 0 /\ stage' = "fill"
  BY DEF RoutingIInv, Ranked, SpreadEnds
<1>2. RankingSound'
  BY <1>1, RankingStays
<1>3. /\ Selected' = Selected /\ AllProviders' = AllProviders /\ DistinctRoutes' = DistinctRoutes
      /\ \A k : Seen(k)' = Seen(k)
      /\ Planned' = Planned /\ Full' = Full
  BY <1>1 DEF Selected, AllProviders, DistinctRoutes, SameRoute, Seen, Planned, Full
<1>4. Len(ranking) \in Nat /\ DOMAIN ranking = 1 .. Len(ranking)
  BY <1>1 DEF RankingSound
<1>5. ChainSound'
  BY <1>1, <1>3, <1>4 DEF ChainSound
<1>6. ASSUME Planned PROVE Full \/ AllProviders \subseteq Seen(Len(chain))
  <2>1. CASE index = Len(ranking)
    BY <1>1, <1>4, <2>1 DEF Spreading, AllProviders, Range
  <2>2. QED
    BY <1>6, <2>1 DEF SpreadEnds
<1>7. Filled'
  BY <1>1, <1>3, <1>6 DEF Filled
<1>8. QED
  BY <1>2, <1>5, <1>7

(* The second loop: what it appends was not there, and what it passes over was. *)
LEMMA FillKeeps ==
    ASSUME RoutingIInv, Fill
    PROVE  RankingSound' /\ ChainSound' /\ Filled'
<1>0. PICK n \in Nat : n = Len(chain)
  BY DEF RoutingIInv, Ranked, Fill, ChainSound
<1> DEFINE S == Range(ranking)
           Present == {Selected} \cup Range(chain)
<1>1. RankingSound /\ ChainSound /\ Filled /\ stage' = "fill" /\ stage = "fill"
  BY DEF RoutingIInv, Ranked, Fill
<1>2. /\ UNCHANGED <<question, snapshot, merged, ranking>> /\ index' = index + 1
      /\ index < Len(ranking) /\ ~Full /\ Planned /\ merged.diverse
  BY DEF Fill, Filling
<1>3. RankingSound'
  BY <1>1, <1>2, RankingStays
<1>4. /\ ranking \in Seq(S) /\ Len(ranking) \in Nat
      /\ chain \in Seq(S) /\ n = Len(chain) /\ DOMAIN chain = 1 .. n
      /\ index \in Nat /\ index' \in 0 .. Len(ranking) /\ index + 1 \in DOMAIN ranking
  BY <1>0, <1>1, <1>2 DEF RankingSound, ChainSound
<1>5. Candidate \in S /\ Candidate = ranking[index + 1]
  BY <1>4 DEF Candidate, Range
<1>6. /\ Selected' = Selected /\ AllProviders' = AllProviders /\ DistinctRoutes' = DistinctRoutes
      /\ Planned' = Planned
  BY <1>2 DEF Selected, AllProviders, DistinctRoutes, SameRoute, Planned
<1>7. AllProviders \subseteq Seen(n)
  BY <1>1, <1>2, <1>4 DEF Filled
<1>8. \A i \in 1 .. (index + 1) : i \in 1 .. index \/ i = index + 1
  BY <1>4
<1>9. CASE chain' = chain /\ \E c \in Present : SameRoute(Candidate, c)
  <2>1. \A k : Seen(k)' = Seen(k)
    BY <1>6, <1>9 DEF Seen
  <2>2. ChainSound'
    BY <1>1, <1>2, <1>4, <1>6, <1>9, <2>1 DEF ChainSound
  <2>3. \A i \in 1 .. (index + 1) : \E c \in Present : SameRoute(ranking[i], c)
    BY <1>1, <1>2, <1>5, <1>8, <1>9 DEF Filled
  <2>4. Filled'
    BY <1>1, <1>2, <1>6, <1>7, <1>9, <2>1, <2>3 DEF Filled, SameRoute
  <2>5. QED
    BY <1>3, <2>2, <2>4
<1>10. CASE chain' = Append(chain, Candidate) /\ ~\E c \in Present : SameRoute(Candidate, c)
  <2>1. /\ \A k \in 0 .. n : Seen(k)' = Seen(k)
        /\ Seen(n + 1)' = Seen(n) \cup {Candidate.provider}
        /\ Len(chain') = n + 1 /\ DOMAIN chain' = DOMAIN chain \cup {n + 1}
        /\ chain'[n + 1] = Candidate /\ \A i \in DOMAIN chain : chain'[i] = chain[i]
        /\ Range(chain') = Range(chain) \cup {Candidate}
    BY <1>2, <1>4, <1>10, SeenGrows
  <2>2. chain' \in Seq(S)
    BY <1>4, <1>5, <1>10
  <2>3. Len(chain') <= merged.maxFallbacks
    BY <1>1, <1>2, <1>4, <2>1 DEF Full, RankingSound
  <2>4. \A i \in DOMAIN chain' : chain'[i] # Selected
    BY <1>1, <1>10, <2>1 DEF ChainSound, SameRoute
  <2>5. \A i \in DOMAIN chain : chain[i] # Candidate
    BY <1>10 DEF Range, SameRoute
  <2>6. DistinctRoutes => IsInjective(chain')
    BY <1>1, <2>1, <2>5 DEF ChainSound, IsInjective
  <2>7. ASSUME NEW i \in DOMAIN chain', (chain'[i]).provider \in Seen(i - 1)'
        PROVE  AllProviders \subseteq Seen(i - 1)'
    <3>1. CASE i \in DOMAIN chain
      <4>1. i - 1 \in 0 .. n
        BY <1>4, <3>1
      <4>2. QED
        BY <1>1, <1>2, <2>1, <2>7, <3>1, <4>1 DEF ChainSound
    <3>2. CASE i = n + 1
      <4>1. i - 1 = n /\ n \in 0 .. n
        BY <1>4, <3>2
      <4>2. QED
        BY <1>7, <2>1, <4>1
    <3>3. QED
      BY <2>1, <3>1, <3>2
  <2>8. ChainSound'
    BY <1>2, <1>4, <1>6, <2>2, <2>3, <2>4, <2>6, <2>7 DEF ChainSound
  <2>9. \A i \in 1 .. (index + 1) : \E c \in Present \cup {Candidate} : SameRoute(ranking[i], c)
    <3>1. SameRoute(Candidate, Candidate)
      BY DEF SameRoute
    <3>2. QED
      BY <1>1, <1>2, <1>5, <1>8, <3>1 DEF Filled
  <2>10. AllProviders' \subseteq Seen(Len(chain))'
    <3>1. AllProviders \subseteq Seen(n + 1)'
      BY <1>7, <2>1
    <3>2. QED
      BY <1>6, <2>1, <3>1 DEF Seen
  <2>11. Filled'
    BY <1>1, <1>2, <1>6, <2>1, <2>9, <2>10 DEF Filled, SameRoute
  <2>12. QED
    BY <1>3, <2>8, <2>11
<1>11. QED
  BY <1>9, <1>10 DEF Fill

(* The decision leaves the plan as it is. *)
LEMMA DecideKeeps ==
    ASSUME RoutingIInv, Decide
    PROVE  RankingSound' /\ ChainSound' /\ Filled'
<1>1. /\ RankingSound /\ ChainSound /\ Filled /\ ~Filling
      /\ UNCHANGED <<question, snapshot, merged, ranking, index, chain, used>> /\ stage' = "done"
  BY DEF RoutingIInv, Ranked, Decide
<1>2. RankingSound'
  BY <1>1, RankingStays
<1>3. /\ Selected' = Selected /\ AllProviders' = AllProviders /\ DistinctRoutes' = DistinctRoutes
      /\ \A k : Seen(k)' = Seen(k)
      /\ Planned' = Planned /\ Full' = Full
  BY <1>1 DEF Selected, AllProviders, DistinctRoutes, SameRoute, Seen, Planned, Full
<1>4. ChainSound'
  BY <1>1, <1>3 DEF ChainSound
<1>5. ASSUME Planned, merged.diverse PROVE Full \/ index = Len(ranking)
  <2>1. index \in 0 .. Len(ranking) /\ Len(ranking) \in Nat
    BY <1>1 DEF ChainSound, RankingSound
  <2>2. QED
    BY <1>1, <1>5, <2>1 DEF Filling
<1>6. Filled'
  BY <1>1, <1>3, <1>5 DEF Filled, SameRoute
<1>7. QED
  BY <1>2, <1>4, <1>6

(* The invariant holds of a question that is not resolved, and every step keeps it. *)
LEMMA RoutingInit == RouteInit => RoutingIInv
BY DEF RouteInit, RoutingIInv, Ranked, IsPlan

(* One step per action. *)
LEMMA RoutingStep == RoutingIInv /\ [RouteNext]_routeVars => RoutingIInv'
<1> SUFFICES ASSUME RoutingIInv, [RouteNext]_routeVars PROVE RoutingIInv'
  OBVIOUS
<1>1. CASE Load
  BY <1>1 DEF Load, RoutingIInv, Ranked, IsPlan
<1>2. CASE Refuse
  BY <1>2, RefusalFacts DEF Refuse, RoutingIInv, Ranked, IsPlan
<1>3. CASE Rank
  <2>1. /\ question \in Questions /\ snapshot = Snapshot(question.source) /\ chain = <<>> /\ index = 0
        /\ UNCHANGED <<question, snapshot, chain, index>> /\ stage' = "spread"
    BY <1>3 DEF Rank, RoutingIInv
  <2>2. RankingSound'
    BY <1>3, <2>1, RankIsSound
  <2>3. /\ Len(ranking') \in Nat /\ merged'.maxFallbacks \in Nat
    BY <2>2 DEF RankingSound
  <2>4. chain' \in Seq(Range(ranking')) /\ Len(chain') = 0 /\ DOMAIN chain' = {}
    BY <2>1
  <2>5. ChainSound'
    BY <2>1, <2>3, <2>4 DEF ChainSound, IsInjective
  <2>6. Spreading'
    <3>1. Seen(Len(chain))' = {(Selected').provider}
      BY <2>4 DEF Seen
    <3>2. used' = {(Selected').provider}
      BY <1>3 DEF Rank, Selected
    <3>3. QED
      BY <2>1, <2>4, <3>1, <3>2 DEF Spreading
  <2>7. QED
    BY <2>1, <2>2, <2>5, <2>6 DEF RoutingIInv, Ranked, IsPlan
<1>4. CASE Spread
  <2>1. stage' = "spread" /\ question' = question /\ snapshot' = snapshot /\ stage = "spread"
    BY <1>4 DEF Spread
  <2>2. QED
    BY <1>4, <2>1, SpreadKeeps DEF RoutingIInv, Ranked, IsPlan
<1>5. CASE SpreadEnds
  <2>1. stage' = "fill" /\ question' = question /\ snapshot' = snapshot /\ stage = "spread"
    BY <1>5 DEF SpreadEnds
  <2>2. QED
    BY <1>5, <2>1, SpreadEndsWell DEF RoutingIInv, Ranked, IsPlan
<1>6. CASE Fill
  <2>1. stage' = "fill" /\ question' = question /\ snapshot' = snapshot /\ stage = "fill"
    BY <1>6 DEF Fill
  <2>2. QED
    BY <1>6, <2>1, FillKeeps DEF RoutingIInv, Ranked, IsPlan
<1>7. CASE Decide
  <2>1. stage' = "done" /\ question' = question /\ snapshot' = snapshot /\ stage = "fill"
    BY <1>7 DEF Decide
  <2>2. QED
    BY <1>7, <2>1, DecideKeeps DEF RoutingIInv, Ranked, IsPlan
<1>8. CASE UNCHANGED routeVars
  <2>1. /\ UNCHANGED <<question, snapshot, stage, merged, ranking, index, chain, used, answer>>
    BY <1>8 DEF routeVars
  <2>2. RankingSound => RankingSound'
    BY <2>1, RankingStays
  <2>3. /\ Selected' = Selected /\ AllProviders' = AllProviders /\ DistinctRoutes' = DistinctRoutes
        /\ \A k : Seen(k)' = Seen(k)
        /\ Planned' = Planned /\ Full' = Full
    BY <2>1 DEF Selected, AllProviders, DistinctRoutes, SameRoute, Seen, Planned, Full
  <2>4. ChainSound => ChainSound'
    BY <2>1, <2>3 DEF ChainSound
  <2>5. Spreading => Spreading'
    BY <2>1, <2>3 DEF Spreading, Seen
  <2>6. Filled => Filled'
    BY <2>1, <2>3 DEF Filled, Seen, SameRoute
  <2>7. Ranked' = Ranked /\ IsPlan' = IsPlan
    BY <2>1 DEF Ranked, IsPlan
  <2>8. QED
    BY <2>1, <2>2, <2>4, <2>5, <2>6, <2>7 DEF RoutingIInv
<1>9. QED
  BY <1>1, <1>2, <1>3, <1>4, <1>5, <1>6, <1>7, <1>8 DEF RouteNext

(* The inductive invariant of resolveGatewayRoute: what a ranking guarantees of its
   candidates, and what the two loops of the fallback chain have seen. *)
THEOREM RoutingInductive == RouteSpec => []RoutingIInv
BY RoutingInit, RoutingStep, PTL DEF RouteSpec

(* RoutesMeetRequirements: the selected route and every fallback meet what the
   request, the preset and the caller require, for any registry and any policy
   (normalizeRoutingPolicy, filterGatewayRouteCandidates). *)
THEOREM RoutesAlwaysMeetRequirements == RouteSpec => []RoutesMeetRequirements
<1>1. RoutingIInv => RoutesMeetRequirements
  <2> SUFFICES ASSUME RoutingIInv, IsPlan, NEW r \in PlannedRoutes PROVE Meets(r)
    BY DEF RoutesMeetRequirements, Meets
  <2>1. RankingSound /\ ChainSound
    BY DEF RoutingIInv, Ranked
  <2>2. r \in Range(ranking)
    <3>1. Selected \in Range(ranking)
      BY <2>1, SelectedFacts
    <3>2. \A c \in Range(chain) : c \in Range(ranking)
      BY <2>1 DEF ChainSound, Range
    <3>3. QED
      BY <3>1, <3>2 DEF PlannedRoutes
  <2>3. QED
    BY <2>1, <2>2 DEF RankingSound
<1>2. QED
  BY <1>1, RoutingInductive, PTL

(* UnknownIsNotBest: a route whose cost or latency is unknown is not selected where
   one alike in everything else is known to have the best of it, for any weights and
   any rounding (scoreGatewayRouteCandidates, compareScoredCandidates). *)
THEOREM UnknownIsNeverBest == RouteSpec => []UnknownIsNotBest
<1>1. RoutingIInv => UnknownIsNotBest
  BY DEF RoutingIInv, Ranked, RankingSound, BestIsKnown, UnknownIsNotBest
<1>2. QED
  BY <1>1, RoutingInductive, PTL

(* PresetsReachTheirModels: a preset never turns away a model it names by its id
   (normalizeRoutingPresets, filterGatewayRouteCandidates). *)
THEOREM PresetsAlwaysReachTheirModels == RouteSpec => []PresetsReachTheirModels
<1>1. RoutingIInv => PresetsReachTheirModels
  <2> SUFFICES ASSUME RoutingIInv, stage # "load", NEW p \in snapshot.presets, NEW m \in snapshot.models,
                      m.id \in p.modelIds, m.provider # None
               PROVE  OutsidePreset(ModelCandidate(m),
                                    [providerIds |-> p.providerIds, modelIds |-> p.modelIds]) = {}
    BY DEF PresetsReachTheirModels
  <2> DEFINE models == snapshot.models
  <2>1. snapshot = Snapshot(question.source)
    BY DEF RoutingIInv
  <2>2. PICK raw \in Records(question.source, "routingPresets") : p = PresetOf(raw, models)
    BY <2>1 DEF Snapshot
  <2>3. p.modelIds = ModelIds(raw)
    BY <2>2 DEF PresetOf
  <2>4. m.provider \in p.providerIds
    <3>1. m \in {n \in models : n.id \in ModelIds(raw)}
      BY <2>3
    <3>2. p.providerIds = raw.providers
                          \cup ({k.provider : k \in {n \in models : n.id \in ModelIds(raw)}} \ {None})
      BY <2>2 DEF PresetOf
    <3>3. QED
      BY <3>1, <3>2
  <2>5. (ModelCandidate(m)).provider = m.provider /\ m.id \in (ModelCandidate(m)).names
    BY DEF ModelCandidate
  <2> HIDE DEF models
  <2>6. QED
    BY <2>4, <2>5 DEF OutsidePreset, When
<1>2. QED
  BY <1>1, RoutingInductive, PTL

(* A sequence without repetition has as many elements as it is long. *)
LEMMA LengthOfInjective ==
    ASSUME NEW S, NEW s \in Seq(S), IsInjective(s)
    PROVE  IsFiniteSet(Range(s)) /\ Cardinality(Range(s)) = Len(s)
<1>1. PICK n \in Nat : n = Len(s) /\ DOMAIN s = 1 .. n
  OBVIOUS
<1>2. s \in [1 .. n -> Range(s)]
  BY <1>1 DEF Range
<1>3. s \in Bijection(1 .. n, Range(s))
  BY <1>1, <1>2 DEF Bijection, Injection, Surjection, IsInjective, Range
<1>4. IsFiniteSet(1 .. n) /\ Cardinality(1 .. n) = n
  BY FS_Interval
<1>5. ExistsBijection(1 .. n, Range(s))
  BY <1>3 DEF ExistsBijection
<1>6. QED
  BY <1>1, <1>4, <1>5, FS_Bijection

(* ChainIsSpread: the chain names no route twice, is as long as the limit and the
   viable routes allow, and repeats a provider only when none is left out, for any
   ranking (planGatewayFallbackChain). *)
THEOREM ChainAlwaysSpread == RouteSpec => []ChainIsSpread
<1>1. RoutingIInv => ChainIsSpread
  <2> SUFFICES ASSUME RoutingIInv, IsPlan, Planned, merged.diverse, DistinctRoutes
               PROVE  LET route == <<Selected>> \o chain
                          Providers(n) == {route[i].provider : i \in 1 .. n}
                      IN /\ IsInjective(route)
                         /\ Len(chain) = Min({merged.maxFallbacks, Len(ranking) - 1})
                         /\ \A i \in 2 .. Len(route) :
                               route[i].provider \in Providers(i - 1)
                                   => {c.provider : c \in Range(ranking)} \subseteq Providers(i - 1)
    BY DEF ChainIsSpread, DistinctRoutes
  <2> DEFINE S == Range(ranking)
             route == <<Selected>> \o chain
             Providers(k) == {route[i].provider : i \in 1 .. k}
  <2>1. RankingSound /\ ChainSound /\ Filled /\ stage = "done"
    BY DEF RoutingIInv, Ranked, IsPlan
  <2>2. PICK n \in Nat : n = Len(chain)
    BY <2>1 DEF ChainSound
  <2>3. Selected \in S /\ chain \in Seq(S) /\ DOMAIN chain = 1 .. n
    BY <2>1, <2>2, SelectedFacts DEF ChainSound
  <2>4. /\ route \in Seq(S) /\ Len(route) = n + 1 /\ DOMAIN route = 1 .. (n + 1)
        /\ route[1] = Selected
        /\ \A i \in 1 .. n : route[i + 1] = chain[i]
        /\ \A i \in 2 .. (n + 1) : i - 1 \in 1 .. n /\ route[i] = chain[i - 1]
    BY <2>2, <2>3
  <2> HIDE DEF route
  <2>5. Range(route) = {Selected} \cup Range(chain)
    <3>1. \A x \in Range(route) : x \in {Selected} \cup Range(chain)
      <4> TAKE x \in Range(route)
      <4>1. PICK i \in 1 .. (n + 1) : x = route[i]
        BY <2>4 DEF Range
      <4>2. i = 1 \/ i \in 2 .. (n + 1)
        OBVIOUS
      <4>3. QED
        BY <2>3, <2>4, <4>1, <4>2, ZenonT(60) DEF Range
    <3>2. Selected \in Range(route)
      BY <2>4 DEF Range
    <3>3. \A x \in Range(chain) : x \in Range(route)
      <4> TAKE x \in Range(chain)
      <4>1. PICK i \in 1 .. n : x = chain[i]
        BY <2>3 DEF Range
      <4>2. i + 1 \in DOMAIN route
        BY <2>4
      <4>3. QED
        BY <2>4, <4>1, <4>2 DEF Range
    <3>4. QED
      BY <3>1, <3>2, <3>3
  <2>6. IsInjective(route)
    <3>1. IsInjective(chain) /\ \A i \in 1 .. n : chain[i] # Selected
      BY <2>1, <2>3 DEF ChainSound
    <3>2. ASSUME NEW i \in 1 .. (n + 1), NEW j \in 1 .. (n + 1), route[i] = route[j] PROVE i = j
      <4>1. i = 1 \/ i \in 2 .. (n + 1)
        OBVIOUS
      <4>2. j = 1 \/ j \in 2 .. (n + 1)
        OBVIOUS
      <4>3. CASE i = 1 /\ j \in 2 .. (n + 1)
        BY <2>4, <3>1, <3>2, <4>3
      <4>4. CASE j = 1 /\ i \in 2 .. (n + 1)
        BY <2>4, <3>1, <3>2, <4>4
      <4>5. CASE i \in 2 .. (n + 1) /\ j \in 2 .. (n + 1)
        <5>1. PICK a \in 1 .. n, b \in 1 .. n : a = i - 1 /\ b = j - 1
          BY <2>4, <4>5
        <5>2. chain[a] = chain[b]
          BY <2>4, <3>2, <4>5, <5>1
        <5>3. a = b
          BY <2>3, <3>1, <5>2 DEF IsInjective
        <5>4. QED
          BY <5>1, <5>3
      <4>6. QED
        BY <4>1, <4>2, <4>3, <4>4, <4>5
    <3>3. QED
      BY <2>4, <3>2 DEF IsInjective
  <2>7. Len(chain) = Min({merged.maxFallbacks, Len(ranking) - 1})
    <3>1. PICK m \in Nat, most \in Nat : m = Len(ranking) /\ most = merged.maxFallbacks
      BY <2>1 DEF RankingSound
    <3>2. IsFiniteSet(S) /\ Cardinality(S) = m
      BY <2>1, <3>1, LengthOfInjective DEF RankingSound
    <3>3. Cardinality(Range(route)) = n + 1
      BY <2>4, <2>6, LengthOfInjective
    <3>4. Range(route) \in SUBSET S
      BY <2>4 DEF Range
    <3>5. n + 1 <= m
      BY <3>2, <3>3, <3>4, FS_Subset
    <3>6. n <= most
      BY <2>1, <2>2, <3>1 DEF ChainSound
    <3>7. CASE Full
      <4>1. n >= most
        BY <2>2, <3>1, <3>7 DEF Full
      <4>2. QED
        BY <2>2, <3>1, <3>5, <3>6, <4>1, MinOfTwo
    <3>8. CASE index = Len(ranking)
      <4>1. \A c \in S : c \in Range(route)
        <5> TAKE c \in S
        <5>1. PICK i \in 1 .. index : c = ranking[i]
          BY <2>1, <3>8 DEF Range, RankingSound
        <5>2. PICK d \in {Selected} \cup Range(chain) : SameRoute(c, d)
          BY <2>1, <5>1 DEF Filled
        <5>3. d \in S
          BY <2>3, <5>2 DEF Range
        <5>4. c = d
          BY <5>2, <5>3 DEF DistinctRoutes
        <5>5. QED
          BY <2>5, <5>2, <5>4
      <4>2. Range(route) = S
        BY <3>4, <4>1
      <4>3. n + 1 = m
        BY <3>2, <3>3, <4>2
      <4>4. QED
        BY <2>2, <3>1, <3>6, <4>3, MinOfTwo
    <3>9. QED
      BY <2>1, <3>7, <3>8 DEF Filled
  <2>8. ASSUME NEW i \in 2 .. Len(route), route[i].provider \in Providers(i - 1)
        PROVE  AllProviders \subseteq Providers(i - 1)
    <3>1. i - 1 \in 1 .. n /\ route[i] = chain[i - 1] /\ (i - 1) - 1 \in 0 .. n
      BY <2>4
    <3>2. Providers(i - 1) = Seen((i - 1) - 1)
      <4>1. PICK k \in 0 .. n : k = (i - 1) - 1 /\ i - 1 = k + 1
        BY <3>1
      <4>2. \A j \in 1 .. k : j + 1 \in 1 .. (k + 1) /\ route[j + 1] = chain[j]
        BY <2>4, <4>1
      <4>3. \A j \in 1 .. (k + 1) : \/ j = 1 /\ route[j] = Selected
                                    \/ j - 1 \in 1 .. k /\ route[j] = chain[j - 1]
        <5> TAKE j \in 1 .. (k + 1)
        <5>1. j = 1 \/ (j \in 2 .. (n + 1) /\ j - 1 \in 1 .. k)
          BY <4>1
        <5>2. QED
          BY <2>4, <5>1
      <4>4. 1 \in 1 .. (k + 1)
        BY <4>1
      <4>5. {route[j].provider : j \in 1 .. (k + 1)} = {Selected.provider} \cup {chain[j].provider : j \in 1 .. k}
        <5>1. \A x \in {route[j].provider : j \in 1 .. (k + 1)} :
                  x \in {Selected.provider} \cup {chain[j].provider : j \in 1 .. k}
          BY <4>3
        <5>2. \A x \in {Selected.provider} \cup {chain[j].provider : j \in 1 .. k} :
                  x \in {route[j].provider : j \in 1 .. (k + 1)}
          BY <2>4, <4>2, <4>4
        <5>3. QED
          BY <5>1, <5>2
      <4>6. QED
        BY <4>1, <4>5 DEF Seen
    <3>3. QED
      BY <2>1, <2>3, <2>8, <3>1, <3>2 DEF ChainSound
  <2>9. QED
    BY <2>6, <2>7, <2>8 DEF AllProviders, route
<1>2. QED
  BY <1>1, RoutingInductive, PTL
=============================================================================
