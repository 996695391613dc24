---------------------------- MODULE MCResilience ----------------------------
(* Small instance of Resilience for TLC: two providers with two models, and policies that each open a different path through the planners. *)
EXTENDS Resilience, ResiliencePolicies

A1 == [provider |-> "alpha", model |-> "fast"]
A2 == [provider |-> "alpha", model |-> "safe"]
B1 == [provider |-> "beta", model |-> "fast"]
B2 == [provider |-> "beta", model |-> "safe"]

MCRoutes == {A1, A2, B1, B2}
MCPlans  == { [route |-> A1, chain |-> <<>>],
              [route |-> A1, chain |-> <<B1>>],
              [route |-> A1, chain |-> <<A2, B1, B2>>] }

(* What a caller sends: nothing gives the defaults of the code, with retries off. *)
Retrying == [enabled |-> TRUE, max_attempts |-> 3, max_total_delay |-> 5,
             same_provider_retry_limit |-> 3, same_model_retry_limit |-> 2,
             backoff |-> "fixed", base_delay |-> 2, max_delay |-> 0, jitter |-> FALSE,
             retry_on_timeout |-> TRUE, retry_on_rate_limit |-> TRUE,
             total_operation_timeout |-> 12, timeout_retryable |-> TRUE]

Breaking == [circuit_enabled |-> TRUE, failure_threshold |-> 1, success_threshold |-> 2,
             open_duration |-> 2] @@ Retrying

MCSources ==
    { <<>>,
      Retrying,
      Breaking,
      [Breaking EXCEPT !.failure_threshold = 2, !.success_threshold = 1],
      [circuit_enabled |-> TRUE, failure_threshold |-> 1, open_duration |-> 0],
      [Retrying EXCEPT !.timeout_retryable = FALSE],
      [Retrying EXCEPT !.total_operation_timeout = 4],
      [Retrying EXCEPT !.backoff = "exponential", !.max_delay = 6, !.jitter = TRUE,
                       !.max_total_delay = 8],
      [retryable_categories |-> Categories, retryable_codes |-> DOMAIN CategoryOf]
      @@ [Retrying EXCEPT !.backoff = "linear", !.retry_on_timeout = FALSE],
      [Retrying EXCEPT !.backoff = "none", !.max_total_delay = 0, !.max_attempts = 1,
                       !.same_model_retry_limit = 3],
      \* nothing of this is accepted, so that retries are on with the defaults
      [Breaking EXCEPT !.max_attempts = 11, !.max_total_delay = -1, !.backoff = "random",
                       !.failure_threshold = 0, !.open_duration = -1, !.max_delay = MaxDelay + 1] }

MCPolicies == {Normalized(source) : source \in MCSources}
=============================================================================
