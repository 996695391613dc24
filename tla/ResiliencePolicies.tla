-------------------------- MODULE ResiliencePolicies --------------------------
(***************************************************************************)
(* The policies a caller hands to the resilience planners and what they    *)
(* make of them: normalizeRetryPolicy, normalizeTimeoutPolicy and          *)
(* normalizePolicy of the circuit breaker.  A source is a record with any  *)
(* of the fields; a number out of its range or a name that is not listed   *)
(* stands for every value that is not accepted.  Each such field silently  *)
(* takes its default, and Resilience is about the outcome.                 *)
(***************************************************************************)
EXTENDS Integers, TLC

MaxDelay == 3600000

Strategies == {"none", "fixed", "linear", "exponential", "retry-after", "bounded-exponential"}

\* CODE_CATEGORY.  The codes that share a category have one that is never retried.
CategoryOf ==
    [code \in {"invalid_request", "unsupported_field", "model_not_found", "provider_not_found",
              "request_too_large"} |-> "invalid-request"]
    @@ [code \in {"authentication_required", "authentication_failed"} |-> "authentication"]
    @@ [rate_limited |-> "rate-limit", timeout |-> "timeout",
        upstream_timeout |-> "upstream-timeout", upstream_error |-> "transient-upstream",
        provider_unavailable |-> "provider-unavailable", stream_error |-> "stream",
        unsupported_capability |-> "unsupported-capability", quota_exceeded |-> "quota",
        context_length_exceeded |-> "context-limit", policy_denied |-> "policy-denied",
        configuration_error |-> "configuration", internal_error |-> "internal"]
DefaultCodes == {"rate_limited", "timeout", "upstream_timeout", "upstream_error",
                 "provider_unavailable", "stream_error"}
DefaultCategories == {CategoryOf[code] : code \in DefaultCodes}
DefaultTracked == DefaultCategories \ {"rate-limit"}

\* a field of the source where it has an accepted value, else the default
Accepted(source, field, accepted, default) ==
    IF field \in DOMAIN source /\ source[field] \in accepted THEN source[field] ELSE default
Listed(source, field, default) == IF field \in DOMAIN source THEN source[field] ELSE default

NormalizeRetryPolicy(source) ==
    LET codes == Listed(source, "retryable_codes", DefaultCodes) \cap DOMAIN CategoryOf
    IN [enabled |-> Accepted(source, "enabled", {TRUE}, FALSE),
        max_attempts |-> Accepted(source, "max_attempts", 1 .. 10, 1),
        max_total_delay |-> Accepted(source, "max_total_delay", 0 .. MaxDelay, 0),
        retryable |-> {CategoryOf[code] : code \in codes}
                      \cap Listed(source, "retryable_categories", DefaultCategories),
        same_provider_retry_limit |-> Accepted(source, "same_provider_retry_limit", 0 .. 10, 0),
        same_model_retry_limit |-> Accepted(source, "same_model_retry_limit", 0 .. 10, 0),
        respect_retry_after |-> Accepted(source, "respect_retry_after", {FALSE}, TRUE),
        backoff |-> Accepted(source, "backoff", Strategies, "none"),
        base_delay |-> Accepted(source, "base_delay", 0 .. MaxDelay, 0),
        max_delay |-> Accepted(source, "max_delay", 0 .. MaxDelay, 0),
        multiplier |-> Accepted(source, "multiplier", 1 .. 10, 2),
        jitter |-> Accepted(source, "jitter", {TRUE}, FALSE),
        retry_on_timeout |-> Accepted(source, "retry_on_timeout", {TRUE}, FALSE),
        retry_on_rate_limit |-> Accepted(source, "retry_on_rate_limit", {TRUE}, FALSE)]

NormalizeTimeoutPolicy(source) ==
    [total_operation_timeout |-> Accepted(source, "total_operation_timeout", 0 .. MaxDelay, 120000),
     timeout_retryable |-> Accepted(source, "timeout_retryable", {TRUE}, FALSE)]

NormalizeCircuitPolicy(source) ==
    [circuit_enabled |-> Accepted(source, "circuit_enabled", {TRUE}, FALSE),
     failure_threshold |-> Accepted(source, "failure_threshold", Nat \ {0}, 3),
     success_threshold |-> Accepted(source, "success_threshold", Nat \ {0}, 1),
     open_duration |-> Accepted(source, "open_duration", Nat, 30000),
     tracked |-> Listed(source, "tracked", DefaultTracked)]

\* the policies of one simulation, as Resilience reads them
Normalized(source) ==
    LET retry == NormalizeRetryPolicy(source)
        timeouts == NormalizeTimeoutPolicy(source)
        breaker == NormalizeCircuitPolicy(source)
        field(name) == IF name \in DOMAIN retry THEN retry[name]
                       ELSE IF name \in DOMAIN timeouts THEN timeouts[name] ELSE breaker[name]
    IN [name \in DOMAIN retry \cup DOMAIN timeouts \cup DOMAIN breaker |-> field(name)]
=============================================================================
