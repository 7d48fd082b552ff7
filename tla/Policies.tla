------------------------------ MODULE Policies ------------------------------
(***************************************************************************)
(* The configuration classes (_types.py) and the presets that fill them    *)
(* (_presets.py, and the settings of contrib/django.py).                   *)
(*                                                                         *)
(* A dictionary of keyword arguments is a record: an argument left out has *)
(* the class's default, and a section left out is None.  Times are in      *)
(* tenths of a second, factors in tenths, rates in percent.  Exception     *)
(* types, fallbacks, caches and listeners are passed on unchanged by the   *)
(* presets and play no part in what is stated here.                        *)
(***************************************************************************)
EXTENDS HttpRetry, TLC

-----------------------------------------------------------------------------
(* The classes: defaults, and what __post_init__ refuses with ValueError. *)

RetryConfig(given) ==
  given @@ [max_attempts |-> 3, delay |-> 10, backoff_factor |-> 20, max_delay |-> 600,
            jitter |-> TRUE, retry_on_result |-> None, delay_func |-> None]

ValidRetry(c) == c.max_attempts >= 1 /\ c.delay >= 0 /\ c.max_delay >= 0

TimeoutConfig(given) == given @@ [seconds |-> 300, pool_size |-> 4, per_attempt |-> TRUE]

ValidTimeout(c) == c.seconds > 0 /\ c.pool_size >= 1

CircuitBreakerConfig(given) ==
  given @@ [failure_threshold |-> 5, recovery_timeout |-> 300, success_threshold |-> 2,
            sliding_window_size |-> 0, failure_rate_threshold |-> 50, minimum_calls |-> 0,
            slow_call_duration |-> 0, slow_call_rate_threshold |-> 100]

ValidCircuitBreaker(c) ==
  /\ c.failure_threshold >= 1 /\ c.recovery_timeout >= 0
  /\ c.failure_rate_threshold \in 0..100

BulkheadConfig(given) == given @@ [max_concurrent |-> 10, max_wait |-> 0]

ValidBulkhead(c) == c.max_concurrent >= 1

RateLimiterConfig(given) == given @@ [max_calls |-> 10, period |-> 10, max_wait |-> 0]

ValidRateLimiter(c) == c.max_calls >= 1 /\ c.period > 0

ResilienceConfig(given) ==
  given @@ [retry |-> None, timeout |-> None, circuit_breaker |-> None,
            bulkhead |-> None, rate_limiter |-> None]

\* No constructor on the way to this configuration raised.
Accepted(config) ==
  /\ config.retry = None \/ ValidRetry(config.retry)
  /\ config.timeout = None \/ ValidTimeout(config.timeout)
  /\ config.circuit_breaker = None \/ ValidCircuitBreaker(config.circuit_breaker)
  /\ config.bulkhead = None \/ ValidBulkhead(config.bulkhead)
  /\ config.rate_limiter = None \/ ValidRateLimiter(config.rate_limiter)

-----------------------------------------------------------------------------
(* The presets. *)

\* What the presets do with max_concurrent.
OptionalBulkhead(max_concurrent) ==
  IF max_concurrent = None THEN None ELSE BulkheadConfig([max_concurrent |-> max_concurrent])

Breaking(a, successes) ==
  CircuitBreakerConfig([failure_threshold |-> a.circuit_failure_threshold,
                        recovery_timeout |-> a.circuit_recovery_seconds,
                        success_threshold |-> successes])

Retrying(a, factor, cap) ==
  RetryConfig([max_attempts |-> a.max_attempts, delay |-> a.retry_delay,
               backoff_factor |-> factor, max_delay |-> cap, jitter |-> TRUE])

http_policy(given) ==
  LET a == given @@ [timeout_seconds |-> 100, max_attempts |-> 3, retry_delay |-> 5,
                     circuit_failure_threshold |-> 5, circuit_recovery_seconds |-> 300,
                     max_concurrent |-> None, rate_limit |-> None]
  IN ResilienceConfig([retry |-> Retrying(a, 20, 300),
                       timeout |-> TimeoutConfig([seconds |-> a.timeout_seconds]),
                       circuit_breaker |-> Breaking(a, 2),
                       bulkhead |-> OptionalBulkhead(a.max_concurrent),
                       rate_limiter |-> a.rate_limit])

db_policy(given) ==
  LET a == given @@ [timeout_seconds |-> 300, max_attempts |-> 2, retry_delay |-> 10,
                     circuit_failure_threshold |-> 3, circuit_recovery_seconds |-> 600,
                     max_concurrent |-> 10]
  IN ResilienceConfig([retry |-> Retrying(a, 15, 100),
                       timeout |-> TimeoutConfig([seconds |-> a.timeout_seconds]),
                       circuit_breaker |-> Breaking(a, 1),
                       bulkhead |-> BulkheadConfig([max_concurrent |-> a.max_concurrent,
                                                    max_wait |-> 50])])

queue_policy(given) ==
  LET a == given @@ [timeout_seconds |-> 150, max_attempts |-> 5, retry_delay |-> 20,
                     circuit_failure_threshold |-> 10, circuit_recovery_seconds |-> 600,
                     max_concurrent |-> None]
  IN ResilienceConfig([retry |-> Retrying(a, 20, 600),
                       timeout |-> TimeoutConfig([seconds |-> a.timeout_seconds]),
                       circuit_breaker |-> Breaking(a, 3),
                       bulkhead |-> OptionalBulkhead(a.max_concurrent)])

\* retry_on_result is the set of codes of retry_on_status, delay_func the bound of
\* retry_after_delay.
llm_policy(given) ==
  LET a == given @@ [timeout_seconds |-> 600, max_attempts |-> 4, retry_delay |-> 10,
                     max_calls |-> 60, period |-> 600,
                     circuit_failure_threshold |-> 5, circuit_recovery_seconds |-> 300,
                     max_concurrent |-> None, retry_after_max_wait |-> 600,
                     retry_on_status_codes |-> {429, 500, 502, 503, 504}]
  IN ResilienceConfig([retry |-> RetryConfig([max_attempts |-> a.max_attempts,
                                              delay |-> a.retry_delay,
                                              max_delay |-> a.retry_after_max_wait,
                                              retry_on_result |-> a.retry_on_status_codes,
                                              delay_func |-> [max_wait |-> a.retry_after_max_wait]]),
                       timeout |-> TimeoutConfig([seconds |-> a.timeout_seconds]),
                       circuit_breaker |-> Breaking(a, 2),
                       rate_limiter |-> RateLimiterConfig([max_calls |-> a.max_calls,
                                                           period |-> a.period]),
                       bulkhead |-> OptionalBulkhead(a.max_concurrent)])

strict_policy(given) ==
  LET a == given @@ [timeout_seconds |-> 50, max_attempts |-> 1,
                     circuit_failure_threshold |-> 3, circuit_recovery_seconds |-> 600]
  IN ResilienceConfig([retry |-> RetryConfig([max_attempts |-> a.max_attempts, delay |-> 1,
                                              backoff_factor |-> 10, max_delay |-> 5,
                                              jitter |-> FALSE]),
                       timeout |-> TimeoutConfig([seconds |-> a.timeout_seconds]),
                       circuit_breaker |-> Breaking(a, 1)])

-----------------------------------------------------------------------------
(* PYRESILIENCE_CONFIG of Django, a record with the keys that are set. *)

Attempts(settings) ==
  CASE "max_attempts" \in DOMAIN settings -> settings.max_attempts
    [] "max_attempts" \notin DOMAIN settings /\ "max_retries" \in DOMAIN settings -> settings.max_retries
    [] OTHER -> None

\* circuit_recovery_seconds and retry_delay count only beside the key they go with.
load_config(settings) ==
  LET s == settings @@ [circuit_recovery_seconds |-> 300, retry_delay |-> 10]
  IN ResilienceConfig(
       [timeout |-> IF "timeout_seconds" \in DOMAIN s
                    THEN TimeoutConfig([seconds |-> s.timeout_seconds]) ELSE None,
        circuit_breaker |-> IF "circuit_failure_threshold" \in DOMAIN s
                            THEN CircuitBreakerConfig([failure_threshold |-> s.circuit_failure_threshold,
                                                       recovery_timeout |-> s.circuit_recovery_seconds])
                            ELSE None,
        retry |-> IF Attempts(s) = None THEN None
                  ELSE RetryConfig([max_attempts |-> Attempts(s), delay |-> s.retry_delay])])

=============================================================================
