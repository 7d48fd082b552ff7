---------------------------- MODULE MCRetryTiming ----------------------------
(* Instances of RetryTiming for TLC: the presets called with small times, and   *)
(* policies of a user's own.                                                   *)
EXTENDS RetryTiming

\* Delays that grow past their cap, a delay_func that answers anything, one timeout
\* for each attempt or for all.
OwnPolicy(each) ==
  ResilienceConfig([retry |-> RetryConfig([max_attempts |-> 4, delay |-> 1, backoff_factor |-> 30,
                                           max_delay |-> 5,
                                           delay_func |-> [answers |-> {None, -1, 2, 9, NaN}]]),
                    timeout |-> TimeoutConfig([seconds |-> 4, per_attempt |-> each]),
                    bulkhead |-> BulkheadConfig([max_wait |-> 1])])

\* http.md: retry_on_status and retry_after_delay without a preset, with a max_delay
\* below the server's wishes.
HttpPolicyByHand ==
  ResilienceConfig([retry |-> RetryConfig([max_attempts |-> 3, delay |-> 1, max_delay |-> 4,
                                           retry_on_result |-> {429},
                                           delay_func |-> [max_wait |-> 6]]),
                    timeout |-> TimeoutConfig([seconds |-> 12, per_attempt |-> FALSE])])

MCConfigs ==
  {OwnPolicy(TRUE), OwnPolicy(FALSE), HttpPolicyByHand,
   http_policy([timeout_seconds |-> 3, retry_delay |-> 1]),
   db_policy([timeout_seconds |-> 2, max_attempts |-> 3, retry_delay |-> 2]),
   queue_policy([timeout_seconds |-> 2, max_attempts |-> 4, retry_delay |-> 1]),
   llm_policy([timeout_seconds |-> 2, max_attempts |-> 3, retry_delay |-> 1, max_concurrent |-> 1,
               retry_after_max_wait |-> 5]),
   strict_policy([timeout_seconds |-> 2, max_attempts |-> 3]),
   load_config([timeout_seconds |-> 3, max_retries |-> 2, retry_delay |-> 2]),
   load_config([timeout_seconds |-> 3, max_attempts |-> 0, circuit_failure_threshold |-> 2])}

Response(code, headers) == [Bare EXCEPT !.status_code = code, !.headers = headers]

HttpError(headers) == [Bare EXCEPT !.response = headers]

Value(form, value) == [form |-> form, value |-> value]

\* Every form of the header, in every place; 500 is a time far above every bound.
MCTriggers ==
  {Bare,
   Response(429, ("Retry-After" :> Value("seconds", 3)) @@ ("RETRY-AFTER" :> Value("seconds", 0))),
   Response(429, "retry-after" :> Value("seconds", 500)),
   Response(429, "Content-Type" :> Value("garbage", None)),
   [Response(None, "retry-after" :> Value("date", -2)) EXCEPT !.status = 429],
   HttpError("Retry-After" :> Value("seconds", NaN)),
   HttpError("Retry-After" :> Value("date", 4)),
   HttpError("Retry-After" :> Value("garbage", None))}

=============================================================================
