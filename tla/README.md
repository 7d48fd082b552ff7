# A TLA+ verification of pyresilience

pyresilience decorates Python functions, plain ones and coroutines, with
resilience patterns: circuit breaker, rate limiter, bulkhead, retry with a
budget, timeout, fallback and cache.  A decorated function is called by many
threads or tasks at once, and the patterns share state among these calls.  This
directory models that shared state and the protocols around it, checks them with
TLC, and proves with TLAPS all the safety properties that TLC checks on small
instances, for every value of the constants that the modules' assumptions (and, for
the bulkhead's slots, event loops that follow one another) allow.

Paths below are relative to `src/pyresilience/` in the repository unless they
begin with `docs/` or `tests/`.

## 1. The system

| component | state | operations | what makes it hard |
|---|---|---|---|
| circuit breaker, `_circuit_breaker.py` | `_state`, `_failure_count`, `_success_count`, `_window`, `_last_failure_time`, under one lock | `allow_request`, `record_success`, `record_success_atomic`, `record_failure`, `state`, `reset`, `force_open`, `force_close` | outcomes arrive long after admission and in another state; reading the state changes it |
| executors, `_executor.py` | per call: attempt, `bulkhead_held`, pending exception; shared: breaker, limiter, bulkhead, budget, cache | `execute`, `_execute_core`, `_execute_with_retry`, the async twins | calls interleave at every lock or await; slots are given up and won back around sleeps; cancellation |
| retry timing, `_executor.py` | deadline, delay | `_compute_delay`, `_resolve_delay`, the two timeout modes | which waits a deadline covers; caps |
| timeout pool, `_executor.py` | a shared `ThreadPoolExecutor`, thread id of each attempt | `_execute_with_timeout`, `_interrupt_thread` | abandoned attempts; an exception set in a reused thread |
| bulkhead, `_bulkhead.py` | counter and condition, or a semaphore per event loop | `acquire`, `release` | a change of loops; a wait that times out |
| rate limiter and retry budget, `_rate_limiter.py`, `_retry_budget.py` | tokens, time of the last refill | `acquire`, `_refill`, `reset`, `available` | rounding; polling; many callers |
| result cache, `_cache.py` | an LRU dictionary, a dictionary of locks | `get`, `put`, `invalidate`, `clear`, `get_key_lock` | single flight while locks are dropped |
| shutdown, `_executor.py` | `_tracking_enabled`, `_in_flight_count`, `_in_flight` | `execute`, `enable_in_flight_tracking`, `shutdown` | activation in the middle of calls; the wake-up |
| registry, `_registry.py` | `_configs`, `_default_config`, `_executors` | `register`, `set_default`, `unregister`, `clear`, `decorator` | cached executors outlive registrations |
| metrics collector, `_logging.py` | `_call_starts`, a context variable | `__call__`, `reset` | contexts interleave, calls nest |
| decorator and health check, `_decorator.py`, `_health.py` | none of their own; they build and read the registry's executors | `resilient`, `health_check` | the health check takes one lock after another while all it reads changes |
| configuration and presets, `_types.py`, `_presets.py`, `contrib/django.py` | constant records | constructors, `http_policy`, `db_policy`, `queue_policy`, `llm_policy`, `strict_policy`, `_load_config` | what a policy adds up to once its sections act together |
| HTTP helpers, `contrib/http.py` | none | `retry_on_status`, `retry_after_delay` | the server chooses the input, numbers that are not numbers included |
| ASGI middleware, `contrib/fastapi.py` | one async executor | `__call__`, `_send_503` | retries and the 503 meet responses already begun; late results |
| JSON logging, Flask, Prometheus, OpenTelemetry | none | forwarding | |

`execute` counts the call for shutdown and runs `_execute_core`: cache lookup
and key lock; circuit breaker; rate limiter; bulkhead; then the retry loop, each
attempt with its timeout and each outcome recorded in the breaker; the fallback
takes the place of exceptions; `finally` blocks give the slot and the key lock
back.  Everything is a direct call; the shared objects are protected by locks
of their own that are never held across two components, so calls interleave
between any two steps on shared objects.  Listeners (the metrics collector is
one) are called back synchronously with events.

What makes each component correct, and therefore what is stated:

- breaker: closed means healthy; open lasts; it opens for evidence only; it
  never shuts for good; it is a three-state machine to its callers.
- executors: slots are conserved; the function runs inside the bulkhead; retries
  are paid; the event of closing is emitted once; calls come back.
- timing: how long a call may take, and that it ends; that the server's wishes are
  kept and cannot break the loop.
- middleware: a request gets one response unless an application that had begun one
  failed; applications are bounded; every request ends.
- pool: abandoned attempts do not begin; callers come back.
- bulkhead: the limit and the slots survive loops and timeouts.
- token buckets: the rate over every interval; waits end; grants go on.
- cache: single flight; locks are not left behind; callers come back.
- shutdown: the count is exact; a drained shutdown has drained; no lost wake-up.
- registry: namesakes share, others do not; executors are as old as their name's
  era at most; the health check reports an outage that lasts.
- metrics: latencies belong to one call, and calls that were retried have one.

## 2. Modules

| module | models | state and actions |
|---|---|---|
| `Breaker` | `CircuitBreaker`, as functions on a record | `RecordFailure`, `CheckRecovery`, ... are the methods of the same names, each a whole critical section; times are ages, saturated where nothing more can depend on them |
| `CircuitBreaker` | one breaker and its concurrent callers | `Admit`/`Reject` are `allow_request`; `EndSuccessAtomic`, `EndSuccess`, `EndFailure`, `EndUnrecorded` are the ways a call is reported; `ReadState`, `ForceOpened`, `ForceClosed`, `WasReset`, `Tick` |
| `AbstractBreaker` | the promise to callers | three states, the wait, the successes needed |
| `BreakerProofs` | what each operator of `Breaker` preserves | lemmas, cited by the proofs of both modules that use the breaker |
| `CircuitBreakerProofs`, `ExecutorProofs`, `MiddlewareProofs`, `RegistryProofs`, `ResultCacheProofs` | TLAPS proofs of the module each is named after | |
| `BackgroundWorkProofs` | TLAPS proofs of `Shutdown`, `Metrics` and `TimeoutPool` | |
| `TimeProofs` | TLAPS proofs of `TokenBucket` and `RetryTiming` | |
| `Executor` | `_execute_core` and `_execute_with_retry`, sync and async | `pc` is the place of a call in the pipeline, one action per step on shared state (its header has the graph); the breaker is `Breaker`'s record |
| `BoundedRetries` | the promise of bulkhead and retry together | places, rests, attempts |
| `HttpRetry` | `retry_on_status`, `retry_after_delay`, and Python's comparisons of floats | operators only: triggers are records of attributes, headers functions from spellings to values |
| `Policies` | the configuration classes with their checks, the presets, the Django settings | operators from records of given arguments to configurations |
| `RetryTiming` | calls in time under such a configuration: the loop's timeouts, delays and waits | `config`; `stage`, `clock`, the rest of the present limit or sleep; the time the server asked for |
| `TimeoutPool` | attempts in the pool of worker threads | queue, futures, thread ids, pending interrupts, dead workers |
| `Bulkhead` | `AsyncBulkhead` across event loops; `Bulkhead` is the case of one loop | semaphore objects, who waits for which |
| `Middleware` | `ResilientMiddleware` and the async executor around an application, composed with `Bulkhead` | `stage` and attempt of each request, its event loop, the responses begun |
| `TokenBucket` | `RateLimiter`, `AsyncRateLimiter`, `RetryBudget` | tokens, ticks since the last refill, waiting callers with their patience |
| `ResultCache` | `ResultCache`, `AsyncResultCache` and the single-flight protocol | LRU sequence, lock objects with identity, place of each caller, keys whose last computation failed |
| `Shutdown` | tracking and `shutdown(wait=True)` | count, event, place of each call, stage of shutdown |
| `Registry` | `ResilienceRegistry`, `resilient`, `health_check` | configurations, cached executors, decorated functions, open circuits; the health check in steps (names listed, `HealthLooksUp`, `HealthFiles`): the names still unseen, the name looked up and the executor found; as history, which circuits have been open since the names were listed |
| `Metrics` | latency tracking of `MetricsCollector`, driven by the executors' events | context variable, stack of calls of each context, starts, calls owed a latency |

`Executor` EXTENDS `Breaker`, and implements `BoundedRetries`; `CircuitBreaker`
EXTENDS `Breaker` and implements `AbstractBreaker`, both by a refinement mapping
at the end of the module.  `Middleware` EXTENDS `Bulkhead`: each of its steps that
takes, awaits or returns a slot conjoins the step of `Bulkhead`.  `RetryTiming`
EXTENDS `Policies`, which EXTENDS `HttpRetry`.  `Metrics`, `TimeoutPool` and
`TokenBucket` begin the names of their `Init`, `Next`, `Spec` and `TypeOK` with
`Metrics`, `Pool` and `Bucket`, because a proof module extends each of them together
with another component.  `MC*` modules hold what TLC needs on top (symmetry
sets, values of constants).  Variables marked "history" are not in the code:
they remember what a property speaks of and no action's guard reads them.
Variables marked "chosen once and for all" (`isAsync`, `isBudget`,
`perAttempt`) stand for a choice of class or configuration that a run covers
both ways.

The section "Faulty variants" of a module holds wrong versions of some of its
operators.  They model plausible bugs, and nothing refers to them: each property
is confirmed to be sensitive by substituting one and seeing the property fail.

### Abstractions

- Exceptions, results, keys and configurations are members of small sets; the
  type lists of the configuration (`retry_on`, `fallback_on`, ...) are sets.
- Fallback handlers return, and what listeners raise is swallowed
  (`_executor.py:190`); a `retry_on_result` that raises counts as an error of the
  function.  What `delay_func` and the sleep raise are kinds of their own
  (`DelayErrors` of `Executor`), as they leave the loop past its handlers.
- `Executor`: a timeout is one more exception of the function; the rate
  limiter's answer is free (`TokenBucket` has the rule); a token of the budget
  comes back at any time.  An async wait for a slot that times out just as a
  slot is released is not told apart from a grant.  The async executor, which
  interleaves only at awaits, has a subset of these behaviours.
- `TokenBucket`: time saturates when it would fill the bucket; the budget's
  floats are exact.  `RetryTiming`: integer ticks, timers fire on time, the
  clock starts at the retry loop.  A tick is a tenth of a second, and the backoff
  drops what is below one.  Only configurations with a timeout and a retry section
  are run.  The circuit breaker and the rate limiter of a policy are part of the
  record and do not act here (`Executor` has them).
- `HttpRetry`: a header's value is what the parser makes of it, a number, the time
  left to a date, or garbage; infinities are numbers beyond every bound.
- `Middleware`: the application, `asyncio.wait_for` and the server are external; the
  circuit breaker, the rate limiter and the fallback may decide either way at any
  time; `send` does not raise.  `retry_on_result`, which would judge the `None`
  that every application returns, is not configured.
- `Registry`: the circuit of an executor is open or not (HALF_OPEN is not), and moves
  by itself, or from open to half open when it is read.  No name is another one followed
  by `:sync` or `:async`: to register such a name would drop the other's executor, whose
  key it is.
- `ResultCache`: values are abstracted to their origin, ages to expired or not.
  `clear` of the async cache, atomic in the code, is two steps like the sync
  one, and its lookups may interleave with locks: a superset.
- `TimeoutPool`: an interrupted function ends with the TimeoutError thrown into it, or
  catches it and goes on; one that ends otherwise is like one that received
  none.  A name of an attempt is used again only when nothing refers to the former one.
- `Metrics`: nested calls run in the context of their caller.

## 3. Runs

`tlc -config <run>.cfg <module>`; the module is the `MC` one of the component.

| run | bounds | shows |
|---|---|---|
| `Circuit` | 3 calls, thresholds 2 and 2, recovery 2 ticks, consecutive mode | open outlasts recovery, it trips on failures in a row only, `AbstractBreaker` is implemented, traffic resumes |
| `CircuitWindow` | 2 calls, window 3, minimum 2, rates 60 and 100 %, slow calls | closed is healthy, as many failures in a row as the window holds always open it, and the refinement, in the sliding-window mode |
| `Executor` | 2 calls, 1 slot, 3 attempts, 2 retry tokens, two error kinds, delays that raise either, fallback on one | slots, bulkhead, budget, closing event, `BoundedRetries`, calls come back |
| `Cache` | 2 callers, 2 keys, 1 entry, sync and async, expiry and removal at any time | single flight up to dropped locks, idle locks belong to entries or failed keys, no lock is left held, callers come back |
| `Limiter` | 3 callers, bucket of 2 tokens of 4 units, rate 6/4 units a tick (limiter) or 6 (budget), waits of 3 ticks | the rate over all intervals, waits end, grants go on |
| `Shutdown` | 3 calls, tracking off at first | exact count, drained means the counted calls are done, no lost wake-up |
| `Registry` | 2 names, 2 configurations (one with a circuit breaker), 2 plain functions and a coroutine function | peers share, only namesakes share, executors are of their name's era, an outage that lasts through the health check is reported |
| `Pool` | 3 attempts, 2 workers | abandoned attempts never begin, callers come back |
| `Bulkhead` | `Middleware` with 3 tasks, 2 loops one after the other, 2 slots, 2 attempts | applications bounded, slots conserved, further responses only after a spoiled one, requests end |
| `RetryTiming` | 10 policies: the 5 presets with small times, 2 Django settings (one refused), 3 of a user's own with a `delay_func` that answers anything; 8 triggers with every form of `Retry-After` | worst case, deadlines of attempts, `Retry-After` is slept off and respected, calls end |
| `Metrics` | 2 contexts, 4 calls nested 2 deep, 2 attempts | latencies stay in one application-level call, retried calls are measured |
| `CacheAsyncStampede` | 3 coroutines, nothing removed or expired | a violation, see section 5 |

Why these bounds are enough: every threshold is at least 2, so that "one less",
"exactly" and "one more" differ; there is one caller more than there are slots,
entries or workers, so that somebody always waits; two keys for one entry make
evictions; the window is longer than its minimum; three attempts let a call pass
both ways of retrying.  In `Executor` two calls with one slot and one breaker
show every pairwise interleaving of pipeline steps; with 3 calls (and 2
attempts, 1 token) its invariants hold too.  `MaxCalls` and `MaxDepth` bound
`Metrics`, whose ids would grow for ever; ages in `Breaker` and `TokenBucket` are
saturated rather than bounded, so nothing else stops a run early.

`CHECK_DEADLOCK FALSE` in `Pool`: an interrupt that arrives between two attempts
kills its worker, and once all workers are dead and all attempts are in the queue
nothing is left to happen.

In `RetryTiming` the policies' own shapes are kept (which sections there are, which
is longer than which) and their times cut to a few ticks; 500 stands for a time
above every bound.  In `Bulkhead` the third task waits whenever two are inside, the
second loop makes a second semaphore, and the second attempt a second response.

The type invariant of every module holds under its run; the lists leave it out where
the run's time is better spent on the other properties.  `TypeCorrect` proves those of
`CircuitBreaker` and `TokenBucket`.

### Fairness

- `Circuit`: time passes, someone keeps asking, calls end.  Traffic is claimed to
  resume only if operators stop forcing the circuit open.
- `Executor`: a call in progress keeps running (threads are scheduled, the
  function and sleeps end).  Nothing is assumed of time or of tokens coming back,
  so a call does not need them to return.
- `Cache`: weak fairness of each caller, strong fairness of taking a lock: a lock
  that is released again and again is eventually given to each of its waiters.
  `asyncio.Lock` is first in, first out; `threading.Lock` promises nothing
  formally, and in practice waiters are not starved for ever.
- `Limiter`: time passes, sleeping callers wake, someone keeps asking.
- `Shutdown`: calls end; the thread in shutdown runs.  Its timeout is not needed.
- `Pool`: callers' clocks run; nothing at all of the workers.
- `Bulkhead`: what the executor, the event loop and the server do by themselves goes
  on: waits and sleeps end, time is up one day, and an application that has been told
  to stop ends.  One that has not may hang.
- `RetryTiming`: time passes and timers fire; the function may hang.

## 4. Proofs

`CircuitBreakerProofs` proves, for any set of calls, any thresholds, either mode
and any rates allowed by `CircuitBreaker`'s assumptions:

- `TypeCorrect`, `ClosedIsAlwaysHealthy`, `OpenAlwaysHasTimer`: invariants;
- `OpenAlwaysOutlastsRecovery`, `AlwaysTripsOnConsecutiveFailures`: action
  properties;
- `KeepsItsPromise`: the refinement of `AbstractBreaker`.

The inductive invariant is

    IInv == TypeOK /\ ClosedIsHealthy /\ TimerIsHonest /\ CountsConsecutive

`ClosedIsHealthy` is inductive with types alone.  The other two conjuncts are what
the action properties need and do not say: `TimerIsHonest` ties the breaker's own
timer to the real time it has been open (the timer may be younger, because late
failures restart it, and never older), and `CountsConsecutive` ties
`_failure_count` to the number of failures recorded in a row.  Both are lost
without the clause of every operation that resets a count or a time, so the
proof goes through the operations of `Breaker` one by one: a lemma for each says
what it preserves (`BreakerProofs`), and the step of each action cites the lemma of
its operation.

The refinement is a step simulation.  `AbstractBreaker` sees the state, the time since
the last failure and the successes counted; for each operation a lemma says whether
what it sees stays the same (`Same`) or is that of a circuit just opened (`Tripped`),
and the step of each action maps to the abstract step of its name or to a stutter.
A success in half-open is the case with most to say: it counts towards the threshold of
the half-open period that this very report may have begun, and towards no other.

Its last part proves `WindowAlwaysTripsOnOutage`, for any window, rate, slow rate and
number of calls with `minimum_calls` within the window: after as many failures in a
row as the window holds the circuit is not CLOSED. The invariant `WindowKeepsRun` says
that the window ends in as many failures as were recorded in a row, or is full of them
(`EndsInFailures`): the window goes on recording while the circuit is OPEN and drops
its oldest outcome when it is full, so that the property alone says too little of the
other states to be inductive. A window of failures only is unhealthy at any rate (the
one place where cardinalities and percentages are computed), and `ClosedIsHealthy`, an
invariant already, does the rest.

`TimeProofs` proves, for any callers, rate, capacity, resolution and patience,
`BucketIsAlwaysTyped` and `RateIsNeverExceeded`.  `RateNeverExceeded` alone is
not inductive: a refill adds tokens at once for time that has passed one tick
after another.  The strengthening `ExcessIsMissing` says that tokens granted
ahead of the rate are missing from the bucket, less what the time since the last
refill has earned; a refill keeps it because it rounds down, and a tick because a
bucket left alone for the saturation time lacks nothing.  The products of
variables are handled by four lemmas of arithmetic.

It also proves, for any set of policies that the constructors accept and any triggers,
`TimingIsAlwaysTyped`, `WorstCaseAlwaysHolds`, `AttemptsAlwaysEndInTime`,
`HeadersNeverRaise` and `ServerIsAlwaysLeftAlone`.  The inductive invariant of
`RetryTiming` is

    TimingInv == TypeOK /\ ReadyInTime /\ RunningInTime /\ PausingInTime /\ EndedInTime

one conjunct per stage of a call.  `WorstCase` bounds the clock at the present moment
and says nothing of how much of the present limit, sleep or wait is left; each conjunct
bounds the clock together with that rest, by the time limits of the attempts made and
the longest pauses between them, and `PausingInTime` says in addition which delay is being
slept off, that the server's wish is covered by its rest, and how an unwanted result
may pass two sleeps.  The longest backoff and the sum of the pauses are defined by
recursion over the attempts.  `RecursionOverNat` shows that such functions exist and
have the values they should: it needs induction over the numbers, which is taken from
the well-foundedness of `<` applied to sets (the least number at which something fails).
What a `Retry-After` header turns into is a case distinction over everything Python's
comparisons may say of it, NaN included.

`BackgroundWorkProofs` treats three components.

- `Shutdown`, for any finite set of calls: `ShutdownIsAlwaysTyped`,
  `CountAlwaysMatchesCalls` and `CountedAreAlwaysDrained`.  `ShutdownInv` adds to them
  that only tracked calls are on their way into the count (`StartingAreTracked`) and that
  a wait is notified only when nothing counted of what it waits for is left
  (`WakesWhenDone`), which holds from then on because what shutdown waits for never
  grows.
- `Metrics`, for any finite sets of contexts and any number of calls, nested to any depth:
  `MetricsAreAlwaysTyped`, `LatencyAlwaysStaysInOneCall` and `RetriesAreAlwaysMeasured`.
  That a latency stays in one call depends on who filed the start it is measured from, so
  `MetricsInv` says that all ids a context is in belong to one application-level call
  (`OneRoot`), and so do the starts (`StartsStayInOneCall`); two contexts never file under
  one id, and nothing is under way twice (`CallsAreDistinct`).  A nested call overwrites
  the id of its caller, so a latency is due only to the innermost call of its context
  (`DueIsStarted`): a caller that has made a nested call is owed none.
- `TimeoutPool`, for any finite sets of attempts and workers: `PoolIsAlwaysTyped` and
  `AbandonedNeverBegin`.  `PoolInv` says that no attempt is queued twice or run by two
  workers and that one still queued has not begun, and is cancelled once its caller has
  left (`QueuedHaveNotBegun`).  That the queue is short follows from its entries being
  distinct, by counting.

`ExecutorProofs` proves, for any finite set of calls and any configuration,
`TypeCorrect`, `SlotsAlwaysConserved`, `AlwaysRunsInsideBulkhead`,
`RetriesAreAlwaysPaid`, `ClosingAlwaysAnnouncedOnce`, and `RetriesAreBounded`, the
refinement of `BoundedRetries`.  The inductive invariant is

    IInv == TypeOK /\ Healthy(breaker) /\ SlotsConserved /\ ClosingAnnouncedOnce
              /\ InPlace /\ PaidFor

`SlotsConserved` counts slots and says nothing of who may release one, and the
property about running inside the bulkhead holds at one place of the pipeline only;
`InPlace` says for every place whether a call there holds a slot and how far it got.
The case that makes it more than a table is a call refused on waking up: it is back
before the budget without a slot, but only with an exception, and with one it never
takes the path on which a slot is taken for granted.  `PaidFor` does the same for the
tokens paid: one per attempt after the first, and one ahead while the call pauses and
sleeps.  `ClosingAnnouncedOnce` rests on the lemma `ToldWhenClosing`: the two states a
caller compares differ towards CLOSED exactly when its own report closed the circuit.
`Healthy(breaker)`, that a closed breaker is below its thresholds, is what the lemmas
of `BreakerProofs` ask for and give back.

`RegistryProofs` proves, for any names, configurations and functions, `TypeCorrect`,
`PeersAlwaysShare`, `OnlyNamesakesEverShare`, `NeverStalerThanItsEra` and
`OutagesAreReported`. Of the four invariants only the types are inductive alone: who shares an
executor with whom depends on where an executor in the cache comes from.
`CachedIsCurrent` says that it was built by a function of that name, in the present era;
`BuilderSharesIt` that a decorated function has the executor of its builder and its name
and era; and `PeersKeepCached` that the functions of a name not registered anew keep the
cached one. `CurrentIsInForce` ties the configuration a lookup finds to the history that
`StaleWithinItsEra` speaks of; that property is not inductive without it.

`OutagesAreReported` needs an invariant about the moments between the lookup and the
reading of the state, `HInv == LastingAreOpen /\ FoundIsCached`: as long as any circuit
of the name looked up has been open since the names were listed, the executor found is
still one of those cached for it.  The reason is `CachedIsKept`: what takes a cached
executor away, `unregister` and `clear`, takes those of both kinds, and the outage is
over for the check.

`MiddlewareProofs` proves, for any number of tasks, loops, places and attempts,
`MiddlewareUsesTheBulkhead` (`Middleware` implements `Bulkhead`),
`BulkheadConservesSlots`, `SlotsAlwaysConserved`, `AppsAlwaysBounded` and
`ResponsesAlwaysDue`; those on slots and applications assume `~Overlap` (event loops
follow one another), without which they are false.  The types, `BulkheadIsAlwaysTyped` and
`MiddlewareIsAlwaysTyped`, hold with overlapping loops as well, where a task may give
its place back to a semaphore that never counted it: the current semaphore may grow, but
its places and the tasks that have, or will have, one it does not count are together no
more than `max_concurrent` and one for each task (`PlacesBounded`).
The invariant of the bulkhead, `SlotsInv`, adds `AtCurrent` to the conservation of
slots: whoever waits or is inside does so at the current semaphore, which was made for
its loop.  That is why a new semaphore never forgets anybody (`RenewsWhenIdle`): a loop
that may run while one of these exists is theirs.  A step of the middleware is one
of the bulkhead or leaves it alone (`StepBelow`), so `SlotsInv` carries over, and
`RequestInv` says that the stage of a request and the place of its task agree
(`InStep`) and that what was sent is accounted for (`ResponsesAccounted`).

`ResultCacheProofs` proves, for any callers and keys, `LocksAreNeverLeftBehind` and
`StampedesNeedADroppedLock`.  The invariant says of each place whether its caller has
found a lock and holds it (`LockInPlace`), and that a lock not dropped since it was found
is still the one of its key (`FoundIsCurrent`); two callers of a key that both have that
one would both own it.  The store does not enter, so that the proof covers any way of
evicting.  That there is always an unused lock to take (`UnusedLock`), a matter of the
model, is a count of locks against keys and callers.

`CacheIsAlwaysTyped`, `StoreIsAlwaysBounded` and `IdleLocksAreAlwaysAccountedFor` are about
locks and store together.  Their invariant `CacheInv` adds that a key is stored once and
the store within its size (`StoreInv`), that no two keys share a lock
(`LocksAreDistinct`), and a version of `IdleLocksAreAccountedFor` that holds in the
middle of a call too (`LeavingLocksAreAccountedFor`): the lock of a key that is neither
cached nor failed is with a caller other than those on their way out.

Some theorems say under which condition the documents are right that section 5 finds
wrong, and so what exactly goes wrong there.

| theorem | condition | what then holds |
|---|---|---|
| `FallbackMissesSleepsOnly` | no retries, or `fallback_on` lists nothing that `ignore_on` does not and that a full bulkhead, `delay_func` or the sleep raise around the sleep before a retry | `FallbackCoversListed` |
| `FallbackAddsRejectionsOnly` | `fallback_on` lists the three rejections | `FallbackOnlyOnListed` |
| `OneDelayWithoutResultsToRetry` | no policy combines `retry_on_result` with a bulkhead | `OneDelayPerRetry` |
| `DeadlineHoldsWithoutRetries` | no retries | `EndsByDeadline` |
| `DelaysAreClampedToNumbers` | `delay_func` never answers NaN | `DelaysClamped` |
| `NamesakesOfOneKindShare` | all functions are plain, or all are coroutines | `NamesakesShare` |
| `HealthSeesEveryBreakerOfOneKind` | the same | `HealthSeesEveryBreaker` |
| `LatencyIsOwnWithoutNesting` | no decorated function calls another | `LatencyIsOwn` |
| `IdleLocksAreBoundedWithoutFailures` | no computation has failed (`FailuresBoundIdleLocks` counts what failures add) | `IdleLocksBounded` |

The two on the fallback rest on an invariant of their own, `EndsInPlace`: a call has an
outcome only at the end of the pipeline, and of the kinds that are listed and not
ignored it raises only those that come up around a sleep (`AroundSleep`: those of
`delay_func` and the sleep, and `BulkheadFullError`), where it had a retry left.

Assumptions: those named in the modules, which say what a sensible configuration is:
positive thresholds, natural numbers, finite sets, a saturation time that fills the
bucket, names that are not each other's markers, policies with a timeout and a retry
section whose numbers are of the types that the constructors annotate, headers that
are numbers, dates, garbage or absent.  Two of them the code does not check:
`minimum_calls` within the window (`_circuit_breaker.py:206`), and a `backoff_factor` and
a `max_wait` of the bulkhead that are not negative.

Only model-checked: liveness under fairness, which with ENABLED is out of the prover's
reach: `TrafficResumes`, `EveryCallReturns`, `EveryCallerReturns` (of the cache and of the
pool), `WaitsEnd`, `GrantsResume`, `DrainEnds`, `RequestsEnd` and `CallEnds`.  Each run
checks them together with the safety properties, on the bounds of section 3.

The library's induction theorems take an operator as a parameter, which none of the
provers can instantiate.  Where an argument needs induction, over the attempts in
`TimeProofs`, it is made over sets instead, as described above; sequences are treated by
their indices.

## 5. What the documentation says and the code does not do

Each line is a property at the end of its module, and TLC refutes it.  To see the
behaviour, put the property in place of the properties of the run named, with
the constants changed as noted.  Section 4 has the conditions under which some of them
are theorems.

| property | run and change | says | does |
|---|---|---|---|
| `OneComputesPerKey` | `CacheAsyncStampede` | `docs/core/cache.md:118`: only one thread or coroutine computes per key while others wait | `_cache.py:171`: the async `get` drops the key's lock on every miss, so a second coroutine makes another.  In the sync cache it takes an eviction or expiry (`_cache.py:103`) |
| `HalfOpenIsLimited` | `Circuit` | `docs/core/circuitbreaker.md:21`: a limited number of calls in HALF_OPEN | `_circuit_breaker.py:103`: every call is let through |
| `RecoversAfterTimeout` | `Circuit` | `_types.py:131`: seconds to wait before half-open | `_circuit_breaker.py:190`: a late failure restarts the wait |
| `OpenCircuitShields` | `Executor` | `docs/core/circuitbreaker.md:20`: while OPEN no calls reach the function | `_executor.py:370`: the answer is used after the waits for limiter and bulkhead |
| `FallbackOnlyOnListed` | `Executor` | `_types.py:183`: no fallback triggers without a handler | `_executor.py:373`: early rejections use the fallback whatever is listed |
| `FallbackCoversListed` | `Executor`, `DelayErrors = {}`, `FallbackOn = {"timeout", "BulkheadFull"}` | `docs/core/bulkhead.md:65`: a degraded response instead of raising | `_executor.py:707`: a full bulkhead after a retry sleep raises.  With no change to the run: so does what `delay_func` or the sleep raises (`_executor.py:691`, `:705`) |
| `IdleLocksBounded` | `Cache` | `docs/changelog.md:43`: no unbounded lock accumulation | `_cache.py:126`: a key that never succeeds keeps its lock for ever |
| `StoresOnlyFunctionResults` | `Cache`, `HasFallback = TRUE` | `docs/core/cache.md:3`: stores successful function results | `_executor.py:427`: a fallback's value is stored as well |
| `GrantsResume` | `Limiter`, `Rate = 3`, `Saturation = 11` | `docs/core/ratelimiter.md:11`: tokens are refilled continuously | `_rate_limiter.py:39`: frequent looks round every refill down to nothing (needs a rate below one unit, 1e-9 token, per look) |
| `DrainedMeansDone` | `Shutdown` | `_executor.py:109`: True if all calls drained | `_executor.py:325`: calls begun before tracking was enabled are not counted |
| `BuiltFromCurrentConfig` | `Registry` | `_registry.py:52`: the cached executor is cleared so it is rebuilt | `_registry.py:53`: the key popped is not the one used |
| `NamesakesShare` | `Registry` | `_registry.py:98`: functions of a name share their circuit breaker | `_registry.py:72`: plain and coroutine functions do not |
| `BudgetIsGlobal` | `Registry` | `_types.py:247`, `_retry_budget.py:18`: limits retries across all decorated functions | `_executor.py:318`: each executor makes its own |
| `InterruptHitsOnlyLate` | `Pool` | `docs/core/timelimiter.md:24`: the exception is raised in the thread of the late function | `_executor.py:768`: by then the thread may run another |
| `ExecutionsBounded` | `Pool`, `MaxConcurrent = 1` | `docs/core/bulkhead.md:3`: limits concurrent executions | `_executor.py:763`: an abandoned function runs on outside of its slot |
| `AppsBounded` | `Bulkhead`, `Overlap = TRUE` | `docs/core/bulkhead.md:7`: limits how many calls execute simultaneously | `_bulkhead.py:72`: loops in two threads renew the semaphore in turn |
| `DelaysClamped` | `RetryTiming` | `_types.py:75`, `docs/core/retry.md:158`: what `delay_func` returns is clamped to [0, max_delay] | `_executor.py:497`: NaN passes both comparisons, and `time.sleep` raises past every handler of the loop |
| `OneDelayPerRetry` | `RetryTiming` | `docs/core/timelimiter.md:67`: 3 attempts have 2 delays between them | `_executor.py:611`: a slot refused after an unwanted result is an exception of the same attempt, and slept off once more |
| `HealthSeesEveryBreaker` | `Registry` | `docs/advanced/observability.md:279`: the state of all registered functions | `_registry.py:136`: the executor of plain functions hides that of coroutine functions, even if the circuit of the latter is open throughout the check |
| `EndsByDeadline` | `RetryTiming` | `docs/core/timelimiter.md:100`: total 5 s max | `_executor.py:559`: sleeps do not look at the deadline, and its expiry is retried |
| `EverySuccessMeasured` | `Metrics` | `tests/test_logging.py:202`: all 3 calls should have latency tracked | `_logging.py:146`: a first-try success is not measured (the test asserts less than it says) |
| `LatencyIsOwn` | `Metrics` | `_logging.py:22`: unique call id for latency tracking | `_executor.py:324`: after a nested call the outer one goes on under the inner id |
| `StartsBounded` | `Metrics`, `MaxDepth = 1` | `docs/changelog.md:84`: bounded MetricsCollector memory | `_logging.py:146`: starts of calls that end without a terminal event stay |

`OneResponse` of `Middleware` is refuted in the same way (run `Bulkhead`): a retry, or the
503, follows a response that a failed application had begun (`contrib/fastapi.py:66`).
So is `ReportIsCurrent` of `Registry` (run `Registry`): between the lookup
(`_health.py:30`) and the reading of the state (`:36`) the name may be unregistered and
decorated anew, and the state filed is that of an executor it no longer has.  No document
speaks of either.

Also seen, and about no behaviour that a model would show better than the line:

- `docs/core/retry.md:212` passes `retry_budget` to `RetryConfig`, which has no such
  field;
- `_types.py:106` says that `per_attempt` is False by default; it is True;
- `_types.py:183` disables a fallback without a handler to prevent silently returning
  None; the rejections before the retry loop return None all the same
  (`_executor.py:373`);
- `docs/advanced/observability.md:31` lists `CIRCUIT_HALF_OPEN`, which nothing emits;
- `docs/index.md:139` shows a key `total_events` that `summary` does not produce;
- on the retry path SUCCESS carries the duration 0.0 unless slow calls are detected
  (`_executor.py:578`).

## 6. Not modelled

- `_compat.py`, `__main__.py`, re-exporting modules: no behaviour of the library's own.
- JSON logging, Flask, Prometheus and OpenTelemetry: they forward calls to an executor,
  or events to third-party counters and spans.  Of FastAPI the dependency, which hands
  out an executor, and scopes that are passed through; of Django the call itself, and
  the executor built on the first request, of which two threads may build two.
- Custom thread pools and their shutdown.
- Counters for reports (cache hits, breaker metrics, event counts, percentiles).
- The exception lists and fallbacks of the presets.
- Floating point: an overflow of the exponential backoff, drift of the budget; NaN is
  modelled where a user or a server can bring it in.

## 7. Plan

Order of work: circuit breaker first (it carries the library's main promise and
every other component meets it), then the executors that use it, then the
components that calls share, then what surrounds a call: the policies, the registry
and the middleware.  Done: all modules of section 2, the runs of section 3, the
proofs of section 4.

Left, in order:

1. proofs: conditions under which more of the documents of section 5 are right
   (`DrainedMeansDone`, `RecoversAfterTimeout`);
2. `Shutdown` composed with `TimeoutPool`: drained calls whose functions still run;
3. the cache inside `Executor`: key locks held across retries, slots and sleeps.
