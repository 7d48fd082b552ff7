----------------------------- MODULE RetryTiming -----------------------------
(***************************************************************************)
(* How long one call may take: the retry loop of _execute_with_retry       *)
(* (_executor.py, sync) under a policy of the presets or of the user, with *)
(* its timeouts, per attempt or for the whole call, the delays of          *)
(* _resolve_delay and _compute_delay between attempts, and the wait for    *)
(* the bulkhead after each of them.                                        *)
(*                                                                         *)
(* Time is in ticks of a tenth of a second; the floats of the code are     *)
(* integers here, and the timer of a wait fires on time.  The function may *)
(* hang.                                                                   *)
(***************************************************************************)
EXTENDS Policies

CONSTANTS
  Configs,   \* configurations a user may ask for
  Triggers   \* exceptions and results of the function, as HttpRetry has them

\* What delay_func may be: absent, retry_after_delay with its bound, or the user's own,
\* of which only the set of its answers is known.
KnownDelayFunc(func) ==
  \/ func = None
  \/ "max_wait" \in DOMAIN func /\ func.max_wait \in Int
  \/ "max_wait" \notin DOMAIN func /\ "answers" \in DOMAIN func
     /\ func.answers \subseteq Int \cup {None, NaN}

\* A Retry-After header is a number or a date, unless it is garbage.
KnownHeader(raw) == raw = None \/ raw.form = "garbage" \/ raw.value \in Int \cup {NaN}

\* This module is about the policies that have a timeout and a retry section.
ASSUME RetryTimingAssumption ==
  /\ \A c \in Configs :
       /\ c.retry # None /\ c.timeout # None
       /\ \A f \in {"max_attempts", "delay", "backoff_factor", "max_delay"} : c.retry[f] \in Int
       /\ c.retry.backoff_factor >= 0
       /\ KnownDelayFunc(c.retry.delay_func)
       /\ c.timeout.seconds \in Int /\ c.timeout.per_attempt \in BOOLEAN
       /\ c.bulkhead # None => c.bulkhead.max_wait \in Nat
  /\ \A t \in Triggers : KnownHeader(RetryAfterHeader(t))

VARIABLES
  config,    \* the configuration: chosen once and for all
  stage,     \* where the call stands
  attempt,   \* the attempt it is at
  path,      \* why it sleeps: an "exception" or an unwanted "result"
  clock,     \* ticks since the loop was entered, where the deadline was set
  limit,     \* ticks this attempt has left
  wait,      \* ticks the present sleep, or wait for a slot, has left
  notBefore  \* history: when the server asked to be called again

vars == <<config, stage, attempt, path, clock, limit, wait, notBefore>>

TypeOK ==
  /\ config \in Configs /\ Accepted(config)
  /\ stage \in {"ready", "running", "sleeping", "slot", "unsleepable", "done"}
  /\ attempt \in 1..config.retry.max_attempts
  /\ path \in {"exception", "result"}
  /\ clock \in Nat /\ limit \in Nat /\ wait \in Nat /\ notBefore \in Int

Init ==
  /\ config \in {c \in Configs : Accepted(c)}
  /\ stage = "ready"
  /\ attempt = 1
  /\ path = "exception"
  /\ clock = 0
  /\ limit = 0
  /\ wait = 0
  /\ notBefore = 0

-----------------------------------------------------------------------------
(* Faulty variants, used only by mutation runs. *)

ClampsBelowOnly(custom, max_delay) == IF Below(custom, 0) THEN 0 ELSE custom

WholeTimeAgain == config.timeout.seconds

NeverOutOfTime == FALSE

-----------------------------------------------------------------------------
(* Delays. *)

\* The exponential backoff after n retries; tenths below one are cut off.
Backoff(c) ==
  LET After[n \in Nat] ==
        IF n = 0 THEN c.retry.delay ELSE (c.retry.backoff_factor * After[n - 1]) \div 10
  IN After

Capped(delay, max_delay) == IF delay > max_delay THEN max_delay ELSE delay

BaseDelay(c, n) == Capped(Backoff(c)[n - 1], c.retry.max_delay)

\* _compute_delay: with jitter, anything from a tenth of the base to the base
ComputedDelays(n) ==
  IF config.retry.jitter
  THEN {d \in 0..BaseDelay(config, n) : 10 * d >= BaseDelay(config, n)}
  ELSE {BaseDelay(config, n)}

\* What delay_func may answer: it is absent, retry_after_delay, or the user's own.
Answers(trigger) ==
  LET func == config.retry.delay_func
  IN IF func = None THEN {None}
     ELSE IF "max_wait" \in DOMAIN func THEN {RetryAfterDelay(func.max_wait, trigger)}
     ELSE func.answers

\* A custom delay below 0 is 0 and one above max_delay is max_delay; NaN is neither.
Clamped(custom, max_delay) ==
  IF Below(custom, 0) THEN 0 ELSE IF Below(max_delay, custom) THEN max_delay ELSE custom

\* Faulty: delay_func is never asked.
BackoffOnly(n, trigger) == ComputedDelays(n)

\* _resolve_delay
ResolvedDelays(n, trigger) ==
  UNION {IF d = None THEN ComputedDelays(n) ELSE {Clamped(d, config.retry.max_delay)} :
           d \in Answers(trigger)}

-----------------------------------------------------------------------------
(* The loop. *)

\* Attributes of the exceptions that the executor itself raises.
Bare == [status_code |-> None, status |-> None, headers |-> None, response |-> None]

SlotWait(c) == IF c.bulkhead = None THEN 0 ELSE c.bulkhead.max_wait

\* The time given to the attempt that begins now.
TimeLeft ==
  IF config.timeout.per_attempt THEN config.timeout.seconds ELSE config.timeout.seconds - clock

OutOfTime == limit = 0

\* What a Retry-After header entitles the server to: rest until then, as far as the
\* bounds the user set go.
Asked(trigger) ==
  LET func == config.retry.delay_func
      raw == RetryAfterHeader(trigger)
  IN IF func # None /\ "max_wait" \in DOMAIN func /\ raw # None /\ raw.form # "garbage" /\ raw.value \in Nat
     THEN CHOOSE n \in {raw.value, func.max_wait, config.retry.max_delay} :
            n <= raw.value /\ n <= func.max_wait /\ n <= config.retry.max_delay
     ELSE 0

\* The loop goes on with the next attempt.
NextAttempt ==
  /\ stage' = "ready"
  /\ attempt' = attempt + 1
  /\ wait' = 0

\* The except clause, for whatever exception: sleep, unless the attempts or the
\* budget are used up or the exception is not one to retry.  time.sleep refuses NaN
\* with an exception of its own, which no handler of the loop sees.
Failed(trigger) ==
  /\ limit' = 0
  /\ path' = "exception"
  /\ \/ stage' = "done" /\ UNCHANGED <<wait, notBefore>>
     \/ /\ attempt < config.retry.max_attempts
        /\ \E d \in ResolvedDelays(attempt, trigger) :
             IF d = NaN
             THEN stage' = "unsleepable" /\ UNCHANGED <<wait, notBefore>>
             ELSE stage' = "sleeping" /\ wait' = d /\ notBefore' = clock + Asked(trigger)
  /\ UNCHANGED <<config, attempt, clock>>

\* The top of the try block.
Begin ==
  /\ stage = "ready" /\ TimeLeft > 0
  /\ stage' = "running"
  /\ limit' = TimeLeft
  /\ UNCHANGED <<config, attempt, path, clock, wait, notBefore>>

\* The deadline has passed before the attempt began: ResilienceTimeoutError is
\* raised inside the try block, and handled like one raised by the attempt.
TooLate ==
  /\ stage = "ready" /\ TimeLeft <= 0
  /\ Failed(Bare)

Raise(trigger) == stage = "running" /\ Failed(trigger)

TimeOut == stage = "running" /\ OutOfTime /\ Failed(Bare)

\* A result that is returned: a good one, or any when the attempts or the budget are
\* used up.
Return ==
  /\ stage = "running"
  /\ stage' = "done"
  /\ limit' = 0
  /\ UNCHANGED <<config, attempt, path, clock, wait, notBefore>>

\* A result that retry_on_result asks to retry.  There is no sleep for a delay that is
\* not above 0, which NaN is not.
Unwanted(result) ==
  /\ stage = "running"
  /\ attempt < config.retry.max_attempts
  /\ config.retry.retry_on_result # None
  /\ RetryOnStatus(config.retry.retry_on_result, result)
  /\ limit' = 0
  /\ path' = "result"
  /\ notBefore' = clock + Asked(result)
  /\ \E d \in ResolvedDelays(attempt, result) :
       IF Below(0, d)
       THEN stage' = "sleeping" /\ wait' = d /\ UNCHANGED attempt
       ELSE NextAttempt
  /\ UNCHANGED <<config, clock>>

\* The sleep is over: wait for a slot, if the slot was given up for it.
Requeue ==
  /\ stage = "sleeping" /\ wait = 0
  /\ IF config.bulkhead = None
     THEN NextAttempt
     ELSE stage' = "slot" /\ wait' = SlotWait(config) /\ UNCHANGED attempt
  /\ UNCHANGED <<config, path, clock, limit, notBefore>>

Readmitted ==
  /\ stage = "slot"
  /\ NextAttempt
  /\ UNCHANGED <<config, path, clock, limit, notBefore>>

\* BulkheadFullError leaves the except clause and the loop; raised for an unwanted
\* result it is inside the try block, and one more exception of the same attempt.
Refused ==
  /\ stage = "slot" /\ wait = 0
  /\ \/ path = "exception" /\ stage' = "done"
        /\ UNCHANGED <<config, attempt, path, clock, limit, wait, notBefore>>
     \/ path = "result" /\ Failed(Bare)

\* The next call.
Again ==
  /\ stage \in {"done", "unsleepable"}
  /\ stage' = "ready"
  /\ attempt' = 1
  /\ path' = "exception"
  /\ clock' = 0
  /\ limit' = 0
  /\ wait' = 0
  /\ notBefore' = 0
  /\ UNCHANGED config

Tick ==
  /\ \/ stage = "running" /\ limit > 0 /\ limit' = limit - 1 /\ UNCHANGED wait
     \/ stage \in {"sleeping", "slot"} /\ wait > 0 /\ wait' = wait - 1 /\ UNCHANGED limit
  /\ clock' = clock + 1
  /\ UNCHANGED <<config, stage, attempt, path, notBefore>>

Next ==
  \/ Begin \/ TooLate \/ Return \/ TimeOut
  \/ \E t \in Triggers : Raise(t) \/ Unwanted(t)
  \/ Requeue \/ Readmitted \/ Refused \/ Again
  \/ Tick

Spec == Init /\ [][Next]_vars

\* Time passes and timers fire; the function may hang and slots may stay taken.
FairSpec ==
  /\ Spec
  /\ WF_vars(Tick)
  /\ WF_vars(Begin \/ TooLate \/ TimeOut \/ Requeue \/ Refused)

-----------------------------------------------------------------------------
(* Properties. *)

LongestDelay(c, n) ==
  IF c.retry.delay_func = None THEN BaseDelay(c, n) ELSE c.retry.max_delay

\* After an unwanted result, being refused a slot is itself retried.
Legs(c) == IF c.retry.retry_on_result # None /\ c.bulkhead # None THEN 2 ELSE 1

\* The longest that may pass between attempt n and the next one: a sleep and a wait
\* for a slot, for each leg.
LongestPause(c, n) == Legs(c) * (LongestDelay(c, n) + SlotWait(c))

\* ... and between the first attempt and the one after attempt n.
Pauses(c) ==
  LET Sum[n \in Nat] == IF n = 0 THEN 0 ELSE Sum[n - 1] + LongestPause(c, n)
  IN Sum

\* The pauses begun so far, the one the call may have ended in included.
PausesBegun ==
  IF stage \in {"ready", "running"} \/ attempt = config.retry.max_attempts
  THEN attempt - 1 ELSE attempt

\* timelimiter.md, worst case: a call has at most its timeouts and its delays
\* behind it, one timeout for each attempt or one for all of them, whatever
\* delay_func answers and however the exponential backoff grows.
WorstCase ==
  clock <= (IF config.timeout.per_attempt THEN attempt ELSE 1) * config.timeout.seconds
             + Pauses(config)[PausesBegun]

\* No attempt, whichever it is, runs past a deadline set for the whole call
\* (remaining, in _execute_with_retry).
RunsBeforeDeadline ==
  ~config.timeout.per_attempt /\ stage = "running" => clock + limit <= config.timeout.seconds

\* http.md: whatever the server puts into Retry-After, NaN and negative numbers
\* included, the call sleeps it off: only a delay_func of the user's own can make
\* time.sleep raise.
SleepNeverRaises ==
  stage = "unsleepable" => "answers" \in DOMAIN config.retry.delay_func

\* The server is not called again before the time it asked for, as far as max_wait and
\* max_delay allow, by whichever way the attempt failed (_resolve_delay).
ServerIsLeftAlone == stage = "running" => clock >= notBefore

\* A call with a timeout ends, even if the function hangs at every attempt and no
\* slot is ever free again.
CallEnds == stage \notin {"done", "unsleepable"} ~> stage \in {"done", "unsleepable"}

-----------------------------------------------------------------------------
(* What the documentation says and the code does not do. *)

\* timelimiter.md: a total deadline of 5 s makes a call last 5 s at most.  The
\* sleeps do not look at it, and its expiry is retried like any other error.
EndsByDeadline == ~config.timeout.per_attempt => clock <= config.timeout.seconds

\* retry.md, and the docstring of RetryConfig: what delay_func returns is clamped to
\* [0, max_delay].  NaN is not.
DelaysClamped == stage # "unsleepable"

\* timelimiter.md: between n attempts there are n - 1 delays.  After an unwanted result
\* a refused slot is slept off once more.
OneDelayPerRetry == [][stage = "slot" => stage' # "sleeping"]_vars

=============================================================================
