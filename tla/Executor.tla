------------------------------ MODULE Executor ------------------------------
(***************************************************************************)
(* _SyncExecutor and _AsyncExecutor of _executor.py without the cache:     *)
(* the calls of one decorated function go through circuit breaker, rate    *)
(* limiter, bulkhead and retry loop, sharing one breaker, one bulkhead and *)
(* one retry budget.  Calls interleave at every lock they take; the async  *)
(* executor interleaves at its awaits only, so its behaviours are among    *)
(* these.  pc says where a call stands:                                    *)
(*                                                                         *)
(*   idle -> limiter -> bulkhead -> run -> (announce ->) leave -> idle     *)
(*                        run -> budget -> pause -> sleep -> recheck -> run*)
(*                                                                         *)
(* Exceptions are kinds: the members of Errors, which the function and     *)
(* retry_on_result raise (timeouts among them), those of DelayErrors, and  *)
(* the library's own CircuitOpen, BulkheadFull and RateLimited.  The       *)
(* configuration's type lists are sets of kinds.  A fallback handler       *)
(* returns; what listeners raise is swallowed.                             *)
(* The rate limiter grants or refuses; TokenBucket.tla models it.          *)
(***************************************************************************)
EXTENDS Breaker

CONSTANTS
  Calls,            \* concurrent calls of the decorated function
  MaxConcurrent,    \* bulkhead.max_concurrent
  MaxAttempts,      \* retry.max_attempts; 1 without retry
  MaxRetries,       \* retry_budget.max_retries
  Errors,           \* what the function raises
  DelayErrors,      \* what retry.delay_func and the sleep raise; {} if they never do
  RetryOn,          \* retry.retry_on
  IgnoreOn,         \* retry.ignore_on
  ErrorTypes,       \* circuit_breaker.error_types
  CircuitIgnoreOn,  \* circuit_breaker.ignore_on
  HasFallback,      \* fallback is configured
  FallbackOn,       \* fallback.fallback_on, {} when handler is None
  RetriesResults    \* retry.retry_on_result is configured

Kinds == Errors \cup DelayErrors \cup {"CircuitOpen", "BulkheadFull", "RateLimited"}

ASSUME ExecutorAssumption ==
  /\ IsFiniteSet(Calls)
  /\ MaxConcurrent \in Nat \ {0}
  /\ MaxAttempts \in Nat \ {0}
  /\ MaxRetries \in Nat \ {0}
  /\ RetryOn \subseteq Kinds /\ IgnoreOn \subseteq Kinds
  /\ ErrorTypes \subseteq Kinds /\ CircuitIgnoreOn \subseteq Kinds
  /\ HasFallback \in BOOLEAN /\ FallbackOn \subseteq Kinds
  /\ RetriesResults \in BOOLEAN
  /\ "none" \notin Kinds

VARIABLES
  breaker,      \* the CircuitBreaker object
  slots,        \* Bulkhead._count: slots taken
  tokens,       \* RetryBudget._tokens, whole tokens
  pc,           \* where each call stands
  attempt,      \* the attempt each call is at, 0 before the retry loop
  held,         \* bulkhead_held[0] of each call
  exc,          \* the exception each call is handling or ended with
  outcome,      \* how each call ended
  paid,         \* history: retry tokens each call consumed, MaxAttempts at most
  unannounced   \* history: closings of the circuit without their event yet

progress == <<pc, attempt, held, exc, outcome>>

vars == <<breaker, slots, tokens, progress, paid, unannounced>>

Stages == {"idle", "limiter", "bulkhead", "run", "announce", "budget",
           "pause", "sleep", "recheck", "leave"}

Outcomes == {"none", "value", "fallback", "raised", "aborted"}

TypeOK ==
  /\ breaker \in Breakers /\ Len(breaker.window) <= WindowSize
  /\ slots \in 0..MaxConcurrent
  /\ tokens \in 0..MaxRetries
  /\ pc \in [Calls -> Stages]
  /\ attempt \in [Calls -> 0..MaxAttempts]
  /\ held \in [Calls -> BOOLEAN]
  /\ exc \in [Calls -> Kinds \cup {"none"}]
  /\ outcome \in [Calls -> Outcomes]
  /\ paid \in [Calls -> 0..MaxAttempts]
  /\ unannounced \in Nat

Init ==
  /\ breaker = InitBreaker
  /\ slots = 0
  /\ tokens = MaxRetries
  /\ pc = [c \in Calls |-> "idle"]
  /\ attempt = [c \in Calls |-> 0]
  /\ held = [c \in Calls |-> FALSE]
  /\ exc = [c \in Calls |-> "none"]
  /\ outcome = [c \in Calls |-> "none"]
  /\ paid = [c \in Calls |-> 0]
  /\ unannounced = 0

-----------------------------------------------------------------------------
(* Faulty variants, used only by mutation runs. *)

AnnouncesAnyClosed(prev, new) == new = "CLOSED"

HoldWithoutSlot(c) == UNCHANGED slots /\ held' = [held EXCEPT ![c] = TRUE]

TakeWithoutHolding(c) == slots' = slots + 1 /\ UNCHANGED held

ForgetHeld(c) == (IF held[c] THEN slots' = slots - 1 ELSE UNCHANGED slots) /\ UNCHANGED held

FreeRetry(c) == tokens' = tokens /\ UNCHANGED paid

SameAttempt(c) == UNCHANGED attempt

-----------------------------------------------------------------------------
(* Shared steps. *)

Goto(c, stage) == pc' = [pc EXCEPT ![c] = stage]

\* The call is over but for its finally blocks.
Ends(c, how, e) ==
  /\ Goto(c, "leave")
  /\ outcome' = [outcome EXCEPT ![c] = how]
  /\ exc' = [exc EXCEPT ![c] = e]

\* Rejected before the retry loop: any configured fallback is used.
RejectedEarly(c, e) == Ends(c, IF HasFallback THEN "fallback" ELSE "raised", e)

\* Given up in the retry loop: the fallback is used for the listed kinds.
GivesUp(c, e) == Ends(c, IF HasFallback /\ e \in FallbackOn THEN "fallback" ELSE "raised", e)

TakeSlot(c) == slots' = slots + 1 /\ held' = [held EXCEPT ![c] = TRUE]

\* release only if held, and remember that it is not held any more
ReleaseSlot(c) ==
  /\ IF held[c] THEN slots' = slots - 1 ELSE UNCHANGED slots
  /\ held' = [held EXCEPT ![c] = FALSE]

SlotFree == slots < MaxConcurrent

SpendToken(c) ==
  /\ tokens' = tokens - 1
  /\ paid' = [paid EXCEPT ![c] = IF @ < MaxAttempts THEN @ + 1 ELSE @]

NextAttempt(c) == attempt' = [attempt EXCEPT ![c] = @ + 1]

\* Does the caller that recorded this success emit CIRCUIT_CLOSED?
AnnouncesClose(prev, new) == new = "CLOSED" /\ prev # "CLOSED"

-----------------------------------------------------------------------------
(* Before the retry loop. *)

\* execute, up to the circuit breaker's answer
Arrive(c) ==
  LET b == CheckRecovery(breaker)
  IN  /\ pc[c] = "idle"
      /\ breaker' = b
      /\ IF b.state = "OPEN"
         THEN RejectedEarly(c, "CircuitOpen")
         ELSE Goto(c, "limiter") /\ UNCHANGED <<exc, outcome>>
      /\ UNCHANGED <<slots, tokens, attempt, held, paid, unannounced>>

\* The rate limiter answers, at once or after waiting up to max_wait.
Limit(c) ==
  /\ pc[c] = "limiter"
  /\ \/ Goto(c, "bulkhead") /\ UNCHANGED <<exc, outcome>>
     \/ RejectedEarly(c, "RateLimited")
  /\ UNCHANGED <<breaker, slots, tokens, attempt, held, paid, unannounced>>

\* The bulkhead answers, at once or after waiting up to max_wait; it refuses
\* only when every slot is taken (an async wait that times out just as a slot is
\* released is not told apart).  Attempt 1 starts without another look at
\* the circuit breaker.
Enter(c) ==
  /\ pc[c] = "bulkhead"
  /\ \/ /\ SlotFree
        /\ TakeSlot(c)
        /\ Goto(c, "run")
        /\ NextAttempt(c)
        /\ UNCHANGED <<exc, outcome>>
     \/ /\ ~SlotFree
        /\ RejectedEarly(c, "BulkheadFull")
        /\ UNCHANGED <<slots, held, attempt>>
  /\ UNCHANGED <<breaker, tokens, paid, unannounced>>

-----------------------------------------------------------------------------
(* The retry loop. *)

\* The function returns and its result is accepted.
Succeed(c) ==
  /\ pc[c] = "run"
  /\ \E slow \in Speeds :
       LET prev == CheckRecovery(breaker).state
           b == RecordSuccessAtomic(breaker, slow)
       IN  /\ breaker' = b
           /\ unannounced' = IF breaker.state # "CLOSED" /\ b.state = "CLOSED"
                             THEN unannounced + 1 ELSE unannounced
           /\ IF AnnouncesClose(prev, b.state)
              THEN /\ Goto(c, "announce")
                   /\ outcome' = [outcome EXCEPT ![c] = "value"]
                   /\ exc' = [exc EXCEPT ![c] = "none"]
              ELSE Ends(c, "value", "none")
  /\ UNCHANGED <<slots, tokens, attempt, held, paid>>

\* Emit CIRCUIT_CLOSED.
Announce(c) ==
  /\ pc[c] = "announce"
  /\ unannounced' = unannounced - 1
  /\ Goto(c, "leave")
  /\ UNCHANGED <<breaker, slots, tokens, attempt, held, exc, outcome, paid>>

\* The function returns a result that retry_on_result asks to retry: nothing is
\* recorded in the circuit; on the last attempt the result is returned as it is.
Disappoint(c) ==
  /\ pc[c] = "run" /\ RetriesResults
  /\ IF attempt[c] < MaxAttempts
     THEN /\ Goto(c, "budget")
          /\ exc' = [exc EXCEPT ![c] = "none"]
          /\ UNCHANGED outcome
     ELSE Ends(c, "value", "none")
  /\ UNCHANGED <<breaker, slots, tokens, attempt, held, paid, unannounced>>

\* The except clause of the loop, for an exception of kind e.
Handle(c, e) ==
  /\ IF e \in ErrorTypes \ CircuitIgnoreOn
     THEN \E slow \in Speeds : breaker' = RecordFailure(breaker, slow)
     ELSE UNCHANGED breaker
  /\ IF e \in IgnoreOn THEN Ends(c, "raised", e)
     ELSE IF attempt[c] < MaxAttempts /\ e \in RetryOn
     THEN /\ Goto(c, "budget")
          /\ exc' = [exc EXCEPT ![c] = e]
          /\ UNCHANGED outcome
     ELSE GivesUp(c, e)

\* The function raises, or exceeds its timeout.
Fail(c) ==
  /\ pc[c] = "run"
  /\ \E e \in Errors : Handle(c, e)
  /\ UNCHANGED <<slots, tokens, attempt, held, paid, unannounced>>

\* Without a token the retry is abandoned: an unwanted result is returned, an
\* exception goes to the fallback or the caller.
AskBudget(c) ==
  /\ pc[c] = "budget"
  /\ \/ /\ tokens > 0
        /\ SpendToken(c)
        /\ Goto(c, "pause")
        /\ UNCHANGED <<exc, outcome>>
     \/ /\ tokens = 0
        /\ IF exc[c] = "none" THEN Ends(c, "value", "none") ELSE GivesUp(c, exc[c])
        /\ UNCHANGED <<tokens, paid>>
  /\ UNCHANGED <<breaker, slots, attempt, held, unannounced>>

\* Release the slot for the time of the sleep.
Pause(c) ==
  /\ pc[c] = "pause"
  /\ ReleaseSlot(c)
  /\ Goto(c, "sleep")
  /\ UNCHANGED <<breaker, tokens, attempt, exc, outcome, paid, unannounced>>

\* An unwanted result with a zero delay is retried without releasing the slot.
SkipPause(c) ==
  /\ pc[c] = "pause" /\ exc[c] = "none"
  /\ Goto(c, "recheck")
  /\ NextAttempt(c)
  /\ UNCHANGED <<breaker, slots, tokens, held, exc, outcome, paid, unannounced>>

\* After the sleep the slot has to be won again.
Wake(c) ==
  /\ pc[c] = "sleep" /\ SlotFree
  /\ TakeSlot(c)
  /\ NextAttempt(c)
  /\ Goto(c, "recheck")
  /\ UNCHANGED <<breaker, tokens, exc, outcome, paid, unannounced>>

\* The bulkhead is full after the sleep.  On the exception path BulkheadFullError
\* leaves the loop at once, past the fallback; on the result path it is raised
\* inside the try block and handled like an exception of the function.
WakeRefused(c) ==
  /\ pc[c] = "sleep" /\ ~SlotFree
  /\ IF exc[c] = "none"
     THEN Handle(c, "BulkheadFull")
     ELSE Ends(c, "raised", "BulkheadFull") /\ UNCHANGED breaker
  /\ UNCHANGED <<slots, tokens, attempt, held, paid, unannounced>>

\* The delay cannot be computed, or not slept: delay_func raises, or the sleep does (of
\* NaN).  On the result path this too is inside the try block; on the exception path it
\* leaves the loop at once, past ignore_on and the fallback.
DelayRaises(c) ==
  /\ pc[c] \in {"pause", "sleep"}
  /\ \E e \in DelayErrors :
       IF exc[c] = "none"
       THEN Handle(c, e)
       ELSE Ends(c, "raised", e) /\ UNCHANGED breaker
  /\ UNCHANGED <<slots, tokens, attempt, held, paid, unannounced>>

\* The circuit breaker is asked again before every attempt but the first.
Recheck(c) ==
  LET b == CheckRecovery(breaker)
  IN  /\ pc[c] = "recheck"
      /\ breaker' = b
      /\ IF b.state = "OPEN"
         THEN GivesUp(c, "CircuitOpen")
         ELSE Goto(c, "run") /\ UNCHANGED <<exc, outcome>>
      /\ UNCHANGED <<slots, tokens, attempt, held, paid, unannounced>>

\* A BaseException, such as the cancellation of the task at an await or
\* KeyboardInterrupt, passes every except clause and only meets the finally
\* blocks: nothing is recorded.
Abort(c) ==
  /\ pc[c] \in {"limiter", "bulkhead", "run", "sleep"}
  /\ Ends(c, "aborted", "none")
  /\ UNCHANGED <<breaker, slots, tokens, attempt, held, paid, unannounced>>

\* The finally blocks; the caller may call again.
Leave(c) ==
  /\ pc[c] = "leave"
  /\ ReleaseSlot(c)
  /\ Goto(c, "idle")
  /\ attempt' = [attempt EXCEPT ![c] = 0]
  /\ exc' = [exc EXCEPT ![c] = "none"]
  /\ outcome' = [outcome EXCEPT ![c] = "none"]
  /\ paid' = [paid EXCEPT ![c] = 0]
  /\ UNCHANGED <<breaker, tokens, unannounced>>

-----------------------------------------------------------------------------
(* The environment: time. *)

Tick ==
  /\ breaker' = Elapse(breaker)
  /\ UNCHANGED <<slots, tokens, progress, paid, unannounced>>

\* A whole token comes back (RetryBudget._refill; TokenBucket.tla has the rate).
Refill ==
  /\ tokens < MaxRetries
  /\ tokens' = tokens + 1
  /\ UNCHANGED <<breaker, slots, progress, paid, unannounced>>

\* What a call does by itself once it has begun.
Advance(c) ==
  \/ Limit(c) \/ Enter(c)
  \/ Succeed(c) \/ Announce(c) \/ Disappoint(c) \/ Fail(c)
  \/ AskBudget(c) \/ Pause(c) \/ SkipPause(c) \/ Wake(c) \/ WakeRefused(c) \/ DelayRaises(c)
  \/ Recheck(c) \/ Leave(c)

Next ==
  \/ \E c \in Calls : Arrive(c) \/ Advance(c) \/ Abort(c)
  \/ Tick
  \/ Refill

Spec == Init /\ [][Next]_vars

\* Every call in progress keeps running, and the function and the sleeps end.
FairSpec == Spec /\ \A c \in Calls : WF_vars(Advance(c))

-----------------------------------------------------------------------------
(* Properties. *)

Holders == {c \in Calls : held[c]}

\* No slot leaks and none is given back twice: whatever way calls fail, retry, are
\* refused on waking up or are cancelled, the bulkhead counts exactly the calls
\* that believe they hold a slot (bulkhead_held and the finally block).
SlotsConserved == slots = Cardinality(Holders) /\ slots <= MaxConcurrent

\* The function runs only inside the bulkhead, at every attempt, although the
\* slot is given up during the sleep before it.
RunsInsideBulkhead == \A c \in Calls : pc[c] \in {"run", "recheck"} => held[c]

\* Every attempt after the first has been paid for with a retry token, on the
\* exception path and on the result path.
RetriesArePaid == \A c \in Calls : pc[c] = "run" => paid[c] >= attempt[c] - 1

\* Every closing of the circuit is announced by exactly one of the calls whose
\* successes overlapped (record_success_atomic and its callers).
ClosingAnnouncedOnce == unannounced = Cardinality({c \in Calls : pc[c] = "announce"})

\* Every call comes back to its caller: no retry, refusal or rejection leaves it
\* in the executor for ever.
EveryCallReturns == \A c \in Calls : pc[c] # "idle" ~> pc[c] = "idle"

\* The composition keeps the promise of bulkhead and retry together.
Promise == INSTANCE BoundedRetries WITH
  inside <- Holders,
  resting <- {c \in Calls : attempt[c] > 0 /\ ~held[c]},
  tries <- attempt

ImplementsBoundedRetries == Promise!BSpec

-----------------------------------------------------------------------------
(* What the documentation says and the code does not do. *)

\* circuitbreaker.md: while OPEN, no calls reach the protected function.  The
\* first attempt starts after the waits for the rate limiter and the bulkhead,
\* with the answer the circuit breaker gave before them.
OpenCircuitShields ==
  [][ \A c \in Calls : pc[c] # "run" /\ pc'[c] = "run" =>
        CheckRecovery(breaker).state # "OPEN" ]_vars

\* _types.py: fallback_on lists the exceptions that trigger the fallback, none of
\* them without a handler.  The rejections before the retry loop do not look at it.
FallbackOnlyOnListed ==
  \A c \in Calls : outcome[c] = "fallback" => exc[c] \in FallbackOn

\* bulkhead.md: with a fallback on BulkheadFullError a full bulkhead gives the
\* degraded response instead of raising.  A call that finds it full on waking up
\* from a retry sleep raises, and so does one whose delay_func or sleep raises.
FallbackCoversListed ==
  \A c \in Calls : outcome[c] = "raised" /\ HasFallback =>
    exc[c] \notin FallbackOn \ IgnoreOn

=============================================================================
