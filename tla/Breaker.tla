------------------------------- MODULE Breaker -------------------------------
(***************************************************************************)
(* The class CircuitBreaker of _circuit_breaker.py as operators on a       *)
(* breaker record.  Every public method of the class runs under one lock,  *)
(* so each method is one operator from the record before to the record     *)
(* after; CircuitBreaker.tla and Executor.tla decide who calls them when. *)
(*                                                                         *)
(* Data abstraction: last_failure_time is only ever compared with the      *)
(* clock, so the record keeps the time elapsed since then (sinceFailure,   *)
(* counted in ticks and saturated at RecoveryTimeout, where it stops       *)
(* mattering).  A duration is only compared with slow_call_duration, so a  *)
(* call is slow or not.  failure_count is only compared with               *)
(* FailureThreshold and saturates there.  Rates are percentages.           *)
(***************************************************************************)
EXTENDS Integers, Sequences, FiniteSets

CONSTANTS
  FailureThreshold,   \* failure_threshold
  SuccessThreshold,   \* success_threshold, not validated by the code
  RecoveryTimeout,    \* recovery_timeout, in ticks
  WindowSize,         \* sliding_window_size; 0 selects consecutive counting
  MinimumCalls,       \* minimum_calls; 0 stands for WindowSize
  FailureRate,        \* failure_rate_threshold, in percent
  DetectSlow,         \* slow_call_duration > 0
  SlowRate            \* slow_call_rate_threshold, in percent

ASSUME BreakerAssumption ==
  /\ FailureThreshold \in Nat \ {0}
  /\ SuccessThreshold \in Nat
  /\ RecoveryTimeout \in Nat
  /\ WindowSize \in Nat
  /\ MinimumCalls \in Nat
  /\ FailureRate \in 0..100
  /\ DetectSlow \in BOOLEAN
  /\ SlowRate \in Nat

CircuitState == {"CLOSED", "OPEN", "HALF_OPEN"}

Outcome == [failed : BOOLEAN, slow : BOOLEAN]

Never == -1

Breakers ==
  [state : CircuitState,
   failureCount : 0..FailureThreshold,
   successCount : Nat,
   sinceFailure : {Never} \cup 0..RecoveryTimeout,
   window : Seq(Outcome)]

InitBreaker ==
  [state |-> "CLOSED", failureCount |-> 0, successCount |-> 0,
   sinceFailure |-> Never, window |-> <<>>]

\* How long a call took, as far as the breaker can tell.
Speeds == IF DetectSlow THEN BOOLEAN ELSE {FALSE}

-----------------------------------------------------------------------------
(* Faulty variants: each is a plausible slip in the code.  No module uses   *)
(* them; a mutation run puts one in the place of the operator it imitates. *)

CheckRecoveryKeepsCount(b) ==
  IF b.state = "OPEN" /\ b.sinceFailure # Never /\ b.sinceFailure >= RecoveryTimeout
  THEN [b EXCEPT !.state = "HALF_OPEN"] ELSE b

CheckRecoveryEarly(b) ==
  IF b.state = "OPEN" /\ b.sinceFailure # Never /\ b.sinceFailure + 1 >= RecoveryTimeout
  THEN [b EXCEPT !.state = "HALF_OPEN", !.successCount = 0] ELSE b

CheckRecoveryMissing(b) == b

ClosedKeepsEvidence(b) == [b EXCEPT !.state = "CLOSED", !.successCount = 0]

ForgiveNothing(b) == b

RememberOldest(w, o) == IF Len(w) >= WindowSize THEN w ELSE Append(w, o)

-----------------------------------------------------------------------------
(* Sliding window. *)

CallsNeeded == IF MinimumCalls = 0 THEN WindowSize ELSE MinimumCalls

\* append to a deque(maxlen=WindowSize)
Remember(w, o) ==
  LET all == Append(w, o)
  IN  IF Len(all) > WindowSize THEN Tail(all) ELSE all

Failures(w) == Cardinality({i \in DOMAIN w : w[i].failed})

SlowCalls(w) == Cardinality({i \in DOMAIN w : w[i].slow})

\* What _maybe_open_from_window tests.
Unhealthy(w) ==
  /\ Len(w) >= CallsNeeded
  /\ \/ Failures(w) * 100 >= FailureRate * Len(w)
     \/ DetectSlow /\ SlowCalls(w) * 100 >= SlowRate * Len(w)

-----------------------------------------------------------------------------
(* Transitions. *)

\* last_failure_time = now and state = OPEN
Opened(b) == [b EXCEPT !.state = "OPEN", !.sinceFailure = 0]

\* The counters cleared on the way back to CLOSED.
Closed(b) ==
  [b EXCEPT !.state = "CLOSED", !.failureCount = 0, !.successCount = 0, !.window = <<>>]

\* A failure seen while HALF_OPEN.
Reopened(b) == [Opened(b) EXCEPT !.successCount = 0]

CheckRecovery(b) ==
  IF b.state = "OPEN" /\ b.sinceFailure # Never /\ b.sinceFailure >= RecoveryTimeout
  THEN [b EXCEPT !.state = "HALF_OPEN", !.successCount = 0]
  ELSE b

Observe(b, failed, slow) ==
  LET w == Remember(b.window, [failed |-> failed, slow |-> slow])
      c == [b EXCEPT !.window = w]
  IN  IF Unhealthy(w) THEN Opened(c) ELSE c

\* A success in consecutive mode, in any state but HALF_OPEN.
Forgive(b) == [b EXCEPT !.failureCount = 0]

\* A success seen while HALF_OPEN.
ProbeSucceeded(b) ==
  IF b.successCount + 1 >= SuccessThreshold
  THEN Closed(b)
  ELSE [b EXCEPT !.successCount = @ + 1]

\* A failure in consecutive mode, in any state but HALF_OPEN.
CountFailure(b) ==
  LET c == [b EXCEPT !.failureCount = IF @ < FailureThreshold THEN @ + 1 ELSE @]
  IN  IF c.failureCount >= FailureThreshold THEN Opened(c) ELSE c

RecordSuccess(b, slow) ==
  IF b.state = "HALF_OPEN" THEN ProbeSucceeded(b)
  ELSE IF WindowSize > 0 THEN Observe(b, FALSE, slow)
  ELSE Forgive(b)

RecordSuccessAtomic(b, slow) == RecordSuccess(CheckRecovery(b), slow)

RecordFailure(b, slow) ==
  IF b.state = "HALF_OPEN" THEN Reopened(b)
  ELSE IF WindowSize > 0 THEN Observe(b, TRUE, slow)
  ELSE CountFailure(b)

ForceClose(b) == Closed(b)

Reset(b) == [Closed(b) EXCEPT !.sinceFailure = Never]

\* One tick of the monotonic clock, as far as the breaker can tell.
Elapse(b) ==
  IF b.sinceFailure \in 0..(RecoveryTimeout - 1)
  THEN [b EXCEPT !.sinceFailure = @ + 1]
  ELSE b

=============================================================================
