--------------------------- MODULE CircuitBreaker ---------------------------
(***************************************************************************)
(* One circuit breaker shared by concurrent calls.  A call asks            *)
(* allow_request, runs outside the lock for as long as it likes, and then  *)
(* reports its outcome; the circuit may have opened, recovered or closed   *)
(* in between, so an outcome is recorded in whatever state it finds.       *)
(* Operators may force or reset the circuit at any time.                   *)
(***************************************************************************)
EXTENDS Breaker

CONSTANT Calls          \* the threads or tasks that share the breaker

VARIABLES
  breaker,    \* the CircuitBreaker object
  admitted,   \* for each call in flight, the state it was admitted in
  openAge,    \* history: ticks since the circuit last became OPEN, saturated
  failRun     \* history: failures recorded since the last recorded success or the
              \* last force_close or reset, saturated at FailureThreshold

vars == <<breaker, admitted, openAge, failRun>>

TypeOK ==
  /\ breaker \in Breakers
  /\ Len(breaker.window) <= WindowSize
  /\ admitted \in [Calls -> {"none", "CLOSED", "HALF_OPEN"}]
  /\ openAge \in 0..RecoveryTimeout
  /\ failRun \in 0..FailureThreshold

Init ==
  /\ breaker = InitBreaker
  /\ admitted = [c \in Calls |-> "none"]
  /\ openAge = 0
  /\ failRun = 0

InFlight == {c \in Calls : admitted[c] # "none"}

-----------------------------------------------------------------------------
(* History: what the properties need to know of the past. *)

AgeAfter(b) == IF breaker.state # "OPEN" /\ b.state = "OPEN" THEN 0 ELSE openAge

RunAfter(failed) ==
  IF ~failed THEN 0 ELSE IF failRun < FailureThreshold THEN failRun + 1 ELSE failRun

\* The breaker becomes b in a step that records no outcome.
Become(b) == breaker' = b /\ openAge' = AgeAfter(b) /\ UNCHANGED failRun

\* The breaker becomes b, which has forgotten what it recorded.
ForgetAll(b) == breaker' = b /\ openAge' = AgeAfter(b) /\ failRun' = 0

\* The breaker becomes b because the outcome of c was recorded.
Recorded(c, b, failed) ==
  /\ admitted[c] # "none"
  /\ breaker' = b
  /\ openAge' = AgeAfter(b)
  /\ failRun' = RunAfter(failed)
  /\ admitted' = [admitted EXCEPT ![c] = "none"]

-----------------------------------------------------------------------------
\* allow_request returning True
Admit(c) ==
  LET b == CheckRecovery(breaker)
  IN  /\ admitted[c] = "none"
      /\ b.state # "OPEN"
      /\ Become(b)
      /\ admitted' = [admitted EXCEPT ![c] = b.state]

\* allow_request returning False: the check for recovery found nothing to do
Reject(c) ==
  /\ admitted[c] = "none"
  /\ CheckRecovery(breaker).state = "OPEN"
  /\ Become(CheckRecovery(breaker))
  /\ UNCHANGED admitted

\* record_success_atomic, the way the executors report a success
EndSuccessAtomic(c) ==
  \E slow \in Speeds : Recorded(c, RecordSuccessAtomic(breaker, slow), FALSE)

\* record_success, the public method, which does not check for recovery first
EndSuccess(c) ==
  \E slow \in Speeds : Recorded(c, RecordSuccess(breaker, slow), FALSE)

\* record_failure
EndFailure(c) ==
  \E slow \in Speeds : Recorded(c, RecordFailure(breaker, slow), TRUE)

\* An exception that is not an error type or is on ignore_on, a cancelled
\* task, a result that asks for a retry: nothing is recorded.
EndUnrecorded(c) ==
  /\ admitted[c] # "none"
  /\ admitted' = [admitted EXCEPT ![c] = "none"]
  /\ UNCHANGED <<breaker, openAge, failRun>>

\* The state property, read by anyone at any time
ReadState == Become(CheckRecovery(breaker)) /\ UNCHANGED admitted

\* force_open; asked for again on an open circuit, it starts the wait afresh.
ForceOpened ==
  /\ breaker' = Opened(breaker)
  /\ openAge' = 0
  /\ UNCHANGED <<admitted, failRun>>

ForceClosed == ForgetAll(ForceClose(breaker)) /\ UNCHANGED admitted

WasReset == ForgetAll(Reset(breaker)) /\ UNCHANGED admitted

Tick ==
  /\ breaker' = Elapse(breaker)
  /\ openAge' = IF breaker.state = "OPEN" /\ openAge < RecoveryTimeout
                THEN openAge + 1 ELSE openAge
  /\ UNCHANGED <<admitted, failRun>>

Request == \E c \in Calls : Admit(c)

Report(c) == EndSuccessAtomic(c) \/ EndSuccess(c) \/ EndFailure(c) \/ EndUnrecorded(c)

Next ==
  \/ \E c \in Calls : Admit(c) \/ Reject(c) \/ Report(c)
  \/ ReadState
  \/ ForceOpened
  \/ ForceClosed
  \/ WasReset
  \/ Tick

Spec == Init /\ [][Next]_vars

\* Time passes, some caller keeps asking, and every call in flight ends.
FairSpec ==
  /\ Spec
  /\ WF_vars(Tick)
  /\ WF_vars(Request)
  /\ \A c \in Calls : WF_vars(Report(c))

-----------------------------------------------------------------------------
(* Properties. *)

\* A CLOSED circuit is never one outcome past its threshold: in consecutive
\* mode the failures counted stay below failure_threshold, in window mode the
\* window is below both rates.  Whatever closes the circuit has to clear the
\* evidence that opened it (record_success, reset, force_close).
ClosedIsHealthy ==
  breaker.state = "CLOSED" =>
    IF WindowSize > 0
    THEN ~Unhealthy(breaker.window)
    ELSE breaker.failureCount < FailureThreshold

\* Left to itself an OPEN circuit stays OPEN for the whole recovery_timeout:
\* only reset and force_close end it earlier, whichever outcomes of earlier
\* calls arrive meanwhile (_check_recovery, record_failure).
OpenOutlastsRecovery ==
  [][ breaker.state = "OPEN" /\ breaker'.state # "OPEN" =>
        openAge >= RecoveryTimeout \/ ForceClosed \/ WasReset ]_vars

\* In consecutive mode a CLOSED circuit opens only when force_open is called or
\* when the last failure_threshold outcomes recorded were all failures, however
\* the calls that report them overlapped (record_failure, record_success).
TripsOnConsecutiveFailures ==
  [][ WindowSize = 0 /\ breaker.state = "CLOSED" /\ breaker'.state = "OPEN" =>
        failRun' = FailureThreshold \/ ForceOpened ]_vars

\* An outage always trips the window: after as many failures in a row as the window
\* holds the circuit is not CLOSED, whatever came before, however late the outcomes of
\* overlapping calls arrive, and although the window also counts those that arrive
\* while it is OPEN.  It takes a minimum_calls that fits the window, which the code
\* does not ask for, and a failRun that can count so far.
WindowTripsOnOutage ==
  /\ 0 < WindowSize /\ WindowSize <= FailureThreshold
  /\ CallsNeeded <= WindowSize
  /\ failRun >= WindowSize
  => breaker.state # "CLOSED"

\* The time an OPEN circuit has left to wait is always known: no interleaving of
\* reset and late outcomes leaves it OPEN without last_failure_time, which would
\* keep it OPEN for ever (the guard of _check_recovery).
OpenHasTimer == breaker.state = "OPEN" => breaker.sinceFailure # Never

\* Traffic resumes: unless operators keep forcing the circuit open, calls are let
\* through again and again, even when every one of them fails.
TrafficResumes == <>[][~ForceOpened]_vars => []<>(InFlight # {})

\* The breaker keeps the promise of AbstractBreaker.
Abstract == INSTANCE AbstractBreaker WITH
  mode <- breaker.state,
  waited <- IF breaker.state = "OPEN" THEN breaker.sinceFailure ELSE 0,
  wins <- IF breaker.state = "HALF_OPEN" THEN breaker.successCount ELSE 0,
  running <- InFlight

ImplementsAbstract == Abstract!ASpec

-----------------------------------------------------------------------------
(* What the documentation says and the code does not do. *)

\* circuitbreaker.md: in HALF_OPEN a limited number of calls are allowed through
\* to test the service.  The one limit the configuration knows is the number of
\* successes needed; allow_request lets every caller through.
HalfOpenIsLimited ==
  Cardinality({c \in Calls : admitted[c] = "HALF_OPEN"}) <= SuccessThreshold

\* _types.py: recovery_timeout is the time to wait before half-open.  A failure
\* reported late, by a call admitted before the circuit opened, restarts the wait.
RecoversAfterTimeout ==
  breaker.state = "OPEN" /\ openAge = RecoveryTimeout =>
    CheckRecovery(breaker).state = "HALF_OPEN"

=============================================================================
