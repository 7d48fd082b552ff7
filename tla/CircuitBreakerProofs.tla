------------------------ MODULE CircuitBreakerProofs ------------------------
(***************************************************************************)
(* Proofs about CircuitBreaker for every set of calls and every legal      *)
(* configuration, in either counting mode.                                 *)
(***************************************************************************)
EXTENDS CircuitBreaker, BreakerProofs, FiniteSetTheorems

-----------------------------------------------------------------------------
(* The inductive invariant. *)

\* An OPEN circuit's timer runs and never claims more time than has passed since
\* the circuit opened.
TimerIsHonest ==
  breaker.state = "OPEN" =>
    /\ breaker.sinceFailure # Never
    /\ breaker.sinceFailure <= openAge

\* In consecutive mode a CLOSED circuit counts only consecutive failures.
CountsConsecutive ==
  WindowSize = 0 /\ breaker.state = "CLOSED" => breaker.failureCount <= failRun

IInv ==
  /\ TypeOK
  /\ ClosedIsHealthy
  /\ TimerIsHonest
  /\ CountsConsecutive

LEMMA InvariantInitially == Init => IInv
<1> SUFFICES ASSUME Init PROVE IInv
  OBVIOUS
<1>1. InitBreaker \in WellFormed /\ Healthy(InitBreaker) /\ InitBreaker.state = "CLOSED"
  BY InitFacts
<1>2. InitBreaker.failureCount = 0 /\ 0 \in 0..FailureThreshold /\ 0 \in 0..RecoveryTimeout
  BY BreakerAssumption DEF InitBreaker
<1>3. TypeOK
  BY <1>1, <1>2 DEF Init, TypeOK, WellFormed
<1>4. ClosedIsHealthy
  BY <1>1 DEF Init, ClosedIsHealthy, Healthy
<1>5. TimerIsHonest /\ CountsConsecutive
  BY <1>1, <1>2 DEF Init, TimerIsHonest, CountsConsecutive
<1>6. QED BY <1>3, <1>4, <1>5 DEF IInv

\* The part of the invariant that speaks of the breaker, for every step that
\* replaces the breaker by one that follows it.
LEMMA BreakerKept ==
  ASSUME IInv, NEW d, Follows(breaker, d), breaker' = d, openAge' = AgeAfter(d)
  PROVE  /\ breaker' \in Breakers /\ Len(breaker'.window) <= WindowSize
         /\ openAge' \in 0..RecoveryTimeout
         /\ ClosedIsHealthy'
         /\ TimerIsHonest'
<1>1. breaker' \in Breakers /\ Len(breaker'.window) <= WindowSize
  BY DEF Follows, WellFormed
<1>2. openAge' \in 0..RecoveryTimeout
  BY BreakerAssumption DEF AgeAfter, IInv, TypeOK
<1>3. ClosedIsHealthy'
  BY DEF Follows, Healthy, ClosedIsHealthy
<1>4. TimerIsHonest'
  <2>1. SUFFICES ASSUME d.state = "OPEN"
                 PROVE  d.sinceFailure # Never /\ d.sinceFailure <= openAge'
    BY DEF TimerIsHonest
  <2>2. CASE d.sinceFailure = 0
    BY <1>2, <2>2, BreakerAssumption DEF Never
  <2>3. CASE breaker.state = "OPEN" /\ d.sinceFailure = breaker.sinceFailure
    BY <2>3 DEF IInv, TimerIsHonest, AgeAfter
  <2>4. QED BY <2>1, <2>2, <2>3 DEF Follows
<1>5. QED BY <1>1, <1>2, <1>3, <1>4

\* The breaker of a reachable state satisfies what the lemmas ask of it.
LEMMA BreakerGiven ==
  ASSUME IInv
  PROVE  breaker \in WellFormed /\ Healthy(breaker)
BY DEF IInv, TypeOK, WellFormed, Healthy, ClosedIsHealthy

\* A step that records no outcome and replaces the breaker by one that follows
\* it, counting nothing in consecutive mode.
LEMMA BecomeKeeps ==
  ASSUME IInv, NEW d, Follows(breaker, d), Become(d),
         d.state = "CLOSED" => d.failureCount = 0 \/ d = breaker,
         admitted' \in [Calls -> {"none", "CLOSED", "HALF_OPEN"}]
  PROVE  IInv'
<1>1. breaker' = d /\ openAge' = AgeAfter(d)
  BY DEF Become
<1>2. /\ breaker' \in Breakers /\ Len(breaker'.window) <= WindowSize
      /\ openAge' \in 0..RecoveryTimeout /\ ClosedIsHealthy' /\ TimerIsHonest'
  BY <1>1, BreakerKept
<1>3. failRun' \in 0..FailureThreshold
  BY BreakerAssumption DEF Become, IInv, TypeOK
<1>4. CountsConsecutive'
  BY <1>1, <1>3, BreakerAssumption DEF CountsConsecutive, Become, IInv, TypeOK
<1>5. TypeOK'
  BY <1>2, <1>3 DEF TypeOK
<1>6. QED BY <1>2, <1>4, <1>5 DEF IInv

\* A step that records the outcome of a call.
LEMMA RecordedKeeps ==
  ASSUME IInv, NEW d, NEW c \in Calls, NEW failed \in BOOLEAN,
         Follows(breaker, d), Recorded(c, d, failed),
         WindowSize = 0 /\ d.state = "CLOSED" =>
           IF failed
           THEN breaker.state = "CLOSED" /\ d.failureCount = breaker.failureCount + 1
           ELSE d.failureCount = 0
  PROVE  IInv'
<1>1. breaker' = d /\ openAge' = AgeAfter(d) /\ failRun' = RunAfter(failed)
  BY DEF Recorded
<1>2. /\ breaker' \in Breakers /\ Len(breaker'.window) <= WindowSize
      /\ openAge' \in 0..RecoveryTimeout /\ ClosedIsHealthy' /\ TimerIsHonest'
  BY <1>1, BreakerKept
<1>3. /\ failRun \in 0..FailureThreshold
      /\ failRun' \in 0..FailureThreshold
      /\ failed => failRun' = FailureThreshold \/ failRun' = failRun + 1
  BY <1>1, BreakerAssumption DEF RunAfter, IInv, TypeOK
<1>4. CountsConsecutive'
  <2>1. SUFFICES ASSUME WindowSize = 0, d.state = "CLOSED"
                 PROVE  d.failureCount <= failRun'
    BY <1>1 DEF CountsConsecutive
  <2>2. CASE failed
    <3>1. breaker.state = "CLOSED" /\ d.failureCount = breaker.failureCount + 1
      BY <2>1, <2>2
    <3>2. breaker.failureCount <= failRun
      BY <2>1, <3>1 DEF IInv, CountsConsecutive
    <3>3. breaker.failureCount \in Nat /\ d.failureCount \in 0..FailureThreshold
      BY <1>1, <1>2 DEF IInv, TypeOK, Breakers
    <3>4. QED BY <1>3, <2>2, <3>1, <3>2, <3>3, BreakerAssumption
  <2>3. CASE ~failed
    BY <1>3, <2>1, <2>3, BreakerAssumption
  <2>4. QED BY <2>2, <2>3
<1>5. TypeOK'
  BY <1>2, <1>3 DEF TypeOK, Recorded, IInv
<1>6. QED BY <1>2, <1>4, <1>5 DEF IInv

-----------------------------------------------------------------------------
(* Every step keeps the invariant. *)

LEMMA AdmitKeeps == ASSUME IInv, NEW c \in Calls, Admit(c) PROVE IInv'
<1> DEFINE d == CheckRecovery(breaker)
<1>1. Follows(breaker, d) /\ (d = breaker \/ d.state = "HALF_OPEN")
  BY BreakerGiven, CheckRecoveryFollows, CheckRecoveryFacts
<1>2. d.state \in {"CLOSED", "HALF_OPEN"}
  BY <1>1 DEF Admit, Follows, WellFormed, Breakers, CircuitState
<1>3. admitted' \in [Calls -> {"none", "CLOSED", "HALF_OPEN"}]
  BY <1>2 DEF Admit, IInv, TypeOK
<1>4. Become(d)
  BY DEF Admit
<1> HIDE DEF d
<1>5. QED BY <1>1, <1>3, <1>4, BecomeKeeps

\* Both a rejected request and a reader of state only check for recovery.
LEMMA LookKeeps ==
  ASSUME IInv, Become(CheckRecovery(breaker)), UNCHANGED admitted PROVE IInv'
<1> DEFINE d == CheckRecovery(breaker)
<1>1. Follows(breaker, d) /\ (d = breaker \/ d.state = "HALF_OPEN")
  BY BreakerGiven, CheckRecoveryFollows, CheckRecoveryFacts
<1>2. admitted' \in [Calls -> {"none", "CLOSED", "HALF_OPEN"}]
  BY DEF IInv, TypeOK
<1>3. Become(d)
  OBVIOUS
<1> HIDE DEF d
<1>4. QED BY <1>1, <1>2, <1>3, BecomeKeeps

LEMMA ReportKeeps == ASSUME IInv, NEW c \in Calls, Report(c) PROVE IInv'
<1>1. CASE EndSuccessAtomic(c)
  <2>1. PICK slow \in Speeds : Recorded(c, RecordSuccessAtomic(breaker, slow), FALSE)
    BY <1>1 DEF EndSuccessAtomic
  <2>2. slow \in BOOLEAN /\ FALSE \in BOOLEAN
    BY SpeedsAreBoolean
  <2>3. QED BY <2>1, <2>2, BreakerGiven, RecordSuccessAtomicFacts, RecordedKeeps
<1>2. CASE EndSuccess(c)
  <2>1. PICK slow \in Speeds : Recorded(c, RecordSuccess(breaker, slow), FALSE)
    BY <1>2 DEF EndSuccess
  <2>2. slow \in BOOLEAN /\ FALSE \in BOOLEAN
    BY SpeedsAreBoolean
  <2>3. QED BY <2>1, <2>2, BreakerGiven, RecordSuccessFacts, RecordedKeeps
<1>3. CASE EndFailure(c)
  <2>1. PICK slow \in Speeds : Recorded(c, RecordFailure(breaker, slow), TRUE)
    BY <1>3 DEF EndFailure
  <2>2. slow \in BOOLEAN /\ TRUE \in BOOLEAN
    BY SpeedsAreBoolean
  <2>3. QED BY <2>1, <2>2, BreakerGiven, RecordFailureFacts, RecordedKeeps
<1>4. CASE EndUnrecorded(c)
  <2>1. TypeOK'
    BY <1>4 DEF EndUnrecorded, IInv, TypeOK
  <2>2. QED
    BY <1>4, <2>1
    DEF EndUnrecorded, IInv, ClosedIsHealthy, TimerIsHonest, CountsConsecutive
<1>5. QED BY <1>1, <1>2, <1>3, <1>4 DEF Report

LEMMA OverrideKeeps ==
  ASSUME IInv, ForceOpened \/ ForceClosed \/ WasReset PROVE IInv'
<1>1. breaker \in WellFormed /\ Healthy(breaker)
  BY BreakerGiven
<1>2. CASE ForceOpened
  <2>1. breaker' \in WellFormed /\ breaker'.state = "OPEN" /\ breaker'.sinceFailure = 0
    BY <1>1, <1>2, OpenedFacts DEF ForceOpened
  <2>2. openAge' = 0 /\ 0 \in 0..RecoveryTimeout /\ 0 <= 0
    BY <1>2, BreakerAssumption DEF ForceOpened
  <2>3. TypeOK'
    BY <1>2, <2>1, <2>2 DEF ForceOpened, WellFormed, IInv, TypeOK
  <2>4. QED
    BY <2>1, <2>2, <2>3
    DEF IInv, ClosedIsHealthy, TimerIsHonest, CountsConsecutive, Never
<1>3. CASE ForceClosed
  <2>1. /\ breaker' \in WellFormed /\ Healthy(breaker') /\ breaker'.state = "CLOSED"
        /\ breaker'.failureCount = 0
    BY <1>1, <1>3, ClosedFacts DEF ForceClosed, ForceClose, ForgetAll
  <2>2. failRun' \in 0..FailureThreshold /\ openAge' \in 0..RecoveryTimeout /\ UNCHANGED admitted
    BY <1>3, <2>1, BreakerAssumption DEF ForceClosed, ForceClose, ForgetAll, AgeAfter, IInv, TypeOK
  <2>3. TypeOK'
    BY <2>1, <2>2 DEF WellFormed, IInv, TypeOK
  <2>4. QED
    BY <2>1, <2>2, <2>3, BreakerAssumption
    DEF IInv, Healthy, ClosedIsHealthy, TimerIsHonest, CountsConsecutive
<1>4. CASE WasReset
  <2>1. /\ breaker' \in WellFormed /\ Healthy(breaker') /\ breaker'.state = "CLOSED"
        /\ breaker'.failureCount = 0
    BY <1>1, <1>4, ClosedFacts DEF WasReset, ForgetAll
  <2>2. failRun' \in 0..FailureThreshold /\ openAge' \in 0..RecoveryTimeout /\ UNCHANGED admitted
    BY <1>4, <2>1, BreakerAssumption DEF WasReset, ForgetAll, AgeAfter, IInv, TypeOK
  <2>3. TypeOK'
    BY <2>1, <2>2 DEF WellFormed, IInv, TypeOK
  <2>4. QED
    BY <2>1, <2>2, <2>3, BreakerAssumption
    DEF IInv, Healthy, ClosedIsHealthy, TimerIsHonest, CountsConsecutive
<1>5. QED BY <1>2, <1>3, <1>4

LEMMA TickKeeps == ASSUME IInv, Tick PROVE IInv'
<1>1. breaker \in Breakers /\ Len(breaker.window) <= WindowSize
  BY DEF IInv, TypeOK
<1>2. /\ breaker' \in Breakers /\ breaker'.state = breaker.state
      /\ breaker'.window = breaker.window /\ breaker'.failureCount = breaker.failureCount
      /\ breaker'.sinceFailure = IF breaker.sinceFailure \in 0..(RecoveryTimeout - 1)
                                 THEN breaker.sinceFailure + 1 ELSE breaker.sinceFailure
  BY <1>1, ElapseFacts DEF WellFormed, Tick
<1>3. openAge' \in 0..RecoveryTimeout
  BY BreakerAssumption DEF Tick, IInv, TypeOK
<1>4. TimerIsHonest'
  <2>1. SUFFICES ASSUME breaker.state = "OPEN"
                 PROVE  breaker'.sinceFailure # Never /\ breaker'.sinceFailure <= openAge'
    BY <1>2 DEF TimerIsHonest
  <2>2. /\ breaker.sinceFailure \in 0..RecoveryTimeout
        /\ breaker.sinceFailure <= openAge /\ openAge \in 0..RecoveryTimeout
    BY <1>1, <2>1 DEF IInv, TimerIsHonest, TypeOK, Breakers
  <2>3. openAge' = IF openAge < RecoveryTimeout THEN openAge + 1 ELSE openAge
    BY <2>1 DEF Tick
  <2>4. QED BY <1>2, <2>2, <2>3, BreakerAssumption DEF Never
<1>5. TypeOK'
  BY <1>1, <1>2, <1>3 DEF Tick, IInv, TypeOK
<1>6. QED
  BY <1>2, <1>4, <1>5 DEF Tick, IInv, ClosedIsHealthy, CountsConsecutive

LEMMA InvariantKept == IInv /\ [Next]_vars => IInv'
<1> SUFFICES ASSUME IInv, [Next]_vars PROVE IInv'
  OBVIOUS
<1>1. ASSUME NEW c \in Calls, Admit(c) PROVE IInv'
  BY <1>1, AdmitKeeps
<1>2. ASSUME NEW c \in Calls, Reject(c) PROVE IInv'
  BY <1>2, LookKeeps DEF Reject
<1>3. ASSUME NEW c \in Calls, Report(c) PROVE IInv'
  BY <1>3, ReportKeeps
<1>4. CASE ReadState
  BY <1>4, LookKeeps DEF ReadState
<1>5. CASE ForceOpened \/ ForceClosed \/ WasReset
  BY <1>5, OverrideKeeps
<1>6. CASE Tick
  BY <1>6, TickKeeps
<1>7. CASE UNCHANGED vars
  BY <1>7 DEF vars, IInv, TypeOK, ClosedIsHealthy, TimerIsHonest, CountsConsecutive
<1>8. QED BY <1>1, <1>2, <1>3, <1>4, <1>5, <1>6, <1>7 DEF Next

-----------------------------------------------------------------------------
(* Theorems. *)

LEMMA Invariance == Spec => []IInv
BY InvariantInitially, InvariantKept, PTL DEF Spec

\* The state of the breaker, the calls and the history are always well typed.
THEOREM TypeCorrect == Spec => []TypeOK
BY Invariance, PTL DEF IInv

\* Whatever closes the circuit, in whichever order the outcomes of overlapping
\* calls arrive, a CLOSED circuit is below its thresholds (record_success_atomic,
\* record_success, record_failure, reset, force_close).
THEOREM ClosedIsAlwaysHealthy == Spec => []ClosedIsHealthy
BY Invariance, PTL DEF IInv

\* An OPEN circuit always knows how long it has left to wait (_check_recovery).
THEOREM OpenAlwaysHasTimer == Spec => []OpenHasTimer
<1>1. IInv => OpenHasTimer
  BY DEF IInv, TimerIsHonest, OpenHasTimer
<1>2. QED BY <1>1, Invariance, PTL

\* Recording an outcome or looking at the state opens the way out of OPEN only
\* when the wait is over.
LEMMA OrdinaryStep ==
  ASSUME IInv, NEW c \in Calls,
         Admit(c) \/ Reject(c) \/ Report(c) \/ ReadState \/ Tick,
         breaker.state = "OPEN", breaker'.state # "OPEN"
  PROVE  breaker.sinceFailure = RecoveryTimeout
<1>1. breaker \in WellFormed /\ Healthy(breaker)
  BY BreakerGiven
<1>2. CASE breaker' = CheckRecovery(breaker)
  BY <1>1, <1>2, CheckRecoveryFacts
<1>3. ASSUME NEW slow \in Speeds, breaker' = RecordSuccessAtomic(breaker, slow)
      PROVE  breaker.sinceFailure = RecoveryTimeout
  BY <1>1, <1>3, SpeedsAreBoolean, RecordSuccessAtomicFacts DEF Follows
<1>4. ASSUME NEW slow \in Speeds, breaker' = RecordSuccess(breaker, slow)
      PROVE  breaker.sinceFailure = RecoveryTimeout
  BY <1>1, <1>4, SpeedsAreBoolean, RecordSuccessFacts DEF Follows
<1>5. ASSUME NEW slow \in Speeds, breaker' = RecordFailure(breaker, slow)
      PROVE  breaker.sinceFailure = RecoveryTimeout
  BY <1>1, <1>5, SpeedsAreBoolean, RecordFailureFacts DEF Follows
<1>6. CASE Tick
  <2>1. breaker'.state = breaker.state
    BY <1>1, <1>6 DEF Tick, Elapse, WellFormed, Breakers
  <2>2. QED BY <2>1
<1>7. QED
  BY <1>2, <1>3, <1>4, <1>5, <1>6
  DEF Admit, Reject, Report, ReadState, Become, Recorded,
      EndSuccessAtomic, EndSuccess, EndFailure, EndUnrecorded

\* Left to itself an OPEN circuit stays OPEN for the whole recovery_timeout.
THEOREM OpenAlwaysOutlastsRecovery == Spec => OpenOutlastsRecovery
<1>1. IInv /\ [Next]_vars =>
        [ breaker.state = "OPEN" /\ breaker'.state # "OPEN" =>
            openAge >= RecoveryTimeout \/ ForceClosed \/ WasReset ]_vars
  <2>1. SUFFICES ASSUME IInv, Next, breaker.state = "OPEN", breaker'.state # "OPEN"
                 PROVE  openAge >= RecoveryTimeout \/ ForceClosed \/ WasReset
    BY DEF vars
  <2>2. breaker.sinceFailure = RecoveryTimeout => openAge >= RecoveryTimeout
    BY <2>1, BreakerAssumption DEF IInv, TimerIsHonest, TypeOK
  <2>3. CASE \E c \in Calls : Admit(c) \/ Reject(c) \/ Report(c)
    BY <2>1, <2>2, <2>3, OrdinaryStep
  <2>4. CASE ReadState
    BY <2>1, <2>2, <2>4, BreakerGiven, CheckRecoveryFacts DEF ReadState, Become
  <2>5. CASE Tick
    BY <2>1, <2>5, BreakerGiven DEF Tick, Elapse, WellFormed, Breakers
  <2>6. CASE ForceOpened
    BY <2>1, <2>6, BreakerGiven, OpenedFacts DEF ForceOpened
  <2>7. QED BY <2>1, <2>3, <2>4, <2>5, <2>6 DEF Next
<1>2. QED BY <1>1, Invariance, PTL DEF Spec, OpenOutlastsRecovery

\* In consecutive mode a CLOSED circuit opens by itself only when the last
\* failure_threshold outcomes recorded were failures.
THEOREM AlwaysTripsOnConsecutiveFailures == Spec => TripsOnConsecutiveFailures
<1>1. IInv /\ [Next]_vars =>
        [ WindowSize = 0 /\ breaker.state = "CLOSED" /\ breaker'.state = "OPEN" =>
            failRun' = FailureThreshold \/ ForceOpened ]_vars
  <2>1. SUFFICES ASSUME IInv, Next, WindowSize = 0,
                        breaker.state = "CLOSED", breaker'.state = "OPEN"
                 PROVE  failRun' = FailureThreshold \/ ForceOpened
    BY DEF vars
  <2>2. breaker \in WellFormed /\ Healthy(breaker)
    BY <2>1, BreakerGiven
  <2>3. CheckRecovery(breaker) = breaker
    BY <2>1, <2>2, CheckRecoveryFacts
  <2>4. ASSUME NEW c \in Calls, Report(c) PROVE failRun' = FailureThreshold
    <3>1. ASSUME NEW slow \in Speeds, Recorded(c, RecordFailure(breaker, slow), TRUE)
          PROVE  failRun' = FailureThreshold
      <4>1. breaker.failureCount + 1 >= FailureThreshold
        BY <2>1, <2>2, <3>1, SpeedsAreBoolean, RecordFailureFacts DEF Recorded
      <4>2. breaker.failureCount <= failRun /\ failRun \in 0..FailureThreshold
        BY <2>1 DEF IInv, CountsConsecutive, TypeOK
      <4>3. failRun' = IF failRun < FailureThreshold THEN failRun + 1 ELSE failRun
        BY <3>1 DEF Recorded, RunAfter
      <4>4. breaker.failureCount \in Nat
        BY <2>2 DEF WellFormed, Breakers
      <4>5. QED BY <4>1, <4>2, <4>3, <4>4, BreakerAssumption
    <3>2. ASSUME NEW slow \in Speeds,
                 breaker' = RecordSuccess(breaker, slow)
                   \/ breaker' = RecordSuccessAtomic(breaker, slow)
          PROVE  FALSE
      BY <2>1, <2>2, <3>2, SpeedsAreBoolean, RecordSuccessFacts, RecordSuccessAtomicFacts
    <3>3. QED
      BY <2>1, <2>4, <3>1, <3>2
      DEF Report, EndSuccessAtomic, EndSuccess, EndFailure, EndUnrecorded, Recorded
  <2>5. ASSUME NEW c \in Calls, Admit(c) \/ Reject(c) PROVE FALSE
    BY <2>1, <2>3, <2>5 DEF Admit, Reject, Become
  <2>6. CASE ReadState
    BY <2>1, <2>3, <2>6 DEF ReadState, Become
  <2>7. CASE ForceClosed
    BY <2>1, <2>2, <2>7, ClosedFacts DEF ForceClosed, ForceClose, ForgetAll
  <2>8. CASE WasReset
    BY <2>1, <2>2, <2>8, ClosedFacts DEF WasReset, ForgetAll
  <2>9. CASE Tick
    BY <2>1, <2>2, <2>9 DEF Tick, Elapse, WellFormed, Breakers
  <2>10. QED BY <2>1, <2>4, <2>5, <2>6, <2>7, <2>8, <2>9 DEF Next
<1>2. QED BY <1>1, Invariance, PTL DEF Spec, TripsOnConsecutiveFailures

-----------------------------------------------------------------------------
(* CircuitBreaker implements AbstractBreaker. *)

\* What the abstract breaker sees of a record is unchanged, or is that of a trip.
Same(b, d) ==
  d.state = b.state /\ d.sinceFailure = b.sinceFailure /\ d.successCount = b.successCount

Tripped(d) == d.state = "OPEN" /\ d.sinceFailure = 0

LEMMA TripsOrStays ==
  ASSUME NEW b \in WellFormed, NEW c \in Breakers, Same(b, c)
  PROVE  Tripped(Opened(c))
BY DEF Tripped, Opened, Breakers

LEMMA ObserveSeen ==
  ASSUME NEW b \in WellFormed, NEW failed \in BOOLEAN, NEW slow \in BOOLEAN
  PROVE  Tripped(Observe(b, failed, slow)) \/ Same(b, Observe(b, failed, slow))
<1> DEFINE w == Remember(b.window, [failed |-> failed, slow |-> slow])
           c == [b EXCEPT !.window = w]
<1>1. w \in Seq(Outcome)
  BY RememberType DEF WellFormed, Breakers, Outcome
<1> HIDE DEF w
<1>2. c \in Breakers /\ Same(b, c)
  BY <1>1 DEF WellFormed, Breakers, Same
<1>3. Observe(b, failed, slow) = IF Unhealthy(w) THEN Opened(c) ELSE c
  BY DEF Observe, w
<1> HIDE DEF c
<1>4. QED BY <1>2, <1>3, TripsOrStays

LEMMA CountFailureSeen ==
  ASSUME NEW b \in WellFormed
  PROVE  Tripped(CountFailure(b)) \/ Same(b, CountFailure(b))
<1> DEFINE n == IF b.failureCount < FailureThreshold
                THEN b.failureCount + 1 ELSE b.failureCount
           c == [b EXCEPT !.failureCount = n]
<1>1. n \in 0..FailureThreshold
  BY BreakerAssumption DEF WellFormed, Breakers
<1> HIDE DEF n
<1>2. c \in Breakers /\ Same(b, c)
  BY <1>1 DEF WellFormed, Breakers, Same
<1>3. CountFailure(b) = IF c.failureCount >= FailureThreshold THEN Opened(c) ELSE c
  BY DEF CountFailure, n
<1> HIDE DEF c
<1>4. QED BY <1>2, <1>3, TripsOrStays

\* A failure trips the breaker or leaves it as it looked.
LEMMA FailureSeen ==
  ASSUME NEW b \in WellFormed, NEW slow \in BOOLEAN
  PROVE  Tripped(RecordFailure(b, slow)) \/ Same(b, RecordFailure(b, slow))
<1>1. TRUE \in BOOLEAN
  OBVIOUS
<1>2. CASE b.state = "HALF_OPEN"
  BY <1>2, OpenedFacts DEF RecordFailure, Tripped
<1>3. CASE b.state # "HALF_OPEN"
  BY <1>1, <1>3, ObserveSeen, CountFailureSeen DEF RecordFailure
<1>4. QED BY <1>2, <1>3

\* So does a success, except that it counts in a half-open circuit.
LEMMA SuccessSeen ==
  ASSUME NEW b \in WellFormed, NEW slow \in BOOLEAN, NEW d, d = RecordSuccess(b, slow)
  PROVE  IF b.state = "HALF_OPEN"
         THEN IF b.successCount + 1 >= SuccessThreshold
              THEN d.state = "CLOSED"
              ELSE d.state = "HALF_OPEN" /\ d.successCount = b.successCount + 1
         ELSE Tripped(d) \/ Same(b, d)
<1>1. CASE b.state = "HALF_OPEN"
  <2>1. d = ProbeSucceeded(b)
    BY <1>1 DEF RecordSuccess
  <2>2. QED BY <1>1, <2>1, ClosedFacts DEF ProbeSucceeded, WellFormed, Breakers
<1>2. CASE b.state # "HALF_OPEN"
  <2>1. FALSE \in BOOLEAN
    OBVIOUS
  <2>2. Same(b, Forgive(b))
    BY DEF Same, Forgive, WellFormed, Breakers
  <2>3. QED BY <1>2, <2>1, <2>2, ObserveSeen DEF RecordSuccess
<1>3. QED BY <1>1, <1>2

LEMMA InitAbove == Init => Abstract!AInit
BY DEF Init, InitBreaker, InFlight, Abstract!AInit

\* The end of a call, for the abstract breaker.
LEMMA FinishAbove ==
  ASSUME IInv, NEW c \in Calls, admitted[c] # "none",
         admitted' = [admitted EXCEPT ![c] = "none"]
  PROVE  Abstract!Finish(c)
BY DEF IInv, TypeOK, InFlight, Abstract!Finish

\* Looking at the circuit starts a half-open period at most.
LEMMA LookAbove ==
  ASSUME IInv, breaker' = CheckRecovery(breaker), UNCHANGED admitted
  PROVE  [Abstract!ANext]_(Abstract!avars)
<1>1. InFlight' = InFlight
  BY DEF InFlight
<1>2. CASE breaker' = breaker
  BY <1>1, <1>2 DEF Abstract!avars
<1>3. CASE breaker' # breaker
  <2>1. /\ breaker.state = "OPEN" /\ breaker.sinceFailure = RecoveryTimeout
        /\ breaker'.state = "HALF_OPEN" /\ breaker'.successCount = 0
    BY <1>3, BreakerGiven, CheckRecoveryFacts
  <2>2. Abstract!StartProbing
    BY <1>1, <2>1 DEF Abstract!StartProbing, Abstract!Goto
  <2>3. QED BY <2>2 DEF Abstract!ANext
<1>4. QED BY <1>2, <1>3

LEMMA AdmitAbove ==
  ASSUME IInv, NEW c \in Calls, Admit(c) PROVE [Abstract!ANext]_(Abstract!avars)
<1> DEFINE b == CheckRecovery(breaker)
<1>1. b \in WellFormed /\ b.state # "OPEN" /\ breaker' = b
  BY BreakerGiven, CheckRecoveryFacts DEF Admit, Become
<1>2. \/ b = breaker
      \/ /\ breaker.state = "OPEN" /\ breaker.sinceFailure = RecoveryTimeout
         /\ b.state = "HALF_OPEN" /\ b.successCount = 0
  BY BreakerGiven, CheckRecoveryFacts
<1>3. admitted[c] = "none" /\ admitted' = [admitted EXCEPT ![c] = b.state] /\ b.state # "none"
  BY <1>1 DEF Admit, WellFormed, Breakers, CircuitState
<1> HIDE DEF b
<1>4. c \notin InFlight /\ InFlight' = InFlight \cup {c}
  BY <1>3 DEF IInv, TypeOK, InFlight
<1>5. Abstract!Start(c)
  BY <1>1, <1>2, <1>4 DEF Abstract!Start, Abstract!Goto
<1>6. QED BY <1>5 DEF Abstract!ANext

LEMMA ReportAbove ==
  ASSUME IInv, NEW c \in Calls, Report(c) PROVE [Abstract!ANext]_(Abstract!avars)
<1>1. breaker \in WellFormed
  BY BreakerGiven
<1>2. Abstract!Finish(c)
  BY FinishAbove
  DEF Report, EndSuccessAtomic, EndSuccess, EndFailure, EndUnrecorded, Recorded
<1>3. ASSUME Tripped(breaker') \/ Same(breaker, breaker')
      PROVE  [Abstract!ANext]_(Abstract!avars)
  <2>1. CASE Tripped(breaker')
    <3>1. Abstract!Trip(c)
      BY <1>2, <2>1 DEF Tripped, Abstract!Trip, Abstract!Goto
    <3>2. QED BY <3>1 DEF Abstract!ANext
  <2>2. CASE Same(breaker, breaker')
    <3>1. Abstract!Unnoticed(c)
      BY <1>2, <2>2 DEF Same, Abstract!Unnoticed
    <3>2. QED BY <3>1 DEF Abstract!ANext
  <2>3. QED BY <1>3, <2>1, <2>2
<1>4. ASSUME NEW b \in WellFormed, NEW slow \in BOOLEAN, breaker' = RecordSuccess(b, slow),
             b = breaker \/ (/\ breaker.state = "OPEN"
                             /\ breaker.sinceFailure = RecoveryTimeout
                             /\ b.state = "HALF_OPEN" /\ b.successCount = 0)
      PROVE  [Abstract!ANext]_(Abstract!avars)
  <2>1. CASE b.state # "HALF_OPEN"
    BY <1>3, <1>4, <2>1, SuccessSeen
  <2>2. CASE b.state = "HALF_OPEN"
    <3>1. IF b.successCount + 1 >= SuccessThreshold
          THEN breaker'.state = "CLOSED"
          ELSE breaker'.state = "HALF_OPEN" /\ breaker'.successCount = b.successCount + 1
      BY <1>4, <2>2, SuccessSeen
    <3>2. Abstract!Probing /\ Abstract!WinsSoFar = b.successCount
      BY <1>4, <2>2 DEF Abstract!Probing, Abstract!WinsSoFar
    <3>3. Abstract!Win(c)
      BY <1>2, <3>1, <3>2 DEF Abstract!Win, Abstract!Goto
    <3>4. QED BY <3>3 DEF Abstract!ANext
  <2>3. QED BY <2>1, <2>2
<1>5. CASE EndSuccessAtomic(c)
  <2>1. PICK slow \in Speeds : breaker' = RecordSuccess(CheckRecovery(breaker), slow)
    BY <1>5 DEF EndSuccessAtomic, Recorded, RecordSuccessAtomic
  <2>2. slow \in BOOLEAN
    BY SpeedsAreBoolean
  <2>3. QED BY <1>1, <1>4, <2>1, <2>2, CheckRecoveryFacts
<1>6. CASE EndSuccess(c)
  <2>1. PICK slow \in Speeds : breaker' = RecordSuccess(breaker, slow)
    BY <1>6 DEF EndSuccess, Recorded
  <2>2. slow \in BOOLEAN
    BY SpeedsAreBoolean
  <2>3. QED BY <1>1, <1>4, <2>1, <2>2
<1>7. CASE EndFailure(c)
  <2>1. PICK slow \in Speeds : breaker' = RecordFailure(breaker, slow)
    BY <1>7 DEF EndFailure, Recorded
  <2>2. slow \in BOOLEAN
    BY SpeedsAreBoolean
  <2>3. QED BY <1>1, <1>3, <2>1, <2>2, FailureSeen
<1>8. CASE EndUnrecorded(c)
  BY <1>3, <1>8 DEF EndUnrecorded, Same
<1>9. QED BY <1>5, <1>6, <1>7, <1>8 DEF Report

LEMMA OverrideAbove ==
  ASSUME IInv, ForceOpened \/ ForceClosed \/ WasReset PROVE [Abstract!ANext]_(Abstract!avars)
<1>1. \/ breaker'.state = "OPEN" /\ breaker'.sinceFailure = 0
      \/ breaker'.state = "CLOSED"
  BY BreakerGiven, OpenedFacts, ClosedFacts
  DEF ForceOpened, ForceClosed, ForceClose, WasReset, ForgetAll
<1>2. InFlight' = InFlight
  BY DEF ForceOpened, ForceClosed, WasReset, InFlight
<1>3. Abstract!Override
  BY <1>1, <1>2 DEF Abstract!Override, Abstract!Goto
<1>4. QED BY <1>3 DEF Abstract!ANext

LEMMA TickAbove == ASSUME IInv, Tick PROVE [Abstract!ANext]_(Abstract!avars)
<1>1. InFlight' = InFlight
  BY DEF Tick, InFlight
<1>2. /\ breaker'.state = breaker.state
      /\ breaker'.sinceFailure = IF breaker.sinceFailure \in 0..(RecoveryTimeout - 1)
                                 THEN breaker.sinceFailure + 1 ELSE breaker.sinceFailure
      /\ breaker'.successCount = breaker.successCount
  BY BreakerGiven, ElapseFacts DEF Tick, Elapse, WellFormed, Breakers
<1>3. CASE breaker.state = "OPEN" /\ breaker.sinceFailure \in 0..(RecoveryTimeout - 1)
  <2>1. Abstract!Wait
    BY <1>1, <1>2, <1>3, BreakerAssumption DEF Abstract!Wait, Abstract!CoolingDown, Abstract!Goto
  <2>2. QED BY <2>1 DEF Abstract!ANext
<1>4. CASE ~(breaker.state = "OPEN" /\ breaker.sinceFailure \in 0..(RecoveryTimeout - 1))
  BY <1>1, <1>2, <1>4 DEF Abstract!avars
<1>5. QED BY <1>3, <1>4

LEMMA StepAbove == IInv /\ [Next]_vars => [Abstract!ANext]_(Abstract!avars)
<1> SUFFICES ASSUME IInv, [Next]_vars PROVE [Abstract!ANext]_(Abstract!avars)
  OBVIOUS
<1>1. ASSUME NEW c \in Calls, Admit(c) \/ Report(c) PROVE [Abstract!ANext]_(Abstract!avars)
  BY <1>1, AdmitAbove, ReportAbove
<1>2. ASSUME (\E c \in Calls : Reject(c)) \/ ReadState PROVE [Abstract!ANext]_(Abstract!avars)
  BY <1>2, LookAbove DEF Reject, ReadState, Become
<1>3. CASE ForceOpened \/ ForceClosed \/ WasReset
  BY <1>3, OverrideAbove
<1>4. CASE Tick
  BY <1>4, TickAbove
<1>5. CASE UNCHANGED vars
  BY <1>5 DEF vars, InFlight, Abstract!avars
<1>6. QED BY <1>1, <1>2, <1>3, <1>4, <1>5 DEF Next

\* The breaker keeps the promise of AbstractBreaker to its callers, for any evidence
\* it goes by: it stays open for the whole recovery_timeout and closes by itself only
\* after success_threshold successes in one half-open period.
THEOREM KeepsItsPromise == Spec => ImplementsAbstract
BY InitAbove, StepAbove, Invariance, PTL DEF Spec, ImplementsAbstract, Abstract!ASpec

-----------------------------------------------------------------------------
(* The sliding window notices every outage: whatever outcomes it held before, and  *)
(* however those of overlapping calls arrive, a window of failures opens the       *)
(* circuit.  The invariant relates the window to the history: its last entries are *)
(* the failures recorded last.                                                     *)

\* The last n outcomes recorded were failures, and w ends with those of them that
\* fit in it.
EndsInFailures(w, n) ==
  /\ \A i \in DOMAIN w : i > Len(w) - n => w[i].failed
  /\ n <= Len(w) \/ Len(w) = WindowSize

WindowKeepsRun ==
  WindowSize > 0 /\ breaker.state = "CLOSED" => EndsInFailures(breaker.window, failRun)

-----------------------------------------------------------------------------
(* What the window remembers. *)

\* No failure since the last success: nothing to remember.
LEMMA NoRun == ASSUME NEW w \in Seq(Outcome) PROVE EndsInFailures(w, 0)
<1>1. Len(w) \in Nat /\ DOMAIN w = 1..Len(w)
  OBVIOUS
<1>2. QED BY <1>1 DEF EndsInFailures

\* A failure joins those at the end of the window, whether or not the window is
\* full and the counter of the history saturated.
LEMMA FailureJoinsRun ==
  ASSUME NEW w \in Seq(Outcome), Len(w) <= WindowSize, WindowSize > 0,
         NEW o \in Outcome, o.failed, NEW n \in Nat, EndsInFailures(w, n),
         NEW m \in {n, n + 1}
  PROVE  EndsInFailures(Remember(w, o), m)
<1> DEFINE all == Append(w, o)
<1>1. /\ all \in Seq(Outcome) /\ Len(all) = Len(w) + 1 /\ Len(w) \in Nat
      /\ DOMAIN all = 1..(Len(w) + 1)
      /\ \A i \in 1..Len(w) : all[i] = w[i]
      /\ all[Len(w) + 1] = o
  OBVIOUS
<1>2. ASSUME NEW i \in 1..(Len(w) + 1), i > Len(w) + 1 - m PROVE all[i].failed
  <2>1. CASE i = Len(w) + 1
    BY <1>1, <2>1
  <2>2. CASE i # Len(w) + 1
    <3>1. i \in DOMAIN w /\ i > Len(w) - n
      BY <1>1, <1>2, <2>2
    <3>2. QED BY <1>1, <3>1 DEF EndsInFailures
  <2>3. QED BY <2>1, <2>2
<1>3. CASE Len(all) > WindowSize
  <2>1. Remember(w, o) = Tail(all)
    BY <1>3 DEF Remember
  <2>2. /\ Len(Tail(all)) = Len(w) /\ DOMAIN Tail(all) = 1..Len(w)
        /\ \A i \in 1..Len(w) : Tail(all)[i] = all[i + 1]
    <3>1. all # <<>>
      BY <1>1
    <3> HIDE DEF all
    <3>2. QED BY <1>1, <3>1
  <2>3. Len(w) = WindowSize
    BY <1>1, <1>3, BreakerAssumption
  <2>4. ASSUME NEW i \in 1..Len(w), i > Len(w) - m PROVE Tail(all)[i].failed
    <3>1. i + 1 \in 1..(Len(w) + 1) /\ i + 1 > Len(w) + 1 - m
      BY <1>1, <2>4
    <3>2. all[i + 1].failed
      BY <1>2, <3>1
    <3>3. QED BY <2>2, <3>2
  <2>5. QED BY <2>1, <2>2, <2>3, <2>4 DEF EndsInFailures
<1>4. CASE ~(Len(all) > WindowSize)
  <2>1. Remember(w, o) = all
    BY <1>4 DEF Remember
  <2>2. m <= Len(all)
    BY <1>1, <1>4, BreakerAssumption DEF EndsInFailures
  <2>3. QED BY <1>1, <1>2, <2>1, <2>2 DEF EndsInFailures
<1>5. QED BY <1>3, <1>4

\* A percentage of a number is at most the number.
LEMMA Percentage == ASSUME NEW r \in 0..100, NEW k \in Nat PROVE k * 100 >= r * k
<1>1. 100 - r \in Nat /\ 100 - r >= 0
  OBVIOUS
<1>2. (100 - r) * k >= 0
  BY <1>1
<1>3. (100 - r) * k = k * 100 - r * k
  OBVIOUS
<1>4. QED BY <1>2, <1>3

\* A full window of failures is unhealthy at any failure rate, if it may be judged.
LEMMA FailuresAreUnhealthy ==
  ASSUME NEW w \in Seq(Outcome), Len(w) >= CallsNeeded, \A i \in DOMAIN w : w[i].failed
  PROVE  Unhealthy(w)
<1>1. Len(w) \in Nat /\ DOMAIN w = 1..Len(w)
  OBVIOUS
<1>2. {i \in DOMAIN w : w[i].failed} = 1..Len(w)
  BY <1>1
<1>3. Cardinality(1..Len(w)) = Len(w)
  <2>1. 0 + 1 = 1 /\ 1 \in Int /\ Len(w) \in Int
    BY <1>1
  <2>2. Cardinality(1..Len(w)) = IF 1 > Len(w) THEN 0 ELSE Len(w) - 1 + 1
    BY <2>1, FS_Interval
  <2>3. QED BY <1>1, <2>2
<1>4. Failures(w) = Len(w)
  BY <1>2, <1>3 DEF Failures
<1>5. Len(w) * 100 >= FailureRate * Len(w)
  BY <1>1, Percentage, BreakerAssumption
<1>6. QED BY <1>4, <1>5 DEF Unhealthy

-----------------------------------------------------------------------------
(* The invariant is kept. *)

\* record_failure in window mode leaves the circuit CLOSED only if it was, with one
\* failure more in its window.
LEMMA ObservedFailure ==
  ASSUME NEW b \in WellFormed, NEW slow \in BOOLEAN, WindowSize > 0,
         RecordFailure(b, slow).state = "CLOSED"
  PROVE  /\ b.state = "CLOSED"
         /\ RecordFailure(b, slow).window =
              Remember(b.window, [failed |-> TRUE, slow |-> slow])
<1> DEFINE w == Remember(b.window, [failed |-> TRUE, slow |-> slow])
           c == [b EXCEPT !.window = w]
<1>1. b.state # "HALF_OPEN"
  BY OpenedFacts DEF RecordFailure
<1>2. RecordFailure(b, slow) = IF Unhealthy(w) THEN Opened(c) ELSE c
  BY <1>1 DEF RecordFailure, Observe
<1>3. c \in WellFormed /\ c.window = w /\ c.state = b.state
  <2>1. [failed |-> TRUE, slow |-> slow] \in Outcome
    BY DEF Outcome
  <2>2. w \in Seq(Outcome) /\ Len(w) <= WindowSize
    BY <2>1, RememberType DEF WellFormed, Breakers
  <2> HIDE DEF w
  <2>3. QED BY <2>2 DEF WellFormed, Breakers
<1> HIDE DEF w, c
<1>4. ~Unhealthy(w)
  BY <1>2, <1>3, OpenedFacts
<1>5. QED BY <1>2, <1>3, <1>4 DEF w

LEMMA RunKept == IInv /\ IInv' /\ WindowKeepsRun /\ [Next]_vars => WindowKeepsRun'
<1> SUFFICES ASSUME IInv, IInv', WindowKeepsRun, [Next]_vars,
                    WindowSize > 0, breaker'.state = "CLOSED"
             PROVE  EndsInFailures(breaker'.window, failRun')
  BY DEF WindowKeepsRun
<1>1. /\ breaker \in WellFormed /\ breaker.window \in Seq(Outcome)
      /\ breaker'.window \in Seq(Outcome)
      /\ failRun \in Nat
  BY BreakerGiven, BreakerAssumption DEF IInv, TypeOK, WellFormed, Breakers
<1>2. ASSUME failRun' = 0 PROVE EndsInFailures(breaker'.window, failRun')
  BY <1>1, <1>2, NoRun
<1>3. ASSUME breaker' = CheckRecovery(breaker), UNCHANGED failRun
      PROVE  EndsInFailures(breaker'.window, failRun')
  BY <1>1, <1>3, CheckRecoveryFacts DEF WindowKeepsRun
<1>4. ASSUME NEW c \in Calls, EndFailure(c)
      PROVE  EndsInFailures(breaker'.window, failRun')
  <2>1. PICK slow \in Speeds : Recorded(c, RecordFailure(breaker, slow), TRUE)
    BY <1>4 DEF EndFailure
  <2> DEFINE o == [failed |-> TRUE, slow |-> slow]
  <2>2. slow \in BOOLEAN /\ o \in Outcome /\ o.failed
    BY SpeedsAreBoolean DEF Outcome
  <2>3. breaker' = RecordFailure(breaker, slow) /\ failRun' \in {failRun, failRun + 1}
    BY <2>1, <1>1 DEF Recorded, RunAfter
  <2>4. breaker.state = "CLOSED" /\ breaker'.window = Remember(breaker.window, o)
    BY <1>1, <2>2, <2>3, ObservedFailure
  <2>5. EndsInFailures(breaker.window, failRun) /\ Len(breaker.window) <= WindowSize
    BY <1>1, <2>4 DEF WindowKeepsRun, WellFormed
  <2> HIDE DEF o
  <2>6. QED BY <1>1, <2>2, <2>3, <2>4, <2>5, FailureJoinsRun
<1>5. ASSUME NEW c \in Calls, Admit(c) \/ Reject(c) \/ Report(c)
      PROVE  EndsInFailures(breaker'.window, failRun')
  <2>1. CASE Admit(c) \/ Reject(c)
    BY <1>3, <2>1 DEF Admit, Reject, Become
  <2>2. CASE EndSuccessAtomic(c) \/ EndSuccess(c)
    BY <1>2, <2>2 DEF EndSuccessAtomic, EndSuccess, Recorded, RunAfter
  <2>3. CASE EndUnrecorded(c)
    BY <2>3 DEF EndUnrecorded, WindowKeepsRun
  <2>4. QED BY <1>4, <1>5, <2>1, <2>2, <2>3 DEF Report
<1>6. CASE ReadState
  BY <1>3, <1>6 DEF ReadState, Become
<1>7. CASE ForceOpened
  BY <1>1, <1>7, OpenedFacts DEF ForceOpened
<1>8. CASE ForceClosed \/ WasReset
  BY <1>2, <1>8 DEF ForceClosed, WasReset, ForgetAll
<1>9. CASE Tick
  <2>1. breaker'.state = breaker.state /\ breaker'.window = breaker.window
    BY <1>1, <1>9 DEF Tick, Elapse, WellFormed, Breakers
  <2>2. QED BY <1>9, <2>1 DEF Tick, WindowKeepsRun
<1>10. CASE UNCHANGED vars
  BY <1>10 DEF vars, WindowKeepsRun
<1>11. QED BY <1>5, <1>6, <1>7, <1>8, <1>9, <1>10 DEF Next

\* A closed circuit that remembers a window of failures would be unhealthy.
LEMMA RunTrips == IInv /\ WindowKeepsRun => WindowTripsOnOutage
<1> SUFFICES ASSUME IInv, WindowKeepsRun, 0 < WindowSize, CallsNeeded <= WindowSize,
                    failRun >= WindowSize, breaker.state = "CLOSED"
             PROVE  FALSE
  BY DEF WindowTripsOnOutage
<1> DEFINE w == breaker.window
<1>1. /\ w \in Seq(Outcome) /\ Len(w) \in Nat /\ Len(w) <= WindowSize
      /\ DOMAIN w = 1..Len(w) /\ failRun \in Nat /\ CallsNeeded \in Nat
  BY BreakerAssumption DEF IInv, TypeOK, Breakers, CallsNeeded
<1>2. EndsInFailures(w, failRun)
  BY BreakerAssumption DEF WindowKeepsRun
<1>3. ~Unhealthy(w)
  BY BreakerAssumption DEF IInv, ClosedIsHealthy
<1> HIDE DEF w
<1>4. Len(w) = WindowSize
  <2>1. failRun <= Len(w) \/ Len(w) = WindowSize
    BY <1>2 DEF EndsInFailures
  <2>2. /\ Len(w) \in Nat /\ failRun \in Nat /\ WindowSize \in Nat
        /\ Len(w) <= WindowSize /\ failRun >= WindowSize
    BY <1>1, BreakerAssumption
  <2>3. QED BY <2>1, <2>2
<1>5. \A i \in DOMAIN w : w[i].failed
  BY <1>1, <1>2, <1>4 DEF EndsInFailures
<1>6. Unhealthy(w)
  BY <1>1, <1>4, <1>5, FailuresAreUnhealthy
<1>7. QED BY <1>3, <1>6

-----------------------------------------------------------------------------
\* As many failures in a row as the window holds open the circuit, for every window,
\* rate and number of overlapping calls, if minimum_calls fits the window
\* (record_failure, _maybe_open_from_window).
THEOREM WindowAlwaysTripsOnOutage == Spec => []WindowTripsOnOutage
<1>1. Init => WindowKeepsRun
  <2>1. EndsInFailures(<<>>, 0)
    <3>1. <<>> \in Seq(Outcome)
      OBVIOUS
    <3>2. QED BY <3>1, NoRun
  <2>2. Init => breaker.window = <<>> /\ failRun = 0
    BY DEF Init, InitBreaker
  <2>3. QED BY <2>1, <2>2 DEF WindowKeepsRun
<1>2. QED BY <1>1, Invariance, RunKept, RunTrips, PTL DEF Spec

=============================================================================
