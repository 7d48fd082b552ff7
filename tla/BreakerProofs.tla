---------------------------- MODULE BreakerProofs ----------------------------
(***************************************************************************)
(* What the operators of Breaker do to a well formed, healthy record, for  *)
(* every legal configuration in either counting mode.  The proofs about    *)
(* CircuitBreaker and about Executor rest on these lemmas.                 *)
(***************************************************************************)
EXTENDS Breaker, TLAPS

WellFormed == {b \in Breakers : Len(b.window) <= WindowSize}

Healthy(b) ==
  b.state = "CLOSED" =>
    IF WindowSize > 0 THEN ~Unhealthy(b.window) ELSE b.failureCount < FailureThreshold

-----------------------------------------------------------------------------
(* The operators of Breaker. *)

\* The window stays a window of outcomes no longer than window_size.
LEMMA RememberType ==
  ASSUME NEW w \in Seq(Outcome), Len(w) <= WindowSize, NEW o \in Outcome
  PROVE  /\ Remember(w, o) \in Seq(Outcome)
         /\ Len(Remember(w, o)) <= WindowSize
<1>1. Append(w, o) \in Seq(Outcome) /\ Len(Append(w, o)) = Len(w) + 1
  OBVIOUS
<1>2. CASE Len(Append(w, o)) > WindowSize
  <2>1. Append(w, o) # <<>>
    BY <1>1
  <2>2. Tail(Append(w, o)) \in Seq(Outcome) /\ Len(Tail(Append(w, o))) = Len(w)
    BY <1>1, <2>1
  <2>3. QED BY <1>2, <2>2 DEF Remember
<1>3. CASE ~(Len(Append(w, o)) > WindowSize)
  BY <1>1, <1>3, BreakerAssumption DEF Remember
<1>4. QED BY <1>2, <1>3

\* An empty window is too short for either rate to be evaluated.
LEMMA EmptyWindow == WindowSize > 0 => ~Unhealthy(<<>>)
<1>1. Len(<<>>) = 0
  OBVIOUS
<1>2. WindowSize > 0 => CallsNeeded > 0
  BY BreakerAssumption DEF CallsNeeded
<1>3. CallsNeeded \in Nat
  BY BreakerAssumption DEF CallsNeeded
<1>4. QED BY <1>1, <1>2, <1>3 DEF Unhealthy

\* Opening, by whatever path, keeps the record well formed.
LEMMA OpenedFacts ==
  ASSUME NEW b \in WellFormed
  PROVE  /\ Opened(b) \in WellFormed /\ Opened(b).state = "OPEN"
         /\ Opened(b).sinceFailure = 0
         /\ Reopened(b) \in WellFormed /\ Reopened(b).state = "OPEN"
         /\ Reopened(b).sinceFailure = 0
<1>1. 0 \in 0..RecoveryTimeout
  BY BreakerAssumption
<1>2. Opened(b) \in Breakers
  BY <1>1 DEF Opened, WellFormed, Breakers, CircuitState
<1>3. /\ Opened(b).state = "OPEN" /\ Opened(b).sinceFailure = 0
      /\ Opened(b).window = b.window
  BY DEF Opened, WellFormed, Breakers
<1>4. Reopened(b) \in Breakers
  BY <1>2 DEF Reopened, Breakers
<1>5. /\ Reopened(b).state = "OPEN" /\ Reopened(b).sinceFailure = 0
      /\ Reopened(b).window = b.window
  BY <1>2, <1>3 DEF Reopened, Breakers
<1>6. QED BY <1>2, <1>3, <1>4, <1>5 DEF WellFormed

\* Closing leaves no evidence behind.
LEMMA ClosedFacts ==
  ASSUME NEW b \in WellFormed
  PROVE  /\ Closed(b) \in WellFormed /\ Healthy(Closed(b))
         /\ Closed(b).state = "CLOSED" /\ Closed(b).failureCount = 0
         /\ Reset(b) \in WellFormed /\ Healthy(Reset(b))
         /\ Reset(b).state = "CLOSED" /\ Reset(b).failureCount = 0
<1>1. /\ <<>> \in Seq(Outcome) /\ Len(<<>>) = 0
      /\ 0 \in 0..FailureThreshold
  BY BreakerAssumption
<1>2. Closed(b) \in Breakers /\ Reset(b) \in Breakers
  <2>1. Closed(b) \in Breakers
    BY <1>1 DEF Closed, WellFormed, Breakers, CircuitState
  <2>2. QED BY <2>1 DEF Reset, Breakers
<1>3. /\ Closed(b).window = <<>> /\ Reset(b).window = <<>>
      /\ Closed(b).failureCount = 0 /\ Reset(b).failureCount = 0
      /\ Closed(b).state = "CLOSED" /\ Reset(b).state = "CLOSED"
  <2>1. Closed(b).window = <<>> /\ Closed(b).failureCount = 0 /\ Closed(b).state = "CLOSED"
    BY DEF Closed, WellFormed, Breakers
  <2>2. /\ Reset(b).window = Closed(b).window
        /\ Reset(b).failureCount = Closed(b).failureCount
        /\ Reset(b).state = Closed(b).state
    BY <1>2 DEF Reset, Breakers
  <2>3. QED BY <2>1, <2>2
<1>4. Healthy(Closed(b)) /\ Healthy(Reset(b))
  BY <1>3, EmptyWindow, BreakerAssumption DEF Healthy
<1>5. Closed(b) \in WellFormed /\ Reset(b) \in WellFormed
  BY <1>1, <1>2, <1>3, BreakerAssumption DEF WellFormed
<1>6. QED BY <1>3, <1>4, <1>5

\* The check for recovery moves an OPEN circuit whose wait is over to HALF_OPEN
\* with no success counted, and leaves any other circuit alone.
LEMMA CheckRecoveryFacts ==
  ASSUME NEW b \in WellFormed
  PROVE  /\ CheckRecovery(b) \in WellFormed
         /\ \/ CheckRecovery(b) = b
            \/ /\ b.state = "OPEN" /\ b.sinceFailure = RecoveryTimeout
               /\ CheckRecovery(b).state = "HALF_OPEN"
               /\ CheckRecovery(b).successCount = 0
<1>1. CASE b.state = "OPEN" /\ b.sinceFailure # Never /\ b.sinceFailure >= RecoveryTimeout
  <2> DEFINE r == [b EXCEPT !.state = "HALF_OPEN", !.successCount = 0]
  <2>1. CheckRecovery(b) = r
    BY <1>1 DEF CheckRecovery
  <2>2. r \in Breakers
    BY DEF WellFormed, Breakers, CircuitState
  <2>3. r.state = "HALF_OPEN" /\ r.successCount = 0 /\ r.window = b.window
    BY DEF WellFormed, Breakers
  <2>4. b.sinceFailure = RecoveryTimeout
    <3>1. b.sinceFailure \in 0..RecoveryTimeout
      BY <1>1 DEF WellFormed, Breakers
    <3>2. QED BY <1>1, <3>1, BreakerAssumption
  <2>5. QED BY <1>1, <2>1, <2>2, <2>3, <2>4 DEF WellFormed
<1>2. CASE ~(b.state = "OPEN" /\ b.sinceFailure # Never /\ b.sinceFailure >= RecoveryTimeout)
  BY <1>2 DEF CheckRecovery
<1>3. QED BY <1>1, <1>2

\* What every method owes the record it leaves behind: it stays well formed and
\* healthy, and an OPEN circuit is either freshly tripped or as it was, unless
\* its wait was over.
Follows(b, d) ==
  /\ d \in WellFormed
  /\ Healthy(d)
  /\ d.state = "OPEN" =>
       d.sinceFailure = 0 \/ (b.state = "OPEN" /\ d.sinceFailure = b.sinceFailure)
  /\ b.state = "OPEN" => d.state = "OPEN" \/ b.sinceFailure = RecoveryTimeout

LEMMA CheckRecoveryFollows ==
  ASSUME NEW b \in WellFormed, Healthy(b)
  PROVE  Follows(b, CheckRecovery(b))
<1>1. CASE CheckRecovery(b) = b
  BY <1>1 DEF Follows
<1>2. CASE CheckRecovery(b) # b
  BY <1>2, CheckRecoveryFacts DEF Follows, Healthy
<1>3. QED BY <1>1, <1>2

\* One more outcome in the window: the circuit opens if the window is unhealthy
\* and keeps its state otherwise.
LEMMA ObserveFacts ==
  ASSUME NEW b \in WellFormed, NEW failed \in BOOLEAN, NEW slow \in BOOLEAN,
         WindowSize > 0, b.state # "HALF_OPEN"
  PROVE  Follows(b, Observe(b, failed, slow))
<1> DEFINE w == Remember(b.window, [failed |-> failed, slow |-> slow])
           c == [b EXCEPT !.window = w]
<1>1. w \in Seq(Outcome) /\ Len(w) <= WindowSize
  <2>1. b.window \in Seq(Outcome) /\ Len(b.window) <= WindowSize
    BY DEF WellFormed, Breakers
  <2>2. [failed |-> failed, slow |-> slow] \in Outcome
    BY DEF Outcome
  <2>3. QED BY <2>1, <2>2, RememberType
<1> HIDE DEF w
<1>2. c \in WellFormed /\ c.window = w /\ c.state = b.state /\ c.sinceFailure = b.sinceFailure
  <2>1. c \in Breakers
    BY <1>1 DEF WellFormed, Breakers
  <2>2. c.window = w /\ c.state = b.state /\ c.sinceFailure = b.sinceFailure
    BY DEF WellFormed, Breakers
  <2>3. QED BY <1>1, <2>1, <2>2 DEF WellFormed
<1>3. Observe(b, failed, slow) = IF Unhealthy(w) THEN Opened(c) ELSE c
  BY DEF Observe, w
<1> HIDE DEF c
<1>4. CASE Unhealthy(w)
  BY <1>2, <1>3, <1>4, OpenedFacts DEF Follows, Healthy
<1>5. CASE ~Unhealthy(w)
  BY <1>2, <1>3, <1>5 DEF Follows, Healthy
<1>6. QED BY <1>4, <1>5

\* One more failure in consecutive mode.
LEMMA CountFailureFacts ==
  ASSUME NEW b \in WellFormed, WindowSize = 0, b.state # "HALF_OPEN"
  PROVE  /\ Follows(b, CountFailure(b))
         /\ CountFailure(b).state = "CLOSED" =>
              /\ b.state = "CLOSED"
              /\ CountFailure(b).failureCount = b.failureCount + 1
         /\ b.state = "CLOSED" /\ CountFailure(b).state = "OPEN" =>
              b.failureCount + 1 >= FailureThreshold
<1> DEFINE n == IF b.failureCount < FailureThreshold
                THEN b.failureCount + 1 ELSE b.failureCount
           c == [b EXCEPT !.failureCount = n]
<1>1. b.failureCount \in 0..FailureThreshold
  BY DEF WellFormed, Breakers
<1>2. /\ n \in 0..FailureThreshold
      /\ n < FailureThreshold => n = b.failureCount + 1
      /\ n >= FailureThreshold => b.failureCount + 1 >= FailureThreshold
  BY <1>1, BreakerAssumption
<1> HIDE DEF n
<1>3. c \in WellFormed /\ c.failureCount = n /\ c.state = b.state /\ c.sinceFailure = b.sinceFailure
  <2>1. c \in Breakers
    BY <1>2 DEF WellFormed, Breakers
  <2>2. /\ c.failureCount = n /\ c.state = b.state
        /\ c.sinceFailure = b.sinceFailure /\ c.window = b.window
    BY DEF WellFormed, Breakers
  <2>3. QED BY <2>1, <2>2 DEF WellFormed
<1>4. CountFailure(b) = IF c.failureCount >= FailureThreshold THEN Opened(c) ELSE c
  BY DEF CountFailure, n
<1> HIDE DEF c
<1>5. CASE n >= FailureThreshold
  BY <1>2, <1>3, <1>4, <1>5, OpenedFacts DEF Follows, Healthy
<1>6. CASE ~(n >= FailureThreshold)
  <2>1. n < FailureThreshold
    BY <1>2, <1>6, BreakerAssumption
  <2>2. QED BY <1>2, <1>3, <1>4, <1>6, <2>1, BreakerAssumption DEF Follows, Healthy
<1>7. QED BY <1>5, <1>6

\* record_success: in consecutive mode a CLOSED circuit stays CLOSED, and
\* whenever the circuit is CLOSED afterwards no failure is counted.
LEMMA RecordSuccessFacts ==
  ASSUME NEW b \in WellFormed, Healthy(b), NEW slow \in BOOLEAN
  PROVE  /\ Follows(b, RecordSuccess(b, slow))
         /\ WindowSize = 0 =>
              /\ b.state = "CLOSED" => RecordSuccess(b, slow).state = "CLOSED"
              /\ RecordSuccess(b, slow).state = "CLOSED" =>
                   RecordSuccess(b, slow).failureCount = 0
<1>1. CASE b.state = "HALF_OPEN"
  <2>1. RecordSuccess(b, slow) = ProbeSucceeded(b)
    BY <1>1 DEF RecordSuccess
  <2>2. CASE b.successCount + 1 >= SuccessThreshold
    BY <1>1, <2>1, <2>2, ClosedFacts DEF ProbeSucceeded, Follows
  <2>3. CASE ~(b.successCount + 1 >= SuccessThreshold)
    <3> DEFINE d == [b EXCEPT !.successCount = @ + 1]
    <3>1. d \in Breakers /\ d.state = "HALF_OPEN" /\ d.window = b.window
      BY <1>1 DEF WellFormed, Breakers
    <3>2. RecordSuccess(b, slow) = d
      BY <2>1, <2>3 DEF ProbeSucceeded
    <3>3. QED BY <1>1, <3>1, <3>2 DEF Follows, Healthy, WellFormed
  <2>4. QED BY <2>2, <2>3
<1>2. CASE b.state # "HALF_OPEN" /\ WindowSize > 0
  <2>1. RecordSuccess(b, slow) = Observe(b, FALSE, slow)
    BY <1>2 DEF RecordSuccess
  <2>2. FALSE \in BOOLEAN /\ WindowSize # 0
    BY <1>2, BreakerAssumption
  <2>3. Follows(b, Observe(b, FALSE, slow))
    BY <1>2, <2>2, ObserveFacts
  <2>4. QED BY <2>1, <2>2, <2>3
<1>3. CASE b.state # "HALF_OPEN" /\ ~(WindowSize > 0)
  <2> DEFINE d == [b EXCEPT !.failureCount = 0]
  <2>1. 0 \in 0..FailureThreshold /\ 0 < FailureThreshold
    BY BreakerAssumption
  <2>2. d \in Breakers
    BY <2>1 DEF WellFormed, Breakers
  <2>3. /\ d.state = b.state /\ d.window = b.window
        /\ d.failureCount = 0 /\ d.sinceFailure = b.sinceFailure
    BY DEF WellFormed, Breakers
  <2>4. RecordSuccess(b, slow) = d
    BY <1>3 DEF RecordSuccess, Forgive
  <2>5. QED BY <1>3, <2>1, <2>2, <2>3, <2>4 DEF Follows, Healthy, WellFormed
<1>4. QED BY <1>1, <1>2, <1>3

\* record_success_atomic: the same, after a check for recovery.
LEMMA RecordSuccessAtomicFacts ==
  ASSUME NEW b \in WellFormed, Healthy(b), NEW slow \in BOOLEAN
  PROVE  /\ Follows(b, RecordSuccessAtomic(b, slow))
         /\ WindowSize = 0 =>
              /\ b.state = "CLOSED" => RecordSuccessAtomic(b, slow).state = "CLOSED"
              /\ RecordSuccessAtomic(b, slow).state = "CLOSED" =>
                   RecordSuccessAtomic(b, slow).failureCount = 0
<1> DEFINE r == CheckRecovery(b)
<1>1. r \in WellFormed /\ Healthy(r)
  BY CheckRecoveryFollows DEF Follows
<1>2. r = b \/ (b.state = "OPEN" /\ b.sinceFailure = RecoveryTimeout /\ r.state = "HALF_OPEN")
  BY CheckRecoveryFacts
<1>3. RecordSuccessAtomic(b, slow) = RecordSuccess(r, slow)
  BY DEF RecordSuccessAtomic
<1> HIDE DEF r
<1>4. QED BY <1>1, <1>2, <1>3, RecordSuccessFacts DEF Follows

\* record_failure: in consecutive mode a circuit that stays CLOSED has counted
\* one failure more, and one that opens has counted enough of them.
LEMMA RecordFailureFacts ==
  ASSUME NEW b \in WellFormed, Healthy(b), NEW slow \in BOOLEAN
  PROVE  /\ Follows(b, RecordFailure(b, slow))
         /\ WindowSize = 0 =>
              /\ RecordFailure(b, slow).state = "CLOSED" =>
                   /\ b.state = "CLOSED"
                   /\ RecordFailure(b, slow).failureCount = b.failureCount + 1
              /\ b.state = "CLOSED" /\ RecordFailure(b, slow).state = "OPEN" =>
                   b.failureCount + 1 >= FailureThreshold
<1>1. CASE b.state = "HALF_OPEN"
  <2>1. RecordFailure(b, slow) = Reopened(b)
    BY <1>1 DEF RecordFailure
  <2>2. QED BY <1>1, <2>1, OpenedFacts DEF Follows, Healthy
<1>2. CASE b.state # "HALF_OPEN" /\ WindowSize > 0
  <2>1. RecordFailure(b, slow) = Observe(b, TRUE, slow)
    BY <1>2 DEF RecordFailure
  <2>2. TRUE \in BOOLEAN /\ WindowSize # 0
    BY <1>2, BreakerAssumption
  <2>3. Follows(b, Observe(b, TRUE, slow))
    BY <1>2, <2>2, ObserveFacts
  <2>4. QED BY <2>1, <2>2, <2>3
<1>3. CASE b.state # "HALF_OPEN" /\ ~(WindowSize > 0)
  <2>1. RecordFailure(b, slow) = CountFailure(b)
    BY <1>3 DEF RecordFailure
  <2>2. WindowSize = 0
    BY <1>3, BreakerAssumption
  <2>3. QED BY <1>3, <2>1, <2>2, CountFailureFacts
<1>4. QED BY <1>1, <1>2, <1>3

\* A tick moves nothing but the time since the last failure, by one at most and
\* never past recovery_timeout.
LEMMA ElapseFacts ==
  ASSUME NEW b \in WellFormed
  PROVE  /\ Elapse(b) \in WellFormed
         /\ Elapse(b).state = b.state /\ Elapse(b).window = b.window
         /\ Elapse(b).failureCount = b.failureCount
         /\ Elapse(b).sinceFailure = IF b.sinceFailure \in 0..(RecoveryTimeout - 1)
                                     THEN b.sinceFailure + 1 ELSE b.sinceFailure
<1>1. CASE b.sinceFailure \in 0..(RecoveryTimeout - 1)
  <2> DEFINE n == b.sinceFailure + 1
  <2>1. n \in 0..RecoveryTimeout
    BY <1>1, BreakerAssumption
  <2>2. Elapse(b) = [b EXCEPT !.sinceFailure = n]
    BY <1>1 DEF Elapse
  <2> HIDE DEF n
  <2>3. Elapse(b) \in Breakers
    BY <2>1, <2>2 DEF WellFormed, Breakers
  <2>4. /\ Elapse(b).state = b.state /\ Elapse(b).window = b.window
        /\ Elapse(b).failureCount = b.failureCount /\ Elapse(b).sinceFailure = n
    BY <2>2 DEF WellFormed, Breakers
  <2>5. QED BY <1>1, <2>3, <2>4 DEF WellFormed, n
<1>2. CASE ~(b.sinceFailure \in 0..(RecoveryTimeout - 1))
  BY <1>2 DEF Elapse
<1>3. QED BY <1>1, <1>2

\* The new breaker: closed, healthy and well formed.
LEMMA InitFacts ==
  InitBreaker \in WellFormed /\ Healthy(InitBreaker) /\ InitBreaker.state = "CLOSED"
<1>1. <<>> \in Seq(Outcome) /\ Len(<<>>) = 0
  OBVIOUS
<1>2. 0 \in 0..FailureThreshold /\ 0 < FailureThreshold /\ 0 <= WindowSize
  BY BreakerAssumption
<1>3. InitBreaker \in Breakers
  BY <1>1, <1>2 DEF InitBreaker, Breakers, CircuitState
<1>4. /\ InitBreaker.state = "CLOSED" /\ InitBreaker.failureCount = 0
      /\ InitBreaker.window = <<>>
  BY DEF InitBreaker
<1>5. QED BY <1>1, <1>2, <1>3, <1>4, EmptyWindow DEF WellFormed, Healthy

LEMMA SpeedsAreBoolean == Speeds \subseteq BOOLEAN
BY DEF Speeds

=============================================================================
