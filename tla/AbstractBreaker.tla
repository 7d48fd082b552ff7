--------------------------- MODULE AbstractBreaker ---------------------------
(***************************************************************************)
(* What the circuit breaker promises its callers, whatever counts as       *)
(* evidence of trouble: calls start only while the circuit lets them       *)
(* through, it stays open for the whole recovery timeout counted from the  *)
(* last trip, and it closes by itself only after SuccessThreshold          *)
(* successes recorded in the half-open period it is in.                    *)
(***************************************************************************)
EXTENDS Integers

CONSTANTS Calls, SuccessThreshold, RecoveryTimeout

VARIABLES
  mode,      \* the state of the circuit
  waited,    \* ticks since the last trip, while open
  wins,      \* successes recorded in this half-open period
  running    \* the calls let through and not finished

avars == <<mode, waited, wins, running>>

AInit ==
  /\ mode = "CLOSED"
  /\ waited = 0
  /\ wins = 0
  /\ running = {}

CoolingDown == mode = "OPEN" /\ waited < RecoveryTimeout

\* The circuit is half-open, or open and due to become so.
Probing == mode = "HALF_OPEN" \/ (mode = "OPEN" /\ waited = RecoveryTimeout)

WinsSoFar == IF mode = "HALF_OPEN" THEN wins ELSE 0

Goto(m, t, k) == mode' = m /\ waited' = t /\ wins' = k

Wait ==
  /\ CoolingDown
  /\ Goto(mode, waited + 1, wins)
  /\ UNCHANGED running

StartProbing ==
  /\ mode = "OPEN" /\ waited = RecoveryTimeout
  /\ Goto("HALF_OPEN", 0, 0)
  /\ UNCHANGED running

Start(c) ==
  /\ c \notin running
  /\ running' = running \cup {c}
  /\ \/ mode # "OPEN" /\ UNCHANGED <<mode, waited, wins>>
     \/ mode = "OPEN" /\ waited = RecoveryTimeout /\ Goto("HALF_OPEN", 0, 0)

Finish(c) == c \in running /\ running' = running \ {c}

\* A call ends without moving the circuit.
Unnoticed(c) == Finish(c) /\ UNCHANGED <<mode, waited, wins>>

\* A call ends while the circuit is half-open, or due to be, and succeeds.
Win(c) ==
  /\ Finish(c)
  /\ Probing
  /\ IF WinsSoFar + 1 >= SuccessThreshold
     THEN Goto("CLOSED", 0, 0)
     ELSE Goto("HALF_OPEN", 0, WinsSoFar + 1)

\* The outcome of a call opens the circuit, or opens it again.
Trip(c) == Finish(c) /\ Goto("OPEN", 0, 0)

\* An operator decides.
Override ==
  /\ \/ Goto("OPEN", 0, 0)
     \/ Goto("CLOSED", 0, 0)
  /\ UNCHANGED running

ANext ==
  \/ Wait
  \/ StartProbing
  \/ Override
  \/ \E c \in Calls : Start(c) \/ Unnoticed(c) \/ Win(c) \/ Trip(c)

ASpec == AInit /\ [][ANext]_avars

=============================================================================
