------------------------------- MODULE Shutdown -------------------------------
(***************************************************************************)
(* Graceful shutdown (_executor.py): execute counts calls in and out when  *)
(* it found tracking enabled, and shutdown waits for the event             *)
(* _in_flight, which means that the count is zero.  Whether a call is      *)
(* tracked is decided once, without the lock, when it begins; shutdown     *)
(* itself enables tracking.  Nothing refuses calls while shutdown waits.   *)
(*                                                                         *)
(* threading.Event wakes its waiter for good: a wait that has been         *)
(* notified returns True although the event has been cleared since.        *)
(***************************************************************************)
EXTENDS Integers, FiniteSets

CONSTANTS
  Calls,           \* calls of resilient functions, on threads or tasks
  EnabledAtStart   \* the application called enable_in_flight_tracking

ASSUME ShutdownAssumption == IsFiniteSet(Calls) /\ EnabledAtStart \in BOOLEAN

VARIABLES
  enabled,    \* _tracking_enabled
  count,      \* _in_flight_count
  idle,       \* the event _in_flight is set
  pc,         \* where each call stands
  tracked,    \* each call's own copy of _tracking_enabled
  stage,      \* where shutdown stands, and its answer
  owed        \* history: the calls in flight when shutdown began, not yet over

vars == <<enabled, count, idle, pc, tracked, stage, owed>>

Stages == {"none", "waiting", "notified", "drained", "timedout"}

TypeOK ==
  /\ enabled \in BOOLEAN /\ idle \in BOOLEAN
  /\ count \in 0..Cardinality(Calls)
  /\ pc \in [Calls -> {"out", "starting", "running"}]
  /\ tracked \in [Calls -> BOOLEAN]
  /\ stage \in Stages
  /\ owed \subseteq Calls

Init ==
  /\ enabled = EnabledAtStart
  /\ count = 0
  /\ idle = TRUE
  /\ pc = [c \in Calls |-> "out"]
  /\ tracked = [c \in Calls |-> FALSE]
  /\ stage = "none"
  /\ owed = {}

Running == {c \in Calls : pc[c] = "running"}

-----------------------------------------------------------------------------
(* Faulty variants, used only by mutation runs. *)

CountOutSetsAlways == count' = count - 1 /\ idle' = TRUE

CountOutNeverSets == count' = count - 1 /\ UNCHANGED idle

CountsOutAsEnabled(c) == enabled

-----------------------------------------------------------------------------
(* The counter, under _in_flight_lock. *)

\* _track_call_start
CountIn == count' = count + 1 /\ idle' = FALSE

\* _track_call_end; the count never goes below zero
CountOut ==
  /\ count' = IF count > 1 THEN count - 1 ELSE 0
  /\ idle' = (count <= 1 \/ idle)

\* Setting the event notifies a shutdown that waits for it.
Notify == stage' = IF idle' /\ stage = "waiting" THEN "notified" ELSE stage

\* What execute asks at its end.
CountsOut(c) == tracked[c]

-----------------------------------------------------------------------------
(* Calls. *)

\* execute reads the flag.
Begin(c) ==
  /\ pc[c] = "out"
  /\ tracked' = [tracked EXCEPT ![c] = enabled]
  /\ pc' = [pc EXCEPT ![c] = IF enabled THEN "starting" ELSE "running"]
  /\ UNCHANGED <<enabled, count, idle, stage, owed>>

Enter(c) ==
  /\ pc[c] = "starting"
  /\ CountIn
  /\ pc' = [pc EXCEPT ![c] = "running"]
  /\ UNCHANGED <<enabled, tracked, stage, owed>>

\* The call is over, whether it returned or raised.
End(c) ==
  /\ pc[c] = "running"
  /\ IF CountsOut(c) THEN CountOut /\ Notify ELSE UNCHANGED <<count, idle, stage>>
  /\ pc' = [pc EXCEPT ![c] = "out"]
  /\ owed' = owed \ {c}
  /\ UNCHANGED <<enabled, tracked>>

-----------------------------------------------------------------------------
(* Shutdown and the application. *)

Enable ==
  /\ enabled' = TRUE
  /\ UNCHANGED <<count, idle, pc, tracked, stage, owed>>

\* shutdown(wait=True), which may be called again after it returned.  A call that
\* has not been counted in yet counts as one that begins later.
BeginShutdown ==
  /\ stage \notin {"waiting", "notified"}
  /\ enabled' = TRUE
  /\ stage' = IF idle THEN "notified" ELSE "waiting"
  /\ owed' = Running
  /\ UNCHANGED <<count, idle, pc, tracked>>

\* The wait returns True; the pools are shut down.
ReturnDrained ==
  /\ stage = "notified"
  /\ stage' = "drained"
  /\ UNCHANGED <<enabled, count, idle, pc, tracked, owed>>

\* The wait returns False; the pools are shut down all the same.
ReturnTimedOut ==
  /\ stage = "waiting"
  /\ stage' = "timedout"
  /\ UNCHANGED <<enabled, count, idle, pc, tracked, owed>>

Arrive == \E c \in Calls : Begin(c)

Next ==
  \/ Arrive
  \/ \E c \in Calls : Enter(c) \/ End(c)
  \/ Enable \/ BeginShutdown \/ ReturnDrained \/ ReturnTimedOut

Spec == Init /\ [][Next]_vars

\* Calls end and the thread in shutdown runs; nothing is assumed of its timeout.
FairSpec ==
  /\ Spec
  /\ \A c \in Calls : WF_vars(Enter(c) \/ End(c))
  /\ WF_vars(ReturnDrained)

-----------------------------------------------------------------------------
(* Properties. *)

\* get_in_flight_count counts exactly the running calls that found tracking
\* enabled, although tracking may be enabled at any moment of their lives, and the
\* event is set exactly when that count is zero.
CountMatchesCalls ==
  /\ count = Cardinality({c \in Running : tracked[c]})
  /\ idle <=> count = 0

\* When shutdown reports that the calls have drained, no call that had been counted
\* in when it began is still running, although new calls come and go all the while
\* and may keep the count from ever being zero again when the waiter wakes up.
CountedAreDrained == stage = "drained" => \A c \in owed : ~tracked[c]

\* The wake-up of shutdown is not lost: once no more calls arrive it returns,
\* without the help of its timeout.
DrainEnds == <>[][~Arrive]_vars => [](stage = "waiting" => <>(stage # "waiting"))

-----------------------------------------------------------------------------
(* What the documentation says and the code does not do. *)

\* Docstring of shutdown: it waits for the calls in flight.  Those that began
\* before tracking was enabled are not counted, and it does not wait for them.
DrainedMeansDone == stage = "drained" => owed = {}

=============================================================================
