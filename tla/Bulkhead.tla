------------------------------- MODULE Bulkhead -------------------------------
(***************************************************************************)
(* Bulkhead and AsyncBulkhead of _bulkhead.py.  Tasks take a slot, at once *)
(* or after a wait of at most max_wait, and give it back.  The async one   *)
(* makes a new semaphore whenever the event loop is not the one it saw     *)
(* last, and a slot is given back to whatever semaphore is current then;   *)
(* the sync one is the case of a single loop.                              *)
(*                                                                         *)
(* Event loops may follow one another, as in repeated asyncio.run, which   *)
(* ends every task of one loop before the next begins; or they may overlap *)
(* in different threads.                                                   *)
(***************************************************************************)
EXTENDS Integers, FiniteSets

CONSTANTS
  Tasks,          \* tasks or threads
  Loops,          \* event loops
  MaxConcurrent,  \* max_concurrent
  MayWait,        \* max_wait > 0
  Overlap,        \* loops run side by side
  None

ASSUME BulkheadAssumption ==
  /\ IsFiniteSet(Tasks)
  /\ MaxConcurrent \in Nat \ {0}
  /\ MayWait \in BOOLEAN /\ Overlap \in BOOLEAN
  /\ None \notin Loops \cup Int

\* Semaphore objects: one nobody refers to is as good as a new one.
Semaphores == 1..(Cardinality(Tasks) + 2)

VARIABLES
  semaphore,   \* _semaphore
  madeFor,     \* _loop_id
  value,       \* slots left in each semaphore
  pc,          \* where each task stands
  loop,        \* the loop each task runs in
  waitsFor     \* the semaphore each waiting task waits for

vars == <<semaphore, madeFor, value, pc, loop, waitsFor>>

TypeOK ==
  /\ semaphore \in Semaphores \cup {None}
  /\ madeFor \in Loops \cup {None}
  /\ value \in [Semaphores -> 0..(MaxConcurrent + Cardinality(Tasks))]
  /\ pc \in [Tasks -> {"out", "waiting", "inside"}]
  /\ loop \in [Tasks -> Loops \cup {None}]
  /\ waitsFor \in [Tasks -> Semaphores \cup {None}]

Init ==
  /\ semaphore = None
  /\ madeFor = None
  /\ value = [s \in Semaphores |-> MaxConcurrent]
  /\ pc = [t \in Tasks |-> "out"]
  /\ loop = [t \in Tasks |-> None]
  /\ waitsFor = [t \in Tasks |-> None]

Inside == {t \in Tasks : pc[t] = "inside"}

\* The loop l can run a task now.
CanRun(l) == Overlap \/ \A t \in Tasks : loop[t] \in {None, l}

-----------------------------------------------------------------------------
(* Faulty variants, used only by mutation runs. *)

RenewAlways(l) == TRUE

TimedOutKeepsSlot(t) == value' = [value EXCEPT ![waitsFor[t]] = @ - 1]

NeverTimesOut(t) == FALSE

-----------------------------------------------------------------------------
(* _get_semaphore *)

MustRenew(l) == semaphore = None \/ madeFor # l

NewSemaphore ==
  CHOOSE s \in Semaphores : s # semaphore /\ \A t \in Tasks : waitsFor[t] # s

SemaphoreFor(l) == IF MustRenew(l) THEN NewSemaphore ELSE semaphore

SlotsLeft(l) == IF MustRenew(l) THEN MaxConcurrent ELSE value[semaphore]

\* Keep the semaphore for loop l, left with n slots.
Keep(l, n) ==
  /\ semaphore' = SemaphoreFor(l)
  /\ madeFor' = l
  /\ value' = [value EXCEPT ![SemaphoreFor(l)] = n]

-----------------------------------------------------------------------------
\* acquire finds a free slot
Enter(t, l) ==
  /\ pc[t] = "out" /\ CanRun(l)
  /\ SlotsLeft(l) > 0
  /\ Keep(l, SlotsLeft(l) - 1)
  /\ pc' = [pc EXCEPT ![t] = "inside"]
  /\ loop' = [loop EXCEPT ![t] = l]
  /\ UNCHANGED waitsFor

\* acquire finds none: it answers no, or begins to wait
Block(t, l) ==
  /\ pc[t] = "out" /\ CanRun(l)
  /\ SlotsLeft(l) = 0
  /\ Keep(l, 0)
  /\ IF MayWait
     THEN /\ pc' = [pc EXCEPT ![t] = "waiting"]
          /\ loop' = [loop EXCEPT ![t] = l]
          /\ waitsFor' = [waitsFor EXCEPT ![t] = SemaphoreFor(l)]
     ELSE UNCHANGED <<pc, loop, waitsFor>>

\* The semaphore lets a waiting task in.
Granted(t) ==
  /\ pc[t] = "waiting" /\ value[waitsFor[t]] > 0
  /\ value' = [value EXCEPT ![waitsFor[t]] = @ - 1]
  /\ pc' = [pc EXCEPT ![t] = "inside"]
  /\ waitsFor' = [waitsFor EXCEPT ![t] = None]
  /\ UNCHANGED <<semaphore, madeFor, loop>>

\* What a wait that ended without a slot leaves behind in the semaphore.
Abandon(t) == UNCHANGED value

\* The wait can end by its timeout (or the cancellation of the task).
CanTimeOut(t) == pc[t] = "waiting"

TimedOut(t) ==
  /\ CanTimeOut(t)
  /\ Abandon(t)
  /\ pc' = [pc EXCEPT ![t] = "out"]
  /\ loop' = [loop EXCEPT ![t] = None]
  /\ waitsFor' = [waitsFor EXCEPT ![t] = None]
  /\ UNCHANGED <<semaphore, madeFor>>

Release(t) ==
  /\ pc[t] = "inside"
  /\ value' = [value EXCEPT ![semaphore] = @ + 1]
  /\ pc' = [pc EXCEPT ![t] = "out"]
  /\ loop' = [loop EXCEPT ![t] = None]
  /\ UNCHANGED <<semaphore, madeFor, waitsFor>>

Next ==
  \/ \E t \in Tasks, l \in Loops : Enter(t, l) \/ Block(t, l)
  \/ \E t \in Tasks : Granted(t) \/ TimedOut(t) \/ Release(t)

Spec == Init /\ [][Next]_vars

-----------------------------------------------------------------------------
(* Properties. *)

\* As long as loops do not overlap every slot is in the current semaphore or with
\* a task: none is lost when a wait times out or the loop changes.
SlotsConserved ==
  semaphore # None => value[semaphore] + Cardinality(Inside) = MaxConcurrent

=============================================================================
