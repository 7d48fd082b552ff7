----------------------------- MODULE TimeoutPool -----------------------------
(***************************************************************************)
(* Timeouts of sync functions (_execute_with_timeout of _executor.py): the *)
(* attempt runs on a worker thread of a pool, its caller waits for the     *)
(* future, and a caller that runs out of time cancels the future and       *)
(* throws an exception into the thread it believes the attempt runs on.    *)
(* Between the end of the wait and the throw the function may end and the  *)
(* worker may begin another attempt.  A function that raises TimeoutError  *)
(* itself, or lets the exception thrown into its thread pass, which is     *)
(* one, counts as out of time too.  Callers stand for the bulkhead: each   *)
(* holds a slot from before the submission until it leaves.                *)
(*                                                                         *)
(* ThreadPoolExecutor is external: workers take attempts in order of       *)
(* submission, drop those that were cancelled, and a worker that meets the *)
(* exception between two attempts dies and is not replaced.                *)
(***************************************************************************)
EXTENDS Integers, Sequences, FiniteSets

CONSTANTS
  Attempts,        \* attempts that may be under way at once
  Workers,         \* the threads of the pool
  MaxConcurrent,   \* bulkhead.max_concurrent
  None

ASSUME TimeoutPoolAssumption ==
  /\ IsFiniteSet(Attempts) /\ IsFiniteSet(Workers)
  /\ MaxConcurrent \in Nat \ {0}
  /\ None \notin Attempts \cup Workers

VARIABLES
  caller,      \* where the caller of each attempt stands
  future,      \* the future of each attempt; timedOut if it holds a TimeoutError
  queue,       \* the work queue of the pool
  busy,        \* the attempt each worker runs
  threadId,    \* thread_id_holder of each attempt
  interrupt,   \* the attempt because of which each thread is to be interrupted
  alive        \* the workers that have not died

poolVars == <<caller, future, queue, busy, threadId, interrupt, alive>>

PoolTypeOK ==
  /\ caller \in [Attempts -> {"out", "waiting", "expired"}]
  /\ future \in [Attempts -> {"pending", "running", "finished", "timedOut", "cancelled"}]
  /\ queue \in Seq(Attempts) /\ Len(queue) <= Cardinality(Attempts)
  /\ busy \in [Workers -> Attempts \cup {None}]
  /\ threadId \in [Attempts -> Workers \cup {None}]
  /\ interrupt \in [Workers -> Attempts \cup {None}]
  /\ alive \subseteq Workers

PoolInit ==
  /\ caller = [a \in Attempts |-> "out"]
  /\ future = [a \in Attempts |-> "finished"]
  /\ queue = <<>>
  /\ busy = [w \in Workers |-> None]
  /\ threadId = [a \in Attempts |-> None]
  /\ interrupt = [w \in Workers |-> None]
  /\ alive = Workers

-----------------------------------------------------------------------------
(* Faulty variants, used only by mutation runs. *)

CancelNothing(a) == UNCHANGED future

ExpiresOnlyIfRunning(a) == future[a] = "running"

-----------------------------------------------------------------------------
Inside == {a \in Attempts : caller[a] # "out"}

\* Nothing remembers the previous attempt of this name.
Forgotten(a) ==
  /\ a \notin {queue[i] : i \in DOMAIN queue}
  /\ \A w \in Workers : busy[w] # a /\ interrupt[w] # a

\* future.cancel(): only an attempt that has not begun can be cancelled.
Cancel(a) ==
  future' = [future EXCEPT ![a] = IF @ = "pending" THEN "cancelled" ELSE @]

\* future.result(timeout=...) raises TimeoutError, its own or the function's
RunsOutOfTime(a) == future[a] # "finished"

-----------------------------------------------------------------------------
(* Callers. *)

Submit(a) ==
  /\ caller[a] = "out" /\ Forgotten(a)
  /\ Cardinality(Inside) < MaxConcurrent
  /\ caller' = [caller EXCEPT ![a] = "waiting"]
  /\ future' = [future EXCEPT ![a] = "pending"]
  /\ threadId' = [threadId EXCEPT ![a] = None]
  /\ queue' = Append(queue, a)
  /\ UNCHANGED <<busy, interrupt, alive>>

\* future.result() returns what the function did, or raises it if it is no TimeoutError
Collect(a) ==
  /\ caller[a] = "waiting" /\ future[a] = "finished"
  /\ caller' = [caller EXCEPT ![a] = "out"]
  /\ UNCHANGED <<future, queue, busy, threadId, interrupt, alive>>

Expire(a) ==
  /\ caller[a] = "waiting" /\ RunsOutOfTime(a)
  /\ caller' = [caller EXCEPT ![a] = "expired"]
  /\ UNCHANGED <<future, queue, busy, threadId, interrupt, alive>>

\* The except clause: cancel, interrupt the thread if it is known, be the attempt on it
\* or over, and leave with ResilienceTimeoutError; the finally block of the call
\* releases the slot.
GiveUp(a) ==
  /\ caller[a] = "expired"
  /\ Cancel(a)
  /\ interrupt' = [w \in Workers |->
                     IF w = threadId[a] /\ w \in alive THEN a ELSE interrupt[w]]
  /\ caller' = [caller EXCEPT ![a] = "out"]
  /\ UNCHANGED <<queue, busy, threadId, alive>>

-----------------------------------------------------------------------------
(* Workers. *)

Take(w) ==
  /\ w \in alive /\ busy[w] = None /\ queue # <<>>
  /\ queue' = Tail(queue)
  /\ IF future[Head(queue)] = "cancelled"
     THEN UNCHANGED <<future, busy>>
     ELSE /\ future' = [future EXCEPT ![Head(queue)] = "running"]
          /\ busy' = [busy EXCEPT ![w] = Head(queue)]
  /\ UNCHANGED <<caller, threadId, interrupt, alive>>

\* _wrapper notes its thread and calls the function.
StartFunction(w) ==
  /\ busy[w] # None /\ threadId[busy[w]] = None
  /\ threadId' = [threadId EXCEPT ![busy[w]] = w]
  /\ UNCHANGED <<caller, future, queue, busy, interrupt, alive>>

\* What the worker runs is over.
Over(w, how) ==
  /\ future' = [future EXCEPT ![busy[w]] = how]
  /\ busy' = [busy EXCEPT ![w] = None]

\* The function returns or raises, a TimeoutError of its own perhaps.
Finish(w) ==
  /\ busy[w] # None /\ threadId[busy[w]] = w
  /\ Over(w, "finished") \/ Over(w, "timedOut")
  /\ UNCHANGED <<caller, queue, threadId, interrupt, alive>>

\* The pending exception is raised in whatever attempt the thread runs: that ends with
\* ResilienceTimeoutError, which is a TimeoutError, or catches it and goes on.
Interrupted(w) ==
  /\ interrupt[w] # None /\ busy[w] # None
  /\ interrupt' = [interrupt EXCEPT ![w] = None]
  /\ \/ Over(w, "timedOut")
     \/ threadId[busy[w]] = w /\ UNCHANGED <<future, busy>>
  /\ UNCHANGED <<caller, queue, threadId, alive>>

\* It is raised between two attempts; the attempt that the worker was about to
\* receive may be lost with it.
Die(w) ==
  /\ interrupt[w] # None /\ busy[w] = None
  /\ interrupt' = [interrupt EXCEPT ![w] = None]
  /\ alive' = alive \ {w}
  /\ \/ UNCHANGED queue
     \/ queue # <<>> /\ queue' = Tail(queue)
  /\ UNCHANGED <<caller, future, busy, threadId>>

PoolNext ==
  \/ \E a \in Attempts : Submit(a) \/ Collect(a) \/ Expire(a) \/ GiveUp(a)
  \/ \E w \in Workers : Take(w) \/ StartFunction(w) \/ Finish(w) \/ Interrupted(w) \/ Die(w)

PoolSpec == PoolInit /\ [][PoolNext]_poolVars

\* The clock reaches every deadline and callers run; functions may hang, and
\* nothing is assumed of the pool.
PoolFairSpec ==
  PoolSpec /\ \A a \in Attempts : WF_poolVars(Collect(a) \/ Expire(a) \/ GiveUp(a))

-----------------------------------------------------------------------------
(* Properties. *)

\* A caller with a timeout always returns, even if every worker hangs in a
\* function that ignores interruption, or has died (_execute_with_timeout).
EveryCallerReturns == \A a \in Attempts : caller[a] # "out" ~> caller[a] = "out"

\* An attempt whose caller gave up before it began never begins: from the moment
\* the caller has left, no abandoned attempt moves from the queue to a worker.
AbandonedNeverBegins ==
  [][ \A w \in Workers :
        busy[w] = None /\ busy'[w] # None => caller[busy'[w]] # "out" ]_poolVars

-----------------------------------------------------------------------------
(* What the documentation says and the code does not do. *)

\* timelimiter.md: when a function exceeds its timeout, an exception is raised in
\* the worker thread.  It may hit another function, whose time is not up.
InterruptHitsOnlyLate ==
  [][ \A w \in Workers : Interrupted(w) => caller[busy[w]] # "waiting" ]_poolVars

\* bulkhead.md: the bulkhead limits the number of concurrent executions.  The
\* functions abandoned by their callers run on outside of it.
ExecutionsBounded ==
  Cardinality({w \in Workers : busy[w] # None}) <= MaxConcurrent

=============================================================================
