------------------------------- MODULE Metrics -------------------------------
(***************************************************************************)
(* The latency tracking of MetricsCollector (_logging.py), driven by the   *)
(* events that the executors emit.  execute gives each call an id and      *)
(* keeps it in a context variable, which it does not restore; the          *)
(* collector, a listener, files the start of a call's tracking under the   *)
(* id in the context of whoever emits the event, and turns it into a       *)
(* latency at the call's terminal event.  A function may itself call a     *)
(* decorated function, in the same context.                                *)
(*                                                                         *)
(* The collector's answer to one event is atomic, under its lock.  Events  *)
(* that it only counts are left out; times are left out in favour of which *)
(* call's event a latency is measured from.                                *)
(***************************************************************************)
EXTENDS Integers, Sequences, FiniteSets

CONSTANTS
  Contexts,      \* threads or tasks
  MaxAttempts,   \* retry.max_attempts
  MaxCalls,      \* bound: calls in a behaviour
  MaxDepth       \* bound: calls within calls

ASSUME MetricsAssumption ==
  /\ IsFiniteSet(Contexts)
  /\ MaxAttempts \in Nat \ {0} /\ MaxCalls \in Nat \ {0} /\ MaxDepth \in Nat \ {0}

Ids == 1..MaxCalls

Unset == -1

VARIABLES
  nextId,      \* _call_id_counter
  callId,      \* call_id_var in each context
  root,        \* history: for each call, the outermost of the calls it is nested in
  frames,      \* the calls each context is in, the innermost last
  starts,      \* _call_starts: for each id, the call whose event started it, or Unset
  latencies,   \* history: for every latency, the call that started it and the one that ended it
  succeeded,   \* history: the calls that ended with SUCCESS
  due          \* history: the calls that must be, or have been, measured: the event of
               \* their first attempt was seen, and neither reset nor a call of their
               \* function to another decorated one has come between it and their end

metricsVars == <<nextId, callId, root, frames, starts, latencies, succeeded, due>>

Frame == [id : Ids, attempt : 1..MaxAttempts,
          stage : {"arriving", "running", "refused", "exhausted"}]

MetricsTypeOK ==
  /\ nextId \in 1..(MaxCalls + 1)
  /\ callId \in [Contexts -> Ids \cup {Unset}]
  /\ root \in [Ids -> Ids]
  /\ frames \in [Contexts -> Seq(Frame)]
  /\ \A x \in Contexts : Len(frames[x]) <= MaxDepth
  /\ starts \in [Ids -> Ids \cup {Unset}]
  /\ latencies \subseteq Ids \X Ids
  /\ succeeded \subseteq Ids
  /\ due \subseteq Ids

MetricsInit ==
  /\ nextId = 1
  /\ callId = [x \in Contexts |-> Unset]
  /\ root = [i \in Ids |-> i]
  /\ frames = [x \in Contexts |-> <<>>]
  /\ starts = [i \in Ids |-> Unset]
  /\ latencies = {}
  /\ succeeded = {}
  /\ due = {}

-----------------------------------------------------------------------------
(* Faulty variants, used only by mutation runs. *)

OneKeyForAll(x) == 1

\* Tracking starts at the event of any attempt but the first.
StartsLate(n) == n > 1

-----------------------------------------------------------------------------
InCall(x, stage) == frames[x] # <<>> /\ frames[x][Len(frames[x])].stage = stage

Current(x) == frames[x][Len(frames[x])]

InFrames(x) == {frames[x][d].id : d \in DOMAIN frames[x]}

Became(x, frame) == frames' = [frames EXCEPT ![x][Len(frames[x])] = frame]

Ended(x) == frames' = [frames EXCEPT ![x] = SubSeq(@, 1, Len(@) - 1)]

(* MetricsCollector.__call__ *)

CallKey(x) == callId[x]

Tracked(key) == starts[key] # Unset

PopStart(key) == starts' = [starts EXCEPT ![key] = Unset]

StartsTracking(n) == n = 1

\* An event of attempt n that is not terminal.
Progress(x, n) ==
  /\ starts' = IF StartsTracking(n) /\ CallKey(x) # Unset
               THEN [starts EXCEPT ![CallKey(x)] = Current(x).id] ELSE starts
  /\ due' = IF n = 1 THEN due \cup {Current(x).id} ELSE due
  /\ UNCHANGED latencies

\* SUCCESS or FAILURE
Terminal(x) ==
  /\ UNCHANGED due
  /\ IF CallKey(x) # Unset /\ Tracked(CallKey(x))
     THEN /\ latencies' = latencies \cup {<<starts[CallKey(x)], Current(x).id>>}
          /\ PopStart(CallKey(x))
     ELSE UNCHANGED <<latencies, starts>>

-----------------------------------------------------------------------------
(* The executors, as far as their events go. *)

\* execute: a new call, alone in its context or made by the function of another.
Call(x) ==
  /\ nextId <= MaxCalls /\ Len(frames[x]) < MaxDepth
  /\ frames[x] = <<>> \/ InCall(x, "running")
  /\ callId' = [callId EXCEPT ![x] = nextId]
  /\ nextId' = nextId + 1
  /\ root' = [root EXCEPT ![nextId] = IF frames[x] = <<>> THEN nextId ELSE frames[x][1].id]
  /\ frames' = [frames EXCEPT ![x] =
                  Append(@, [id |-> nextId, attempt |-> 1, stage |-> "arriving"])]
  /\ due' = due \ InFrames(x)
  /\ UNCHANGED <<starts, latencies, succeeded>>

\* Answered from the cache, or rejected by circuit breaker, rate limiter or bulkhead.
Answered(x) ==
  /\ InCall(x, "arriving")
  /\ Ended(x)
  /\ UNCHANGED <<nextId, callId, root, starts, latencies, succeeded, due>>

Admitted(x) ==
  /\ InCall(x, "arriving")
  /\ Became(x, [Current(x) EXCEPT !.stage = "running"])
  /\ UNCHANGED <<nextId, callId, root, starts, latencies, succeeded, due>>

Success(x) ==
  /\ InCall(x, "running")
  /\ Terminal(x)
  /\ Ended(x)
  /\ succeeded' = succeeded \cup {Current(x).id}
  /\ UNCHANGED <<nextId, callId, root>>

\* An attempt is under way, or its unwanted result was to be retried and the slot refused
\* after the sleep: an exception of the same attempt.
Trying(x) == InCall(x, "running") \/ InCall(x, "refused")

\* FAILURE: an exception that ignore_on lists, or that nothing retries or replaces.
Failure(x) ==
  /\ Trying(x)
  /\ Terminal(x)
  /\ Ended(x)
  /\ UNCHANGED <<nextId, callId, root, succeeded>>

\* RETRY, and after the sleep the next attempt, or the same one again with the exception of
\* a refused slot, which may bring a second RETRY of one attempt.
Retry(x) ==
  /\ Trying(x) /\ Current(x).attempt < MaxAttempts
  /\ Progress(x, Current(x).attempt)
  /\ \/ Became(x, [Current(x) EXCEPT !.attempt = @ + 1, !.stage = "running"])
     \/ InCall(x, "running") /\ Became(x, [Current(x) EXCEPT !.stage = "refused"])
  /\ UNCHANGED <<nextId, callId, root, succeeded>>

\* RETRY_EXHAUSTED: no attempts or no budget left.
RetryExhausted(x) ==
  /\ Trying(x)
  /\ Progress(x, Current(x).attempt)
  /\ Became(x, [Current(x) EXCEPT !.stage = "exhausted"])
  /\ UNCHANGED <<nextId, callId, root, succeeded>>

\* FAILURE after RETRY_EXHAUSTED
ExhaustedFailure(x) ==
  /\ InCall(x, "exhausted")
  /\ Terminal(x)
  /\ Ended(x)
  /\ UNCHANGED <<nextId, callId, root, succeeded>>

\* Endings without a terminal event: the fallback, an unwanted result returned, an
\* exception raised again for want of budget; and between two attempts the circuit
\* breaker or the bulkhead refusing, or the task being cancelled.
EndsSilently(x) ==
  /\ Trying(x) \/ InCall(x, "exhausted")
  /\ Ended(x)
  /\ UNCHANGED <<nextId, callId, root, starts, latencies, succeeded, due>>

\* reset
Reset ==
  /\ starts' = [i \in Ids |-> Unset]
  /\ due' = due \ UNION {InFrames(x) : x \in Contexts}
  /\ UNCHANGED <<nextId, callId, root, frames, latencies, succeeded>>

MetricsNext ==
  \/ \E x \in Contexts :
       \/ Call(x) \/ Answered(x) \/ Admitted(x)
       \/ Success(x) \/ Failure(x) \/ Retry(x)
       \/ RetryExhausted(x) \/ ExhaustedFailure(x) \/ EndsSilently(x)
  \/ Reset

MetricsSpec == MetricsInit /\ [][MetricsNext]_metricsVars

-----------------------------------------------------------------------------
(* Properties. *)

\* A latency never runs from one application-level call to another: contexts that
\* interleave do not mix up their calls, and neither does a context that reuses the
\* context variable, or leaves a start behind, call after call.  (changelog.md:
\* concurrent coroutines no longer corrupt latency tracking.)
LatencyStaysInOneCall == \A pair \in latencies : root[pair[1]] = root[pair[2]]

\* A call that was retried, or that gave up after its attempts, and ends with SUCCESS
\* or FAILURE has its latency: calls of other contexts, or earlier ones that ended
\* silently in this one, neither take its start nor leave one in its place.  Excused
\* are calls interrupted by reset or by a nested call, which takes their context's id.
RetriesAreMeasured ==
  [][ \A i \in due : \A x \in Contexts :
        (Success(x) \/ Failure(x) \/ ExhaustedFailure(x)) /\ Current(x).id = i =>
          <<i, i>> \in latencies' ]_metricsVars

-----------------------------------------------------------------------------
(* What documentation, comments and tests say and the code does not do. *)

\* _logging.py: the call id is unique to a call, so a latency is that of one call.
\* After a nested call the outer one goes on under the id of the inner one.
LatencyIsOwn == \A pair \in latencies : pair[1] = pair[2]

\* test_logging.py, after three calls that succeed at once: all of them have their
\* latency tracked.  Only an event of attempt 1 other than SUCCESS starts tracking.
EverySuccessMeasured == \A i \in succeeded : \E pair \in latencies : pair[2] = i

\* changelog.md: the memory of the collector is bounded.  The start of a call that
\* ends without a terminal event is kept for ever.
StartsBounded ==
  Cardinality({i \in Ids : Tracked(i)}) <= Cardinality(Contexts) * MaxDepth

=============================================================================
