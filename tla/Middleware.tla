------------------------------ MODULE Middleware ------------------------------
(***************************************************************************)
(* ResilientMiddleware of contrib/fastapi.py: every HTTP request runs the  *)
(* ASGI application through the async executor, with a bulkhead, a circuit *)
(* breaker, a timeout and retries, and a request that the circuit breaker  *)
(* rejects is answered with status 503.                                    *)
(*                                                                         *)
(* The bulkhead is AsyncBulkhead as the module Bulkhead has it, a task of  *)
(* which serves one request after another.  The application is external:   *)
(* it begins a response, returns, raises or hangs, and when it is told to  *)
(* stop it may still do any of these.  asyncio.wait_for, external as well, *)
(* tells it to stop when the time is up and then waits for its end; a      *)
(* result that comes late is a result.  The circuit breaker and the rest   *)
(* of the configuration may decide either way at any time.  An async       *)
(* executor takes turns only at awaits, so an action goes from one await   *)
(* to the next.                                                            *)
(***************************************************************************)
EXTENDS Bulkhead

CONSTANT MaxAttempts  \* retry.max_attempts

ASSUME MiddlewareAssumption == MaxAttempts \in Nat \ {0}

VARIABLES
  stage,    \* where the request of each task stands
  home,     \* the event loop that serves it
  attempt,  \* the attempt it is at
  begun,    \* whether this attempt has begun a response
  starts,   \* history: http.response.start messages sent for this request
  spoiled   \* history: the attempts that began a response and did not return

request == <<stage, home, attempt, begun, starts, spoiled>>

mwVars == <<vars, request>>

MwTypeOK ==
  /\ TypeOK
  /\ stage \in [Tasks -> {"idle", "arriving", "app", "stopping", "asleep", "requeued",
                          "retrying", "unavailable", "over"}]
  /\ home \in [Tasks -> Loops \cup {None}]
  /\ attempt \in [Tasks -> 1..MaxAttempts]
  /\ begun \in [Tasks -> BOOLEAN]
  /\ starts \in [Tasks -> 0..(MaxAttempts + 1)]
  /\ spoiled \in [Tasks -> 0..MaxAttempts]

MwInit ==
  /\ Init
  /\ stage = [t \in Tasks |-> "idle"]
  /\ home = [t \in Tasks |-> None]
  /\ attempt = [t \in Tasks |-> 1]
  /\ begun = [t \in Tasks |-> FALSE]
  /\ starts = [t \in Tasks |-> 0]
  /\ spoiled = [t \in Tasks |-> 0]


-----------------------------------------------------------------------------
\* Only a request that can still come to an application is at an attempt.
GoesAt(t, place, n) ==
  /\ stage' = [stage EXCEPT ![t] = place]
  /\ attempt' = [attempt EXCEPT ![t] = IF place \in {"unavailable", "over"} THEN 1 ELSE n]

Goes(t, place) == GoesAt(t, place, attempt[t])

InApp(t) == stage[t] \in {"app", "stopping"}

\* The application stops without a result.
Spoils(t) ==
  /\ spoiled' = [spoiled EXCEPT ![t] = IF begun[t] THEN @ + 1 ELSE @]
  /\ begun' = [begun EXCEPT ![t] = FALSE]

\* A slot is won: for the first attempt, or for the next one.
Wins(t) ==
  IF stage[t] \in {"idle", "arriving"}
  THEN Goes(t, "app") ELSE GoesAt(t, "retrying", attempt[t] + 1)

\* bulkhead.acquire: a slot; a wait for one; or, without max_wait, BulkheadFullError.
Acquire(t, l, queue) ==
  \/ Enter(t, l) /\ Wins(t)
  \/ Block(t, l) /\ Goes(t, IF MayWait THEN queue ELSE "over")

\* A request arrives, and is let on to the bulkhead or not: by the circuit breaker, or by
\* the rate limiter, whose exception the middleware raises again.  A fallback answers for
\* either of them.
Arrive(t, l) ==
  /\ stage[t] = "idle"
  /\ Overlap \/ \A other \in Tasks : home[other] \in {None, l}
  /\ home' = [home EXCEPT ![t] = l]
  /\ \/ Acquire(t, l, "arriving")
     \/ \E place \in {"unavailable", "over"} : Goes(t, place) /\ UNCHANGED vars
  /\ UNCHANGED <<begun, starts, spoiled>>

\* The sleep between attempts is over.
Wakes(t) ==
  /\ stage[t] = "asleep"
  /\ Acquire(t, home[t], "requeued")
  /\ UNCHANGED <<home, begun, starts, spoiled>>

\* The task is cancelled in that sleep, when it holds nothing.
Disturbed(t) ==
  /\ stage[t] = "asleep"
  /\ Goes(t, "over")
  /\ UNCHANGED <<vars, home, begun, starts, spoiled>>

Admitted(t) ==
  /\ Granted(t)
  /\ Wins(t)
  /\ UNCHANGED <<home, begun, starts, spoiled>>

\* BulkheadFullError, which the middleware raises again; or the task is cancelled.
TurnedAway(t) ==
  /\ TimedOut(t)
  /\ Goes(t, "over")
  /\ UNCHANGED <<home, begun, starts, spoiled>>

\* Before a retry the circuit breaker is asked again; its no, or the fallback in its place,
\* leaves the loop.
Recheck(t) ==
  /\ stage[t] = "retrying"
  /\ Release(t)
  /\ \E place \in {"unavailable", "over"} : Goes(t, place)
  /\ UNCHANGED <<home, begun, starts, spoiled>>

\* await self.app(scope, receive, send) once more
Retry(t) ==
  /\ stage[t] = "retrying"
  /\ Goes(t, "app")
  /\ UNCHANGED <<vars, home, begun, starts, spoiled>>

\* The except clause: give up the slot and sleep, or leave with the exception.
Fails(t, ends) ==
  /\ Release(t)
  /\ Spoils(t)
  /\ \/ attempt[t] < MaxAttempts /\ Goes(t, "asleep")
     \/ \E place \in ends : Goes(t, place)
  /\ UNCHANGED <<home, starts>>

\* The deadline of the whole request has passed before the attempt began.
TooLate(t) == stage[t] = "retrying" /\ Fails(t, {"over"})

\* Time is up, or the whole task is cancelled: the application is told to stop.
TellToStop(t) ==
  /\ stage[t] = "app"
  /\ Goes(t, "stopping")
  /\ UNCHANGED <<vars, home, begun, starts, spoiled>>

\* The application stops as it was told: ResilienceTimeoutError is handled like any
\* exception, and cancellation passes every except clause.
Stops(t) ==
  /\ stage[t] = "stopping"
  /\ \/ Fails(t, {"over"})
     \/ Release(t) /\ Spoils(t) /\ Goes(t, "over") /\ UNCHANGED <<home, starts>>

\* _send_503
Send503(t) ==
  /\ stage[t] = "unavailable"
  /\ starts' = [starts EXCEPT ![t] = @ + 1]
  /\ Goes(t, "over")
  /\ UNCHANGED <<vars, home, begun, spoiled>>

\* The server is done with the request.
Gone(t) ==
  /\ stage[t] = "over"
  /\ Goes(t, "idle")
  /\ home' = [home EXCEPT ![t] = None]
  /\ starts' = [starts EXCEPT ![t] = 0]
  /\ spoiled' = [spoiled EXCEPT ![t] = 0]
  /\ UNCHANGED <<vars, begun>>

(* The application. *)

AppBegins(t) ==
  /\ InApp(t) /\ ~begun[t]
  /\ begun' = [begun EXCEPT ![t] = TRUE]
  /\ starts' = [starts EXCEPT ![t] = @ + 1]
  /\ UNCHANGED <<vars, stage, home, attempt, spoiled>>

\* Faulty: a result that comes after the application was told to stop is thrown away.
DiscardsLateResult(t) ==
  /\ InApp(t)
  /\ Release(t)
  /\ begun' = [begun EXCEPT ![t] = FALSE]
  /\ IF stage[t] = "stopping" /\ attempt[t] < MaxAttempts THEN Goes(t, "asleep") ELSE Goes(t, "over")
  /\ UNCHANGED <<home, starts, spoiled>>

\* wait_for answers with what the application returns, even if it was told to stop.
AppReturns(t) ==
  /\ InApp(t)
  /\ Release(t)
  /\ Goes(t, "over")
  /\ begun' = [begun EXCEPT ![t] = FALSE]
  /\ UNCHANGED <<home, starts, spoiled>>

\* A CircuitOpenError of the application's own looks like one of the executor's.
AppRaises(t) == InApp(t) /\ Fails(t, {"over", "unavailable"})

-----------------------------------------------------------------------------
\* The steps that the executor, the event loop and the server take by themselves, and the
\* end of an application that was told to stop.
Proceeds(t) ==
  \/ Wakes(t) \/ Disturbed(t) \/ Admitted(t) \/ TurnedAway(t) \/ Recheck(t) \/ Retry(t) \/ TooLate(t)
  \/ TellToStop(t) \/ Stops(t) \/ Send503(t) \/ Gone(t)

MwNext ==
  \E t \in Tasks :
    \/ \E l \in Loops : Arrive(t, l)
    \/ Proceeds(t)
    \/ AppBegins(t) \/ AppReturns(t) \/ AppRaises(t)

MwSpec == MwInit /\ [][MwNext]_mwVars

\* Waits and sleeps end, time is up one day, and an application that is told to stop does.
MwFairSpec == MwSpec /\ \A t \in Tasks : WF_mwVars(Proceeds(t))

-----------------------------------------------------------------------------
(* Properties. *)

\* bulkhead.md: no more applications run at a time than the bulkhead has places, those
\* included that have been told to stop and go on: unlike a thread of the sync executor, a
\* coroutine keeps its slot as long as it runs, through timeouts, sleeps and changes of loop.
AppsBounded ==
  \A l \in Loops : Cardinality({t \in Tasks : InApp(t) /\ home[t] = l}) <= MaxConcurrent

\* ASGI: one response to a request.  Every further one is due to an attempt that had begun
\* its own and failed, never to an application that returned, however late.
ResponsesAreDue == \A t \in Tasks : starts[t] <= 1 + spoiled[t]

\* Every request ends, whether or not slots are free and the application hangs until it is
\* told to stop.
RequestsEnd == \A t \in Tasks : stage[t] # "idle" ~> stage[t] = "idle"

-----------------------------------------------------------------------------
(* What a caller may expect and the code does not do. *)

\* The middleware keeps no record of what has been sent: a retry, or the 503 for a circuit that
\* opened meanwhile, follows a response already begun.
OneResponse == \A t \in Tasks : starts[t] <= 1

=============================================================================
