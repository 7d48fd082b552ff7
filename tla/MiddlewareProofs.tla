-------------------------- MODULE MiddlewareProofs --------------------------
(***************************************************************************)
(* Proofs about Middleware and the bulkhead under it, for any number of    *)
(* requests, places and attempts: the middleware implements the bulkhead,  *)
(* how many applications run at a time while event loops follow one        *)
(* another, how far a semaphore may grow when they overlap, and who sends  *)
(* a response.                                                             *)
(***************************************************************************)
EXTENDS Middleware, FiniteSetTheorems, TLAPS

-----------------------------------------------------------------------------
(* The inductive invariant of the bulkhead. *)

SlotTypes ==
  /\ semaphore \in Semaphores \cup {None}
  /\ value \in [Semaphores -> Nat]
  /\ pc \in [Tasks -> {"out", "waiting", "inside"}]
  /\ loop \in [Tasks -> Loops \cup {None}]
  /\ waitsFor \in [Tasks -> Semaphores \cup {None}]

\* Whoever waits or is inside does so at the current semaphore, which was made for
\* its loop.
AtCurrent ==
  \A t \in Tasks :
    /\ pc[t] # "out" => semaphore # None /\ loop[t] = madeFor /\ loop[t] # None
    /\ waitsFor[t] = IF pc[t] = "waiting" THEN semaphore ELSE None

NobodyYet == semaphore = None => Inside = {}

SlotsInv == SlotTypes /\ AtCurrent /\ NobodyYet /\ SlotsConserved

LEMMA FiniteInside == IsFiniteSet(Inside) /\ Cardinality(Inside) \in Nat
<1>1. Inside \in SUBSET Tasks
  BY DEF Inside
<1>2. QED BY <1>1, FS_Subset, FS_CardinalityType, BulkheadAssumption

LEMMA SemaphoresAreNumbers == {1, 2} \subseteq Semaphores /\ None \notin Semaphores
<1>1. Cardinality(Tasks) \in Nat
  BY FS_CardinalityType, BulkheadAssumption
<1>2. Semaphores \subseteq Int
  BY <1>1 DEF Semaphores
<1>3. QED BY <1>1, <1>2, BulkheadAssumption DEF Semaphores

LEMMA SlotsInitially == Init => SlotsInv
<1> SUFFICES ASSUME Init PROVE SlotsInv
  OBVIOUS
<1>1. MaxConcurrent \in Nat
  BY BulkheadAssumption
<1>2. Inside = {}
  BY DEF Init, Inside
<1>3. SlotTypes
  BY <1>1 DEF Init, SlotTypes
<1>4. QED
  BY <1>2, <1>3 DEF Init, SlotsInv, AtCurrent, NobodyYet, SlotsConserved

-----------------------------------------------------------------------------
(* The steps of the bulkhead. *)

\* The inside gains or loses one task with the slot counted for it.
LEMMA OneMoreInside ==
  ASSUME NEW t \in Tasks, pc \in [Tasks -> {"out", "waiting", "inside"}],
         pc[t] # "inside", pc' = [pc EXCEPT ![t] = "inside"]
  PROVE  Cardinality(Inside') = Cardinality(Inside) + 1
<1>1. Inside' = Inside \cup {t} /\ t \notin Inside
  BY DEF Inside
<1>2. QED BY <1>1, FiniteInside, FS_AddElement

LEMMA OneLessInside ==
  ASSUME NEW t \in Tasks, pc \in [Tasks -> {"out", "waiting", "inside"}],
         pc[t] = "inside", pc' = [pc EXCEPT ![t] = "out"]
  PROVE  Cardinality(Inside') = Cardinality(Inside) - 1
<1>1. Inside' = Inside \ {t} /\ t \in Inside
  BY DEF Inside
<1>2. QED BY <1>1, FiniteInside, FS_RemoveElement

\* A loop that can run a task renews the semaphore only when nobody uses it.
LEMMA RenewsWhenIdle ==
  ASSUME SlotsInv, ~Overlap, NEW l \in Loops, CanRun(l), MustRenew(l)
  PROVE  /\ \A t \in Tasks : pc[t] = "out" /\ waitsFor[t] = None
         /\ Inside = {} /\ Cardinality(Inside) = 0
<1>1. \A t \in Tasks : pc[t] = "out"
  BY DEF SlotsInv, AtCurrent, CanRun, MustRenew
<1>2. Inside = {}
  BY <1>1 DEF Inside
<1>3. \A t \in Tasks : waitsFor[t] = None
  BY <1>1 DEF SlotsInv, AtCurrent
<1>4. QED BY <1>1, <1>2, <1>3, FS_EmptySet

\* The semaphore for a loop exists, and with those inside it accounts for every slot.
LEMMA SemaphoreForFacts ==
  ASSUME SlotsInv, ~Overlap, NEW l \in Loops, CanRun(l)
  PROVE  /\ SemaphoreFor(l) \in Semaphores /\ SemaphoreFor(l) # None
         /\ SlotsLeft(l) \in Nat
         /\ SlotsLeft(l) + Cardinality(Inside) = MaxConcurrent
         /\ \A t \in Tasks : pc[t] # "out" => loop[t] = l
         /\ \A t \in Tasks : pc[t] = "waiting" => SemaphoreFor(l) = semaphore
<1>1. \A t \in Tasks : pc[t] # "out" => loop[t] = l
  BY DEF SlotsInv, AtCurrent, CanRun
<1>2. CASE MustRenew(l)
  <2>1. \A t \in Tasks : pc[t] = "out" /\ waitsFor[t] = None
    BY <1>2, RenewsWhenIdle
  <2>2. \E s \in Semaphores : s # semaphore /\ \A t \in Tasks : waitsFor[t] # s
    BY <2>1, SemaphoresAreNumbers
  <2>3. NewSemaphore \in Semaphores
    BY <2>2 DEF NewSemaphore
  <2>4. SlotsLeft(l) = MaxConcurrent /\ SemaphoreFor(l) = NewSemaphore
    BY <1>2 DEF SlotsLeft, SemaphoreFor
  <2>5. QED
    BY <1>1, <1>2, <2>1, <2>3, <2>4, RenewsWhenIdle, SemaphoresAreNumbers, BulkheadAssumption
<1>3. CASE ~MustRenew(l)
  <2>1. semaphore \in Semaphores /\ semaphore # None /\ value[semaphore] \in Nat
    BY <1>3, SemaphoresAreNumbers DEF MustRenew, SlotsInv, SlotTypes
  <2>2. QED
    BY <1>1, <1>3, <2>1 DEF SlotsLeft, SemaphoreFor, SlotsInv, SlotsConserved
<1>4. QED BY <1>2, <1>3

LEMMA EnterKeeps ==
  ASSUME SlotsInv, ~Overlap, NEW t \in Tasks, NEW l \in Loops, Enter(t, l)
  PROVE  SlotsInv'
<1> DEFINE s == SemaphoreFor(l)
           n == SlotsLeft(l) - 1
<1>1. CanRun(l) /\ SlotsLeft(l) > 0 /\ pc[t] = "out"
  BY DEF Enter
<1>2. /\ s \in Semaphores /\ s # None
      /\ n \in Nat /\ n + 1 + Cardinality(Inside) = MaxConcurrent
      /\ \A u \in Tasks : pc[u] # "out" => loop[u] = l
      /\ \A u \in Tasks : pc[u] = "waiting" => s = semaphore
  BY <1>1, SemaphoreForFacts
<1>3. /\ semaphore' = s /\ madeFor' = l /\ value' = [value EXCEPT ![s] = n]
      /\ pc' = [pc EXCEPT ![t] = "inside"] /\ loop' = [loop EXCEPT ![t] = l]
      /\ waitsFor' = waitsFor
  BY DEF Enter, Keep
<1> HIDE DEF s, n
<1>4. SlotTypes'
  BY <1>2, <1>3 DEF SlotsInv, SlotTypes
<1>5. AtCurrent'
  BY <1>1, <1>2, <1>3, BulkheadAssumption DEF SlotsInv, SlotTypes, AtCurrent
<1>6. SlotsConserved'
  <2>1. Cardinality(Inside') = Cardinality(Inside) + 1
    BY <1>1, <1>3, OneMoreInside DEF SlotsInv, SlotTypes
  <2>2. value'[s] = n
    BY <1>2, <1>3 DEF SlotsInv, SlotTypes
  <2>3. QED BY <1>2, <1>3, <2>1, <2>2, FiniteInside DEF SlotsConserved
<1>7. QED BY <1>2, <1>3, <1>4, <1>5, <1>6 DEF SlotsInv, NobodyYet

LEMMA BlockKeeps ==
  ASSUME SlotsInv, ~Overlap, NEW t \in Tasks, NEW l \in Loops, Block(t, l)
  PROVE  SlotsInv'
<1> DEFINE s == SemaphoreFor(l)
<1>1. CanRun(l) /\ SlotsLeft(l) = 0 /\ pc[t] = "out"
  BY DEF Block
<1>2. /\ s \in Semaphores /\ s # None
      /\ Cardinality(Inside) = MaxConcurrent
      /\ \A u \in Tasks : pc[u] # "out" => loop[u] = l
      /\ \A u \in Tasks : pc[u] = "waiting" => s = semaphore
  BY <1>1, SemaphoreForFacts, FiniteInside
<1>3. semaphore' = s /\ madeFor' = l /\ value' = [value EXCEPT ![s] = 0]
  BY <1>1 DEF Block, Keep
<1>4. \/ /\ pc' = [pc EXCEPT ![t] = "waiting"] /\ loop' = [loop EXCEPT ![t] = l]
         /\ waitsFor' = [waitsFor EXCEPT ![t] = s]
      \/ pc' = pc /\ loop' = loop /\ waitsFor' = waitsFor
  BY DEF Block
<1> HIDE DEF s
<1>5. SlotTypes'
  BY <1>2, <1>3, <1>4 DEF SlotsInv, SlotTypes
<1>6. AtCurrent'
  BY <1>1, <1>2, <1>3, <1>4, BulkheadAssumption DEF SlotsInv, SlotTypes, AtCurrent
<1>7. Inside' = Inside
  BY <1>1, <1>4 DEF Inside, SlotsInv, SlotTypes
<1>8. value'[s] = 0
  BY <1>2, <1>3 DEF SlotsInv, SlotTypes
<1>9. QED
  BY <1>2, <1>3, <1>5, <1>6, <1>7, <1>8, BulkheadAssumption
  DEF SlotsInv, SlotsConserved, NobodyYet

LEMMA GrantedKeeps == ASSUME SlotsInv, NEW t \in Tasks, Granted(t) PROVE SlotsInv'
<1>1. pc[t] = "waiting" /\ waitsFor[t] = semaphore /\ semaphore # None /\ semaphore \in Semaphores
  BY DEF Granted, SlotsInv, AtCurrent, SlotTypes
<1>2. value[semaphore] > 0 /\ value[semaphore] \in Nat
  BY <1>1 DEF Granted, SlotsInv, SlotTypes
<1>3. /\ value' = [value EXCEPT ![semaphore] = value[semaphore] - 1]
      /\ pc' = [pc EXCEPT ![t] = "inside"] /\ waitsFor' = [waitsFor EXCEPT ![t] = None]
      /\ UNCHANGED <<semaphore, madeFor, loop>>
  BY <1>1 DEF Granted
<1>4. SlotTypes'
  BY <1>1, <1>2, <1>3 DEF SlotsInv, SlotTypes
<1>5. AtCurrent'
  BY <1>1, <1>3 DEF SlotsInv, SlotTypes, AtCurrent
<1>6. Cardinality(Inside') = Cardinality(Inside) + 1
  BY <1>1, <1>3, OneMoreInside DEF SlotsInv, SlotTypes
<1>7. value'[semaphore] = value[semaphore] - 1
  BY <1>1, <1>3 DEF SlotsInv, SlotTypes
<1>8. SlotsConserved'
  BY <1>1, <1>2, <1>3, <1>6, <1>7, FiniteInside DEF SlotsInv, SlotsConserved
<1>9. QED BY <1>1, <1>3, <1>4, <1>5, <1>8 DEF SlotsInv, NobodyYet

LEMMA TimedOutKeeps == ASSUME SlotsInv, NEW t \in Tasks, TimedOut(t) PROVE SlotsInv'
<1>1. /\ pc[t] = "waiting" /\ pc' = [pc EXCEPT ![t] = "out"]
      /\ loop' = [loop EXCEPT ![t] = None] /\ waitsFor' = [waitsFor EXCEPT ![t] = None]
      /\ UNCHANGED <<semaphore, madeFor, value>>
  BY DEF TimedOut, CanTimeOut, Abandon
<1>2. SlotTypes'
  BY <1>1 DEF SlotsInv, SlotTypes
<1>3. AtCurrent'
  BY <1>1 DEF SlotsInv, SlotTypes, AtCurrent
<1>4. Inside' = Inside
  BY <1>1 DEF Inside, SlotsInv, SlotTypes
<1>5. QED BY <1>1, <1>2, <1>3, <1>4 DEF SlotsInv, SlotsConserved, NobodyYet

LEMMA ReleaseKeeps == ASSUME SlotsInv, NEW t \in Tasks, Release(t) PROVE SlotsInv'
<1>1. /\ pc[t] = "inside" /\ pc' = [pc EXCEPT ![t] = "out"]
      /\ loop' = [loop EXCEPT ![t] = None]
      /\ value' = [value EXCEPT ![semaphore] = value[semaphore] + 1]
      /\ UNCHANGED <<semaphore, madeFor, waitsFor>>
  BY DEF Release
<1>2. semaphore \in Semaphores /\ semaphore # None /\ value[semaphore] \in Nat
  BY <1>1 DEF SlotsInv, AtCurrent, SlotTypes
<1>3. SlotTypes'
  BY <1>1, <1>2 DEF SlotsInv, SlotTypes
<1>4. AtCurrent'
  BY <1>1 DEF SlotsInv, SlotTypes, AtCurrent
<1>5. Cardinality(Inside') = Cardinality(Inside) - 1
  BY <1>1, OneLessInside DEF SlotsInv, SlotTypes
<1>6. value'[semaphore] = value[semaphore] + 1
  BY <1>1, <1>2 DEF SlotsInv, SlotTypes
<1>7. SlotsConserved'
  BY <1>1, <1>2, <1>5, <1>6, FiniteInside DEF SlotsInv, SlotsConserved
<1>8. QED BY <1>1, <1>2, <1>3, <1>4, <1>7 DEF SlotsInv, NobodyYet

LEMMA SlotsKept == ASSUME SlotsInv, ~Overlap, [Next]_vars PROVE SlotsInv'
<1>1. CASE UNCHANGED vars
  BY <1>1
  DEF vars, SlotsInv, SlotTypes, AtCurrent, NobodyYet, SlotsConserved, Inside
<1>2. QED
  BY <1>1, EnterKeeps, BlockKeeps, GrantedKeeps, TimedOutKeeps, ReleaseKeeps DEF Next

-----------------------------------------------------------------------------
(* Requests. *)

\* The stages at which a request has a slot; the application runs in two of them.
WithSlot == {"app", "stopping", "retrying"}

RequestTypes ==
  /\ stage \in [Tasks -> {"idle", "arriving", "app", "stopping", "asleep", "requeued",
                          "retrying", "unavailable", "over"}]
  /\ home \in [Tasks -> Loops \cup {None}]
  /\ pc \in [Tasks -> {"out", "waiting", "inside"}]
  /\ begun \in [Tasks -> BOOLEAN]
  /\ starts \in [Tasks -> Nat]
  /\ spoiled \in [Tasks -> Nat]

\* The places of a request and of its task in the bulkhead agree.
InStep ==
  \A t \in Tasks :
    /\ stage[t] \in WithSlot => pc[t] = "inside"
    /\ pc[t] = "waiting" => stage[t] \in {"arriving", "requeued"}

HasHome == \A t \in Tasks : stage[t] # "idle" => home[t] \in Loops

\* The responses begun are those of attempts that failed, and the one of the present
\* attempt; only a request that is over may have had one more.
ResponsesAccounted ==
  \A t \in Tasks :
    /\ stage[t] # "over" => starts[t] <= spoiled[t] + (IF begun[t] THEN 1 ELSE 0)
    /\ begun[t] => InApp(t)
    /\ starts[t] <= spoiled[t] + 1

RequestInv == RequestTypes /\ InStep /\ HasHome /\ ResponsesAccounted

\* What a step of one request leaves alone.
OthersStay(t) ==
  \A u \in Tasks \ {t} :
    /\ stage'[u] = stage[u] /\ begun'[u] = begun[u]
    /\ starts'[u] = starts[u] /\ spoiled'[u] = spoiled[u]
    /\ pc'[u] = pc[u] /\ home'[u] = home[u]

\* Where a step may leave its own request.
Lands(t) ==
  /\ stage'[t] # "idle" => home'[t] \in Loops
  /\ stage'[t] \in WithSlot => pc'[t] = "inside"
  /\ pc'[t] = "waiting" => stage'[t] \in {"arriving", "requeued"}
  /\ stage'[t] # "over" => starts'[t] <= spoiled'[t] + (IF begun'[t] THEN 1 ELSE 0)
  /\ begun'[t] => stage'[t] \in {"app", "stopping"}
  /\ starts'[t] <= spoiled'[t] + 1

LEMMA RequestKept ==
  ASSUME RequestInv, NEW t \in Tasks, RequestTypes', OthersStay(t), Lands(t)
  PROVE  RequestInv'
<1>1. InStep'
  BY DEF RequestInv, InStep, OthersStay, Lands
<1>2. ResponsesAccounted'
  BY DEF RequestInv, ResponsesAccounted, OthersStay, Lands, InApp
<1>3. HasHome'
  BY DEF RequestInv, HasHome, OthersStay, Lands
<1>4. QED BY <1>1, <1>2, <1>3 DEF RequestInv

LEMMA RequestInitially == MwInit => RequestInv
BY DEF MwInit, Init, RequestInv, RequestTypes, InStep, HasHome, ResponsesAccounted, WithSlot, InApp

\* The bulkhead under the middleware takes its own steps only.
LEMMA StepBelow == ASSUME RequestInv, [MwNext]_mwVars PROVE [Next]_vars
<1>1. ASSUME NEW t \in Tasks, NEW l \in Loops, NEW queue, Acquire(t, l, queue) PROVE Next
  BY <1>1 DEF Acquire, Next
<1>2. ASSUME NEW t \in Tasks, NEW l \in Loops, Arrive(t, l) PROVE [Next]_vars
  BY <1>1, <1>2 DEF Arrive
<1>3. ASSUME NEW t \in Tasks, Proceeds(t) PROVE [Next]_vars
  <2>1. CASE Wakes(t)
    <3>1. home[t] \in Loops
      BY <2>1 DEF Wakes, RequestInv, HasHome
    <3>2. QED BY <1>1, <2>1, <3>1 DEF Wakes
  <2>2. CASE Admitted(t) \/ TurnedAway(t)
    BY <2>2 DEF Admitted, TurnedAway, Next
  <2>3. CASE Recheck(t) \/ TooLate(t) \/ Stops(t)
    BY <2>3 DEF Recheck, TooLate, Stops, Fails, Next
  <2>4. CASE Disturbed(t) \/ Retry(t) \/ TellToStop(t) \/ Send503(t) \/ Gone(t)
    BY <2>4 DEF Disturbed, Retry, TellToStop, Send503, Gone
  <2>5. QED BY <1>3, <2>1, <2>2, <2>3, <2>4 DEF Proceeds
<1>4. ASSUME NEW t \in Tasks, AppBegins(t) \/ AppReturns(t) \/ AppRaises(t)
      PROVE  [Next]_vars
  BY <1>4 DEF AppBegins, AppReturns, AppRaises, Fails, Next
<1>5. QED BY <1>2, <1>3, <1>4 DEF MwNext, mwVars

-----------------------------------------------------------------------------
(* The steps of a request. *)

LEMMA AcquireKeeps ==
  ASSUME RequestInv, NEW t \in Tasks, NEW l \in Loops,
         NEW queue \in {"arriving", "requeued"}, Acquire(t, l, queue),
         stage[t] \in {"idle", "asleep"}, UNCHANGED <<begun, starts, spoiled>>,
         home' = home \/ home' = [home EXCEPT ![t] = l],
         home'[t] \in Loops
  PROVE  RequestInv'
<1>1. \/ /\ pc' = [pc EXCEPT ![t] = "inside"]
         /\ \E place \in {"app", "retrying"} : stage' = [stage EXCEPT ![t] = place]
      \/ pc' = [pc EXCEPT ![t] = "waiting"] /\ stage' = [stage EXCEPT ![t] = queue]
      \/ pc' = pc /\ pc[t] = "out" /\ stage' = [stage EXCEPT ![t] = "over"]
  BY DEF Acquire, Enter, Block, Wins, Goes, GoesAt
<1>2. RequestTypes'
  BY <1>1 DEF RequestInv, RequestTypes
<1>3. OthersStay(t)
  BY <1>1 DEF OthersStay, RequestInv, RequestTypes
<1>4. Lands(t)
  BY <1>1
  DEF Lands, RequestInv, RequestTypes, InStep, ResponsesAccounted, WithSlot, InApp
<1>5. QED BY <1>2, <1>3, <1>4, RequestKept

\* A request with a slot goes on with it.
LEMMA StayKeeps ==
  ASSUME RequestInv, NEW t \in Tasks,
         NEW place \in {"app", "stopping"}, stage[t] \in {"app", "retrying"},
         stage' = [stage EXCEPT ![t] = place], UNCHANGED <<pc, home, begun, starts, spoiled>>
  PROVE  RequestInv'
<1>1. RequestTypes'
  BY DEF RequestInv, RequestTypes, WithSlot
<1>2. OthersStay(t)
  BY DEF OthersStay, RequestInv, RequestTypes
<1>3. Lands(t)
  BY DEF Lands, RequestInv, RequestTypes, InStep, HasHome, ResponsesAccounted, WithSlot, InApp
<1>4. QED BY <1>1, <1>2, <1>3, RequestKept

\* A request leaves for a stage without a slot, and owns up to the response it had begun.
LEMMA LeaveKeeps ==
  ASSUME RequestInv, NEW t \in Tasks, NEW place \in {"asleep", "unavailable", "over"},
         stage[t] \notin {"idle", "over"}, stage' = [stage EXCEPT ![t] = place],
         \/ begun[t] = FALSE /\ UNCHANGED <<begun, spoiled>>
         \/ Spoils(t)
         \/ place = "over" /\ begun' = [begun EXCEPT ![t] = FALSE] /\ UNCHANGED spoiled,
         pc' = [pc EXCEPT ![t] = "out"] \/ (pc' = pc /\ pc[t] # "waiting"),
         UNCHANGED <<home, starts>>
  PROVE  RequestInv'
<1>1. /\ begun' \in [Tasks -> BOOLEAN] /\ begun'[t] = FALSE
      /\ spoiled' \in [Tasks -> Nat]
      /\ starts[t] <= spoiled'[t] + 1
      /\ place # "over" => starts[t] <= spoiled'[t]
      /\ \A u \in Tasks \ {t} : begun'[u] = begun[u] /\ spoiled'[u] = spoiled[u]
  <2>1. /\ starts[t] \in Nat /\ spoiled[t] \in Nat /\ begun[t] \in BOOLEAN
        /\ starts[t] <= spoiled[t] + (IF begun[t] THEN 1 ELSE 0)
        /\ begun \in [Tasks -> BOOLEAN] /\ spoiled \in [Tasks -> Nat]
    BY DEF RequestInv, RequestTypes, ResponsesAccounted
  <2>2. CASE begun[t] = FALSE /\ UNCHANGED <<begun, spoiled>>
    BY <2>1, <2>2
  <2>3. CASE Spoils(t)
    BY <2>1, <2>3 DEF Spoils
  <2>4. CASE place = "over" /\ begun' = [begun EXCEPT ![t] = FALSE] /\ UNCHANGED spoiled
    BY <2>1, <2>4
  <2>5. QED BY <2>2, <2>3, <2>4
<1>2. stage'[t] = place /\ starts'[t] = starts[t] /\ home'[t] \in Loops /\ pc'[t] # "waiting"
  BY DEF RequestInv, RequestTypes, HasHome
<1>3. RequestTypes'
  BY <1>1 DEF RequestInv, RequestTypes
<1>4. OthersStay(t)
  BY <1>1 DEF OthersStay, RequestInv, RequestTypes
<1>5. Lands(t)
  BY <1>1, <1>2 DEF Lands, WithSlot
<1>6. QED BY <1>3, <1>4, <1>5, RequestKept

\* Outside of the application nothing has been begun.
LEMMA NothingBegun ==
  ASSUME RequestInv, NEW t \in Tasks, ~InApp(t) PROVE begun[t] = FALSE
BY DEF RequestInv, RequestTypes, ResponsesAccounted

LEMMA FailsKeeps ==
  ASSUME RequestInv, NEW t \in Tasks, stage[t] \in WithSlot,
         NEW ends \in SUBSET {"over", "unavailable"}, Fails(t, ends)
  PROVE  RequestInv'
<1>1. PICK place \in {"asleep", "over", "unavailable"} : stage' = [stage EXCEPT ![t] = place]
  BY DEF Fails, Goes, GoesAt
<1>2. Spoils(t) /\ begun'[t] = FALSE
  BY DEF Fails, Spoils, RequestInv, RequestTypes
<1>3. pc' = [pc EXCEPT ![t] = "out"] /\ UNCHANGED <<home, starts>>
  BY DEF Fails, Release
<1>4. QED BY <1>1, <1>2, <1>3, LeaveKeeps DEF WithSlot

LEMMA ArriveKeeps ==
  ASSUME RequestInv, NEW t \in Tasks, NEW l \in Loops, Arrive(t, l)
  PROVE  RequestInv'
<1>1. /\ stage[t] = "idle" /\ home' = [home EXCEPT ![t] = l] /\ home'[t] \in Loops
      /\ UNCHANGED <<begun, starts, spoiled>>
  BY DEF Arrive, RequestInv, RequestTypes
<1>2. CASE Acquire(t, l, "arriving")
  BY <1>1, <1>2, AcquireKeeps
<1>3. ASSUME NEW place \in {"unavailable", "over"}, Goes(t, place), UNCHANGED vars
      PROVE  RequestInv'
  <2>1. stage' = [stage EXCEPT ![t] = place] /\ pc' = pc /\ ~InApp(t)
    BY <1>1, <1>3 DEF Goes, GoesAt, vars, InApp
  <2>2. RequestTypes'
    BY <1>1, <2>1 DEF RequestInv, RequestTypes
  <2>3. OthersStay(t)
    BY <1>1, <2>1 DEF OthersStay, RequestInv, RequestTypes
  <2>4. Lands(t)
    BY <1>1, <2>1
    DEF Lands, RequestInv, RequestTypes, InStep, ResponsesAccounted, WithSlot, InApp
  <2>5. QED BY <2>2, <2>3, <2>4, RequestKept
<1>4. QED BY <1>2, <1>3 DEF Arrive

LEMMA ProceedsKeeps ==
  ASSUME RequestInv, NEW t \in Tasks, Proceeds(t)
  PROVE  RequestInv'
<1>1. CASE Wakes(t)
  <2>1. stage[t] = "asleep" /\ home[t] \in Loops /\ UNCHANGED <<home, begun, starts, spoiled>>
    BY <1>1 DEF Wakes, RequestInv, HasHome
  <2>2. Acquire(t, home[t], "requeued")
    BY <1>1 DEF Wakes
  <2>3. QED BY <2>1, <2>2, AcquireKeeps
<1>2. CASE Disturbed(t)
  <2>1. /\ stage[t] = "asleep" /\ stage' = [stage EXCEPT ![t] = "over"]
        /\ UNCHANGED <<home, begun, starts, spoiled, pc>>
    BY <1>2 DEF Disturbed, Goes, GoesAt, vars
  <2>2. pc[t] # "waiting" /\ begun[t] = FALSE
    BY <2>1, NothingBegun DEF RequestInv, InStep, InApp
  <2>3. QED BY <2>1, <2>2, LeaveKeeps
<1>3. CASE Admitted(t)
  <2>1. /\ pc[t] = "waiting" /\ pc' = [pc EXCEPT ![t] = "inside"]
        /\ UNCHANGED <<home, begun, starts, spoiled>>
        /\ \E place \in {"app", "retrying"} : stage' = [stage EXCEPT ![t] = place]
    BY <1>3 DEF Admitted, Granted, Wins, Goes, GoesAt
  <2>2. RequestTypes' /\ OthersStay(t)
    BY <2>1 DEF OthersStay, RequestInv, RequestTypes
  <2>3. Lands(t)
    BY <2>1
    DEF Lands, RequestInv, RequestTypes, InStep, HasHome, ResponsesAccounted, WithSlot, InApp
  <2>4. QED BY <2>2, <2>3, RequestKept
<1>4. CASE TurnedAway(t)
  <2>1. /\ pc[t] = "waiting" /\ pc' = [pc EXCEPT ![t] = "out"]
        /\ stage' = [stage EXCEPT ![t] = "over"]
        /\ UNCHANGED <<home, begun, starts, spoiled>>
    BY <1>4 DEF TurnedAway, TimedOut, CanTimeOut, Goes, GoesAt
  <2>2. stage[t] \in {"arriving", "requeued"} /\ begun[t] = FALSE
    BY <2>1, NothingBegun DEF RequestInv, InStep, InApp
  <2>3. QED BY <2>1, <2>2, LeaveKeeps
<1>5. CASE Recheck(t)
  <2>1. /\ stage[t] = "retrying" /\ pc' = [pc EXCEPT ![t] = "out"]
        /\ UNCHANGED <<home, begun, starts, spoiled>>
        /\ \E place \in {"over", "unavailable"} : stage' = [stage EXCEPT ![t] = place]
    BY <1>5 DEF Recheck, Release, Goes, GoesAt
  <2>2. QED BY <2>1, NothingBegun, LeaveKeeps DEF InApp
<1>6. CASE Retry(t) \/ TellToStop(t)
  <2>1. /\ UNCHANGED <<home, begun, starts, spoiled, pc>>
        /\ \/ stage[t] = "retrying" /\ stage' = [stage EXCEPT ![t] = "app"]
           \/ stage[t] = "app" /\ stage' = [stage EXCEPT ![t] = "stopping"]
    BY <1>6 DEF Retry, TellToStop, Goes, GoesAt, vars
  <2>2. QED BY <2>1, StayKeeps DEF WithSlot
<1>7. CASE TooLate(t)
  BY <1>7, FailsKeeps DEF TooLate, WithSlot
<1>8. CASE Stops(t)
  <2>1. CASE Fails(t, {"over"})
    BY <1>8, <2>1, FailsKeeps DEF Stops, WithSlot
  <2>2. CASE Release(t) /\ Spoils(t) /\ Goes(t, "over") /\ UNCHANGED <<home, starts>>
    <3>1. /\ stage[t] = "stopping" /\ stage' = [stage EXCEPT ![t] = "over"]
          /\ pc' = [pc EXCEPT ![t] = "out"] /\ begun'[t] = FALSE
      BY <1>8, <2>2 DEF Stops, Release, Spoils, Goes, GoesAt, RequestInv, RequestTypes
    <3>2. QED BY <2>2, <3>1, LeaveKeeps
  <2>3. QED BY <1>8, <2>1, <2>2 DEF Stops
<1>9. CASE Send503(t)
  <2>1. /\ stage[t] = "unavailable" /\ stage' = [stage EXCEPT ![t] = "over"]
        /\ starts' = [starts EXCEPT ![t] = @ + 1] /\ UNCHANGED <<home, begun, spoiled, pc>>
    BY <1>9 DEF Send503, Goes, GoesAt, vars
  <2>2. RequestTypes' /\ OthersStay(t)
    BY <2>1 DEF OthersStay, RequestInv, RequestTypes
  <2>3. Lands(t)
    BY <2>1, NothingBegun
    DEF Lands, RequestInv, RequestTypes, InStep, HasHome, ResponsesAccounted, WithSlot, InApp
  <2>4. QED BY <2>2, <2>3, RequestKept
<1>10. CASE Gone(t)
  <2>1. /\ stage[t] = "over" /\ stage' = [stage EXCEPT ![t] = "idle"]
        /\ home' = [home EXCEPT ![t] = None]
        /\ starts' = [starts EXCEPT ![t] = 0] /\ spoiled' = [spoiled EXCEPT ![t] = 0]
        /\ UNCHANGED <<begun, pc>>
    BY <1>10 DEF Gone, Goes, GoesAt, vars
  <2>2. RequestTypes' /\ OthersStay(t)
    BY <2>1 DEF OthersStay, RequestInv, RequestTypes
  <2>3. starts'[t] = 0 /\ spoiled'[t] = 0 /\ stage'[t] = "idle" /\ begun'[t] = FALSE
    BY <2>1, NothingBegun DEF RequestInv, RequestTypes, InApp
  <2>4. Lands(t)
    BY <2>1, <2>3 DEF Lands, RequestInv, InStep, WithSlot
  <2>5. QED BY <2>2, <2>4, RequestKept
<1>11. QED
  BY <1>1, <1>2, <1>3, <1>4, <1>5, <1>6, <1>7, <1>8, <1>9, <1>10 DEF Proceeds

LEMMA AppKeeps ==
  ASSUME RequestInv, NEW t \in Tasks, AppBegins(t) \/ AppReturns(t) \/ AppRaises(t)
  PROVE  RequestInv'
<1>1. CASE AppBegins(t)
  <2>1. /\ InApp(t) /\ begun[t] = FALSE /\ begun' = [begun EXCEPT ![t] = TRUE]
        /\ starts' = [starts EXCEPT ![t] = @ + 1]
        /\ UNCHANGED <<pc, stage, home, spoiled>>
    BY <1>1 DEF AppBegins, vars, RequestInv, RequestTypes
  <2>2. RequestTypes' /\ OthersStay(t)
    BY <2>1 DEF OthersStay, RequestInv, RequestTypes
  <2>3. Lands(t)
    BY <2>1
    DEF Lands, RequestInv, RequestTypes, InStep, HasHome, ResponsesAccounted, WithSlot, InApp
  <2>4. QED BY <2>2, <2>3, RequestKept
<1>2. CASE AppReturns(t)
  <2>1. /\ stage[t] \in WithSlot /\ stage' = [stage EXCEPT ![t] = "over"]
        /\ begun' = [begun EXCEPT ![t] = FALSE] /\ begun'[t] = FALSE
        /\ pc' = [pc EXCEPT ![t] = "out"] /\ UNCHANGED <<home, starts, spoiled>>
    BY <1>2 DEF AppReturns, Release, Goes, GoesAt, InApp, WithSlot, RequestInv, RequestTypes
  <2>2. QED BY <2>1, LeaveKeeps DEF WithSlot
<1>3. CASE AppRaises(t)
  BY <1>3, FailsKeeps DEF AppRaises, InApp, WithSlot
<1>4. QED BY <1>1, <1>2, <1>3

-----------------------------------------------------------------------------
(* The places of the bulkhead, whether or not event loops overlap. *)

\* Who has a place, or will have one, that the current semaphore does not count.
Entitled ==
  {t \in Tasks : pc[t] = "inside" \/ (pc[t] = "waiting" /\ waitsFor[t] # semaphore)}

\* A task that was let in by another semaphore gives its place to the current one: it may
\* grow, but by no more than one place for each task.
PlacesBounded ==
  semaphore # None =>
    value[semaphore] + Cardinality(Entitled) <= MaxConcurrent + Cardinality(Tasks)

WaitersWait ==
  /\ \A t \in Tasks : waitsFor[t] # None <=> pc[t] = "waiting"
  /\ semaphore = None => \A t \in Tasks : pc[t] = "out"

PlacesInv == TypeOK /\ WaitersWait /\ PlacesBounded

LEMMA TaskSets ==
  /\ \A S \in SUBSET Tasks :
       IsFiniteSet(S) /\ Cardinality(S) \in Nat /\ Cardinality(S) <= Cardinality(Tasks)
  /\ Cardinality(Tasks) \in Nat
  /\ MaxConcurrent \in Nat \ {0}
<1>1. IsFiniteSet(Tasks) /\ MaxConcurrent \in Nat \ {0}
  BY BulkheadAssumption
<1>2. ASSUME NEW S \in SUBSET Tasks
      PROVE  IsFiniteSet(S) /\ Cardinality(S) \in Nat /\ Cardinality(S) <= Cardinality(Tasks)
  BY <1>1, FS_Subset, FS_CardinalityType
<1>3. QED BY <1>1, <1>2, FS_CardinalityType

\* There are more semaphores than the tasks can wait for.
LEMMA FreshSemaphore ==
  ASSUME PlacesInv
  PROVE  /\ NewSemaphore \in Semaphores
         /\ NewSemaphore # semaphore
         /\ \A t \in Tasks : waitsFor[t] # NewSemaphore
<1> DEFINE Others == Semaphores \ {semaphore}
           waiter == [s \in Others |-> CHOOSE t \in Tasks : waitsFor[t] = s]
<1>1. Cardinality(Tasks) \in Nat /\ IsFiniteSet(Tasks)
  BY TaskSets
<1>2. IsFiniteSet(Semaphores) /\ Cardinality(Semaphores) = Cardinality(Tasks) + 2
  BY <1>1, FS_Interval DEF Semaphores
<1>3. IsFiniteSet(Others) /\ Cardinality(Tasks) < Cardinality(Others)
  BY <1>1, <1>2, FS_RemoveElement
<1>4. \E s \in Others : \A t \in Tasks : waitsFor[t] # s
  <2> SUFFICES ASSUME \A s \in Others : \E t \in Tasks : waitsFor[t] = s PROVE FALSE
    OBVIOUS
  <2>1. \A s \in Others : waiter[s] \in Tasks /\ waitsFor[waiter[s]] = s
    OBVIOUS
  <2>2. waiter \in [Others -> Tasks]
    BY <2>1
  <2> HIDE DEF waiter, Others
  <2>3. \E x, y \in Others : x # y /\ waiter[x] = waiter[y]
    BY <1>1, <1>3, <2>2, FS_PigeonHole
  <2>4. QED BY <2>1, <2>3
<1>5. QED BY <1>4 DEF NewSemaphore

\* The semaphore for a loop, and the places it has left.
LEMMA SemaphoreForAny ==
  ASSUME PlacesInv, NEW l \in Loops
  PROVE  /\ SemaphoreFor(l) \in Semaphores /\ SemaphoreFor(l) # None
         /\ SlotsLeft(l) \in Nat /\ SlotsLeft(l) <= MaxConcurrent + Cardinality(Tasks)
<1>1. CASE MustRenew(l)
  BY <1>1, FreshSemaphore, SemaphoresAreNumbers, TaskSets DEF SemaphoreFor, SlotsLeft
<1>2. CASE ~MustRenew(l)
  BY <1>2, SemaphoresAreNumbers, TaskSets
  DEF SemaphoreFor, SlotsLeft, MustRenew, PlacesInv, TypeOK
<1>3. QED BY <1>1, <1>2

LEMMA PlacesInitially == Init => PlacesInv
BY SemaphoresAreNumbers, TaskSets DEF Init, PlacesInv, TypeOK, WaitersWait, PlacesBounded

LEMMA EnterKeepsPlaces ==
  ASSUME PlacesInv, NEW t \in Tasks, NEW l \in Loops, Enter(t, l)
  PROVE  PlacesInv'
<1> DEFINE s == SemaphoreFor(l)
           left == SlotsLeft(l)
<1>1. /\ semaphore' = s /\ madeFor' = l /\ value' = [value EXCEPT ![s] = left - 1]
      /\ pc' = [pc EXCEPT ![t] = "inside"] /\ loop' = [loop EXCEPT ![t] = l]
      /\ waitsFor' = waitsFor /\ pc[t] = "out" /\ left > 0
  BY DEF Enter, Keep
<1>2. /\ s \in Semaphores /\ s # None /\ left \in Nat
      /\ left <= MaxConcurrent + Cardinality(Tasks)
  BY SemaphoreForAny
<1>3. Cardinality(Tasks) \in Nat /\ MaxConcurrent \in Nat
  BY TaskSets
<1>4. left - 1 \in 0..(MaxConcurrent + Cardinality(Tasks))
  <2> HIDE DEF left
  <2>1. QED BY <1>1, <1>2, <1>3
<1>5. TypeOK' /\ value'[s] = left - 1
  BY <1>1, <1>2, <1>4 DEF PlacesInv, TypeOK
<1>6. WaitersWait'
  BY <1>1, <1>2 DEF PlacesInv, TypeOK, WaitersWait
<1>7. value'[s] + Cardinality(Entitled') <= MaxConcurrent + Cardinality(Tasks)
  <2>1. CASE MustRenew(l)
    <3>1. left = MaxConcurrent
      BY <2>1 DEF SlotsLeft
    <3>2. Cardinality(Entitled') \in Nat /\ Cardinality(Entitled') <= Cardinality(Tasks)
      BY TaskSets DEF Entitled
    <3>3. QED BY <1>3, <1>5, <3>1, <3>2
  <2>2. CASE ~MustRenew(l)
    <3>1. s = semaphore /\ semaphore # None /\ left = value[semaphore]
      BY <1>2, <2>2 DEF SemaphoreFor, SlotsLeft
    <3>2. Entitled' = Entitled \cup {t} /\ t \notin Entitled
      BY <1>1, <3>1 DEF Entitled, PlacesInv, TypeOK
    <3>3. Cardinality(Entitled') = Cardinality(Entitled) + 1 /\ Cardinality(Entitled) \in Nat
      BY <3>2, TaskSets, FS_AddElement DEF Entitled
    <3>4. left + Cardinality(Entitled) <= MaxConcurrent + Cardinality(Tasks)
      BY <3>1 DEF PlacesInv, PlacesBounded
    <3> HIDE DEF left
    <3>5. QED BY <1>2, <1>3, <1>5, <3>3, <3>4
  <2>3. QED BY <2>1, <2>2
<1>8. PlacesBounded'
  BY <1>1, <1>7 DEF PlacesBounded
<1>9. QED BY <1>5, <1>6, <1>8 DEF PlacesInv

LEMMA BlockKeepsPlaces ==
  ASSUME PlacesInv, NEW t \in Tasks, NEW l \in Loops, Block(t, l)
  PROVE  PlacesInv'
<1>1. SlotsLeft(l) = 0 /\ Keep(l, 0) /\ pc[t] = "out"
  BY DEF Block
<1>2. ~MustRenew(l)
  BY <1>1, TaskSets DEF SlotsLeft
<1>3. /\ SemaphoreFor(l) = semaphore /\ semaphore # None /\ semaphore \in Semaphores
      /\ value[semaphore] = 0
  BY <1>1, <1>2 DEF SlotsLeft, SemaphoreFor, MustRenew, PlacesInv, TypeOK
<1>4. semaphore' = semaphore /\ madeFor' = l /\ value' = value
  BY <1>1, <1>3 DEF Keep, PlacesInv, TypeOK
<1>5. \/ UNCHANGED <<pc, loop, waitsFor>>
      \/ /\ pc' = [pc EXCEPT ![t] = "waiting"] /\ loop' = [loop EXCEPT ![t] = l]
         /\ waitsFor' = [waitsFor EXCEPT ![t] = semaphore]
  BY <1>3 DEF Block
<1>6. TypeOK'
  BY <1>3, <1>4, <1>5 DEF PlacesInv, TypeOK
<1>7. WaitersWait'
  BY <1>3, <1>4, <1>5 DEF PlacesInv, TypeOK, WaitersWait
<1>8. Entitled' = Entitled
  BY <1>1, <1>3, <1>4, <1>5 DEF Entitled, PlacesInv, TypeOK
<1>9. PlacesBounded'
  BY <1>4, <1>8 DEF PlacesInv, PlacesBounded
<1>10. QED BY <1>6, <1>7, <1>9 DEF PlacesInv

LEMMA GrantedKeepsPlaces == ASSUME PlacesInv, NEW t \in Tasks, Granted(t) PROVE PlacesInv'
<1> DEFINE s == waitsFor[t]
<1>1. /\ pc[t] = "waiting" /\ value[s] > 0
      /\ value' = [value EXCEPT ![s] = value[s] - 1]
      /\ pc' = [pc EXCEPT ![t] = "inside"] /\ waitsFor' = [waitsFor EXCEPT ![t] = None]
      /\ UNCHANGED <<semaphore, madeFor, loop>>
  BY DEF Granted
<1>2. s \in Semaphores /\ s # None /\ semaphore # None
  BY <1>1 DEF PlacesInv, TypeOK, WaitersWait
<1>3. /\ value[s] \in 0..(MaxConcurrent + Cardinality(Tasks))
      /\ Cardinality(Tasks) \in Nat /\ MaxConcurrent \in Nat
  BY <1>2, TaskSets DEF PlacesInv, TypeOK
<1>4. value[s] - 1 \in 0..(MaxConcurrent + Cardinality(Tasks))
  BY <1>1, <1>3
<1>5. TypeOK'
  BY <1>1, <1>4 DEF PlacesInv, TypeOK
<1>6. WaitersWait'
  BY <1>1, <1>2 DEF PlacesInv, TypeOK, WaitersWait
<1>7. value[semaphore] + Cardinality(Entitled) <= MaxConcurrent + Cardinality(Tasks)
  BY <1>2 DEF PlacesInv, PlacesBounded
<1>8. value'[semaphore] + Cardinality(Entitled') <= MaxConcurrent + Cardinality(Tasks)
  <2>1. CASE s = semaphore
    <3>1. Entitled' = Entitled \cup {t} /\ t \notin Entitled
      BY <1>1, <2>1 DEF Entitled, PlacesInv, TypeOK
    <3>2. Cardinality(Entitled') = Cardinality(Entitled) + 1 /\ Cardinality(Entitled) \in Nat
      BY <3>1, TaskSets, FS_AddElement DEF Entitled
    <3>3. value'[semaphore] = value[semaphore] - 1 /\ value[semaphore] \in Nat
      BY <1>1, <1>2, <1>3, <2>1 DEF PlacesInv, TypeOK
    <3>4. QED BY <1>3, <1>7, <3>2, <3>3
  <2>2. CASE s # semaphore
    <3>1. Entitled' = Entitled
      BY <1>1, <2>2 DEF Entitled, PlacesInv, TypeOK
    <3>2. value'[semaphore] = value[semaphore]
      BY <1>1, <1>2, <2>2 DEF PlacesInv, TypeOK
    <3>3. QED BY <1>7, <3>1, <3>2
  <2>3. QED BY <2>1, <2>2
<1>9. PlacesBounded'
  BY <1>1, <1>8 DEF PlacesBounded
<1>10. QED BY <1>5, <1>6, <1>9 DEF PlacesInv

LEMMA TimedOutKeepsPlaces == ASSUME PlacesInv, NEW t \in Tasks, TimedOut(t) PROVE PlacesInv'
<1>1. /\ pc[t] = "waiting" /\ pc' = [pc EXCEPT ![t] = "out"]
      /\ loop' = [loop EXCEPT ![t] = None] /\ waitsFor' = [waitsFor EXCEPT ![t] = None]
      /\ UNCHANGED <<semaphore, madeFor, value>>
  BY DEF TimedOut, CanTimeOut, Abandon
<1>2. TypeOK'
  BY <1>1 DEF PlacesInv, TypeOK
<1>3. WaitersWait'
  BY <1>1 DEF PlacesInv, TypeOK, WaitersWait
<1>4. Entitled' \in SUBSET Entitled
  BY <1>1 DEF Entitled, PlacesInv, TypeOK
<1>5. IsFiniteSet(Entitled) /\ Cardinality(Entitled) \in Nat
  BY TaskSets DEF Entitled
<1>6. Cardinality(Entitled') <= Cardinality(Entitled) /\ Cardinality(Entitled') \in Nat
  BY <1>4, <1>5, FS_Subset, FS_CardinalityType
<1>7. PlacesBounded'
  <2>1. CASE semaphore = None
    BY <1>1, <2>1 DEF PlacesBounded
  <2>2. CASE semaphore # None
    <3>1. /\ value[semaphore] \in Nat /\ Cardinality(Tasks) \in Nat /\ MaxConcurrent \in Nat
          /\ value[semaphore] + Cardinality(Entitled) <= MaxConcurrent + Cardinality(Tasks)
      BY <2>2, TaskSets DEF PlacesInv, TypeOK, PlacesBounded
    <3>2. QED BY <1>1, <1>5, <1>6, <3>1 DEF PlacesBounded
  <2>3. QED BY <2>1, <2>2
<1>8. QED BY <1>2, <1>3, <1>7 DEF PlacesInv

LEMMA ReleaseKeepsPlaces == ASSUME PlacesInv, NEW t \in Tasks, Release(t) PROVE PlacesInv'
<1>1. /\ pc[t] = "inside" /\ value' = [value EXCEPT ![semaphore] = value[semaphore] + 1]
      /\ pc' = [pc EXCEPT ![t] = "out"] /\ loop' = [loop EXCEPT ![t] = None]
      /\ UNCHANGED <<semaphore, madeFor, waitsFor>>
  BY DEF Release
<1>2. semaphore \in Semaphores /\ semaphore # None
  BY <1>1 DEF PlacesInv, TypeOK, WaitersWait
<1>3. /\ value[semaphore] \in Nat /\ Cardinality(Tasks) \in Nat /\ MaxConcurrent \in Nat
      /\ value[semaphore] + Cardinality(Entitled) <= MaxConcurrent + Cardinality(Tasks)
  BY <1>2, TaskSets DEF PlacesInv, TypeOK, PlacesBounded
<1>4. Entitled' = Entitled \ {t} /\ t \in Entitled
  BY <1>1 DEF Entitled, PlacesInv, TypeOK, WaitersWait
<1>5. /\ Cardinality(Entitled') = Cardinality(Entitled) - 1
      /\ Cardinality(Entitled) \in Nat /\ Cardinality(Entitled') \in Nat
  BY <1>4, TaskSets, FS_RemoveElement DEF Entitled
<1>6. value[semaphore] + 1 \in 0..(MaxConcurrent + Cardinality(Tasks))
  BY <1>3, <1>5
<1>7. TypeOK' /\ value'[semaphore] = value[semaphore] + 1
  BY <1>1, <1>2, <1>6 DEF PlacesInv, TypeOK
<1>8. WaitersWait'
  BY <1>1, <1>2 DEF PlacesInv, TypeOK, WaitersWait
<1>9. PlacesBounded'
  BY <1>1, <1>3, <1>5, <1>7 DEF PlacesBounded
<1>10. QED BY <1>7, <1>8, <1>9 DEF PlacesInv

LEMMA PlacesKept == PlacesInv /\ [Next]_vars => PlacesInv'
<1> SUFFICES ASSUME PlacesInv, [Next]_vars PROVE PlacesInv'
  OBVIOUS
<1>1. CASE UNCHANGED vars
  BY <1>1 DEF vars, PlacesInv, TypeOK, WaitersWait, PlacesBounded, Entitled
<1>2. QED
  BY <1>1, EnterKeepsPlaces, BlockKeepsPlaces, GrantedKeepsPlaces, TimedOutKeepsPlaces,
     ReleaseKeepsPlaces DEF Next

-----------------------------------------------------------------------------
(* The attempts of a request. *)

\* Every attempt but the present one may have spoiled its response, and only a request
\* that may go on has an attempt left.
Fits(t) ==
  /\ stage[t] \in {"asleep", "requeued"} => attempt[t] < MaxAttempts /\ spoiled[t] <= attempt[t]
  /\ stage[t] \in {"idle", "arriving", "app", "stopping", "retrying"} => spoiled[t] < attempt[t]
  /\ spoiled[t] <= MaxAttempts

AttemptsInv == attempt \in [Tasks -> 1..MaxAttempts] /\ \A t \in Tasks : Fits(t)

LEMMA FitsKept ==
  ASSUME AttemptsInv, RequestInv, NEW t \in Tasks,
         NEW place, NEW n \in 1..MaxAttempts, GoesAt(t, place, n),
         spoiled' \in [Tasks -> Nat], \A u \in Tasks \ {t} : spoiled'[u] = spoiled[u],
         place \in {"asleep", "requeued"} => n < MaxAttempts /\ spoiled'[t] <= n,
         place \in {"idle", "arriving", "app", "stopping", "retrying"} => spoiled'[t] < n,
         spoiled'[t] <= MaxAttempts
  PROVE  AttemptsInv'
<1>1. MaxAttempts \in Nat \ {0}
  BY MiddlewareAssumption
<1>2. /\ stage' = [stage EXCEPT ![t] = place]
      /\ attempt' = [attempt EXCEPT ![t] = IF place \in {"unavailable", "over"} THEN 1 ELSE n]
  BY DEF GoesAt
<1>3. stage'[t] = place /\ \A u \in Tasks \ {t} : stage'[u] = stage[u]
  BY <1>2 DEF RequestInv, RequestTypes
<1>4. /\ attempt' \in [Tasks -> 1..MaxAttempts]
      /\ place \notin {"unavailable", "over"} => attempt'[t] = n
      /\ \A u \in Tasks \ {t} : attempt'[u] = attempt[u]
  BY <1>1, <1>2 DEF AttemptsInv
<1>5. Fits(t)'
  BY <1>3, <1>4 DEF Fits
<1>6. ASSUME NEW u \in Tasks \ {t} PROVE Fits(u)'
  BY <1>3, <1>4, <1>6 DEF AttemptsInv, Fits
<1>7. QED BY <1>4, <1>5, <1>6 DEF AttemptsInv

\* A step that spoils no response.
LEMMA QuietGoes ==
  ASSUME AttemptsInv, RequestInv, NEW t \in Tasks, NEW place, Goes(t, place), UNCHANGED spoiled,
         \/ place \in {"over", "unavailable"}
         \/ /\ place \in {"arriving", "app", "stopping"}
            /\ stage[t] \in {"idle", "arriving", "app", "retrying"}
         \/ place = "requeued" /\ stage[t] = "asleep"
  PROVE  AttemptsInv'
<1>1. /\ attempt[t] \in 1..MaxAttempts /\ GoesAt(t, place, attempt[t]) /\ Fits(t)
      /\ spoiled' \in [Tasks -> Nat] /\ spoiled'[t] = spoiled[t]
      /\ \A u \in Tasks \ {t} : spoiled'[u] = spoiled[u]
  BY DEF AttemptsInv, Goes, RequestInv, RequestTypes
<1>2. /\ place \in {"asleep", "requeued"} => attempt[t] < MaxAttempts /\ spoiled'[t] <= attempt[t]
      /\ place \in {"idle", "arriving", "app", "stopping", "retrying"} => spoiled'[t] < attempt[t]
      /\ spoiled'[t] <= MaxAttempts
  BY <1>1 DEF Fits
<1>3. QED BY <1>1, <1>2, FitsKept

LEMMA WinsFits ==
  ASSUME AttemptsInv, RequestInv, NEW t \in Tasks, Wins(t), UNCHANGED spoiled,
         stage[t] \in {"idle", "arriving", "asleep", "requeued"}
  PROVE  AttemptsInv'
<1>1. CASE stage[t] \in {"idle", "arriving"}
  BY <1>1, QuietGoes DEF Wins
<1>2. CASE stage[t] \in {"asleep", "requeued"}
  <2>1. GoesAt(t, "retrying", attempt[t] + 1)
    BY <1>2 DEF Wins
  <2>2. /\ attempt[t] \in 1..MaxAttempts /\ attempt[t] < MaxAttempts /\ MaxAttempts \in Nat
        /\ spoiled' \in [Tasks -> Nat] /\ spoiled'[t] = spoiled[t] /\ spoiled[t] \in Nat
        /\ spoiled[t] <= attempt[t]
        /\ \A u \in Tasks \ {t} : spoiled'[u] = spoiled[u]
    BY <1>2, MiddlewareAssumption DEF AttemptsInv, Fits, RequestInv, RequestTypes
  <2>3. /\ attempt[t] + 1 \in 1..MaxAttempts /\ spoiled'[t] < attempt[t] + 1
        /\ spoiled'[t] <= MaxAttempts
    BY <2>2
  <2>4. QED BY <2>1, <2>2, <2>3, FitsKept
<1>3. QED BY <1>1, <1>2

LEMMA AcquireFits ==
  ASSUME AttemptsInv, RequestInv, NEW t \in Tasks, NEW l, NEW queue, Acquire(t, l, queue),
         UNCHANGED spoiled,
         \/ queue = "arriving" /\ stage[t] = "idle"
         \/ queue = "requeued" /\ stage[t] = "asleep"
  PROVE  AttemptsInv'
<1>1. CASE Wins(t)
  BY <1>1, WinsFits
<1>2. CASE Goes(t, IF MayWait THEN queue ELSE "over")
  BY <1>2, QuietGoes
<1>3. QED BY <1>1, <1>2 DEF Acquire

LEMMA SpoilsFits ==
  ASSUME AttemptsInv, RequestInv, NEW t \in Tasks, Spoils(t), stage[t] \in WithSlot,
         NEW place, Goes(t, place),
         place \in {"over", "unavailable"} \/ (place = "asleep" /\ attempt[t] < MaxAttempts)
  PROVE  AttemptsInv'
<1>1. /\ spoiled' = [spoiled EXCEPT ![t] = IF begun[t] THEN spoiled[t] + 1 ELSE spoiled[t]]
      /\ GoesAt(t, place, attempt[t])
  BY DEF Spoils, Goes
<1>2. /\ attempt[t] \in 1..MaxAttempts /\ MaxAttempts \in Nat
      /\ spoiled[t] \in Nat /\ spoiled[t] < attempt[t]
  BY MiddlewareAssumption DEF AttemptsInv, Fits, WithSlot, RequestInv, RequestTypes
<1>3. /\ spoiled' \in [Tasks -> Nat]
      /\ spoiled'[t] = (IF begun[t] THEN spoiled[t] + 1 ELSE spoiled[t])
      /\ \A u \in Tasks \ {t} : spoiled'[u] = spoiled[u]
  BY <1>1 DEF RequestInv, RequestTypes
<1>4. spoiled'[t] <= attempt[t] /\ spoiled'[t] <= MaxAttempts
  BY <1>2, <1>3
<1>5. QED BY <1>1, <1>2, <1>3, <1>4, FitsKept

LEMMA FailsFits ==
  ASSUME AttemptsInv, RequestInv, NEW t \in Tasks, stage[t] \in WithSlot,
         NEW ends \in SUBSET {"over", "unavailable"}, Fails(t, ends)
  PROVE  AttemptsInv'
<1>1. Spoils(t)
  BY DEF Fails
<1>2. CASE attempt[t] < MaxAttempts /\ Goes(t, "asleep")
  BY <1>1, <1>2, SpoilsFits
<1>3. ASSUME NEW place \in ends, Goes(t, place) PROVE AttemptsInv'
  BY <1>1, <1>3, SpoilsFits
<1>4. QED BY <1>2, <1>3 DEF Fails

LEMMA AttemptsInitially == MwInit => AttemptsInv
BY MiddlewareAssumption DEF MwInit, AttemptsInv, Fits

LEMMA AttemptsStay ==
  ASSUME AttemptsInv, UNCHANGED <<stage, attempt, spoiled>> PROVE AttemptsInv'
BY DEF AttemptsInv, Fits

LEMMA ProceedsFits ==
  ASSUME AttemptsInv, RequestInv, NEW t \in Tasks, Proceeds(t)
  PROVE  AttemptsInv'
<1>1. CASE Wakes(t)
  BY <1>1, AcquireFits DEF Wakes
<1>2. CASE Disturbed(t) \/ Recheck(t) \/ TurnedAway(t) \/ Send503(t)
  BY <1>2, QuietGoes DEF Disturbed, Recheck, TurnedAway, Send503
<1>3. CASE Admitted(t)
  <2>1. stage[t] \in {"arriving", "requeued"}
    BY <1>3 DEF Admitted, Granted, RequestInv, InStep
  <2>2. QED BY <1>3, <2>1, WinsFits DEF Admitted
<1>4. CASE Retry(t) \/ TellToStop(t)
  BY <1>4, QuietGoes DEF Retry, TellToStop
<1>5. CASE TooLate(t)
  BY <1>5, FailsFits DEF TooLate, WithSlot
<1>6. CASE Stops(t)
  <2>1. CASE Fails(t, {"over"})
    BY <1>6, <2>1, FailsFits DEF Stops, WithSlot
  <2>2. CASE Spoils(t) /\ Goes(t, "over")
    BY <1>6, <2>2, SpoilsFits DEF Stops, WithSlot
  <2>3. QED BY <1>6, <2>1, <2>2 DEF Stops
<1>7. CASE Gone(t)
  <2>1. /\ GoesAt(t, "idle", attempt[t]) /\ attempt[t] \in 1..MaxAttempts
        /\ spoiled' = [spoiled EXCEPT ![t] = 0]
    BY <1>7 DEF Gone, Goes, AttemptsInv
  <2>2. /\ spoiled' \in [Tasks -> Nat] /\ spoiled'[t] = 0
        /\ \A u \in Tasks \ {t} : spoiled'[u] = spoiled[u]
    BY <2>1 DEF RequestInv, RequestTypes
  <2>3. spoiled'[t] < attempt[t] /\ spoiled'[t] <= MaxAttempts
    BY <2>1, <2>2, MiddlewareAssumption
  <2>4. QED BY <2>1, <2>2, <2>3, FitsKept
<1>8. QED BY <1>1, <1>2, <1>3, <1>4, <1>5, <1>6, <1>7 DEF Proceeds

LEMMA AttemptsKept == AttemptsInv /\ RequestInv /\ [MwNext]_mwVars => AttemptsInv'
<1> SUFFICES ASSUME AttemptsInv, RequestInv, [MwNext]_mwVars PROVE AttemptsInv'
  OBVIOUS
<1>1. ASSUME NEW t \in Tasks, NEW l \in Loops, Arrive(t, l) PROVE AttemptsInv'
  <2>1. stage[t] = "idle" /\ UNCHANGED spoiled
    BY <1>1 DEF Arrive
  <2>2. CASE Acquire(t, l, "arriving")
    BY <2>1, <2>2, AcquireFits
  <2>3. ASSUME NEW place \in {"unavailable", "over"}, Goes(t, place) PROVE AttemptsInv'
    BY <2>1, <2>3, QuietGoes
  <2>4. QED BY <1>1, <2>2, <2>3 DEF Arrive
<1>2. ASSUME NEW t \in Tasks, Proceeds(t) PROVE AttemptsInv'
  BY <1>2, ProceedsFits
<1>3. ASSUME NEW t \in Tasks, AppBegins(t) PROVE AttemptsInv'
  BY <1>3, AttemptsStay DEF AppBegins
<1>4. ASSUME NEW t \in Tasks, AppReturns(t) PROVE AttemptsInv'
  BY <1>4, QuietGoes DEF AppReturns
<1>5. ASSUME NEW t \in Tasks, AppRaises(t) PROVE AttemptsInv'
  BY <1>5, FailsFits DEF AppRaises, InApp, WithSlot
<1>6. CASE UNCHANGED mwVars
  BY <1>6, AttemptsStay DEF mwVars, request
<1>7. QED BY <1>1, <1>2, <1>3, <1>4, <1>5, <1>6 DEF MwNext

-----------------------------------------------------------------------------
(* Theorems. *)

LEMMA RequestInvariance == MwSpec => []RequestInv
<1>1. ASSUME RequestInv, UNCHANGED mwVars PROVE RequestInv'
  BY <1>1
  DEF mwVars, vars, request, RequestInv, RequestTypes, InStep, HasHome, ResponsesAccounted, InApp
<1>2. RequestInv /\ [MwNext]_mwVars => RequestInv'
  BY <1>1, ArriveKeeps, ProceedsKeeps, AppKeeps DEF MwNext
<1>3. QED BY <1>2, RequestInitially, PTL DEF MwSpec

\* The middleware takes no step of the bulkhead that a task on its own would not take: what
\* holds of Bulkhead holds under ResilientMiddleware.
THEOREM MiddlewareUsesTheBulkhead == MwSpec => Spec
<1>1. MwInit => Init
  BY DEF MwInit
<1>2. RequestInv /\ [MwNext]_mwVars => [Next]_vars
  BY StepBelow
<1>3. QED BY <1>1, <1>2, RequestInvariance, PTL DEF MwSpec, Spec

LEMMA BulkheadInvariance == ASSUME ~Overlap PROVE Spec => []SlotsInv
<1>1. SlotsInv /\ [Next]_vars => SlotsInv'
  BY SlotsKept
<1>2. QED BY <1>1, SlotsInitially, PTL DEF Spec

LEMMA SlotsInvariance == ASSUME ~Overlap PROVE MwSpec => []SlotsInv
BY BulkheadInvariance, MiddlewareUsesTheBulkhead, PTL

\* No semaphore ever has fewer places than none, or more than max_concurrent and one for
\* each task, even when event loops overlap and tasks return their places to a semaphore
\* that never counted them (AsyncBulkhead._get_semaphore, release).
THEOREM BulkheadIsAlwaysTyped == Spec => []TypeOK
<1>1. PlacesInv => TypeOK
  BY DEF PlacesInv
<1>2. QED BY <1>1, PlacesInitially, PlacesKept, PTL DEF Spec

\* A request has at most MaxAttempts attempts and begins at most one response more than
\* that (ResilientMiddleware, execute_async).
THEOREM MiddlewareIsAlwaysTyped == MwSpec => []MwTypeOK
<1>1. MwSpec => []AttemptsInv
  BY AttemptsInitially, AttemptsKept, RequestInvariance, PTL DEF MwSpec
<1>2. TypeOK /\ RequestInv /\ AttemptsInv => MwTypeOK
  <2> SUFFICES ASSUME TypeOK, RequestInv, AttemptsInv PROVE MwTypeOK
    OBVIOUS
  <2>1. ASSUME NEW t \in Tasks
        PROVE  spoiled[t] \in 0..MaxAttempts /\ starts[t] \in 0..(MaxAttempts + 1)
    <3>1. /\ spoiled[t] \in Nat /\ starts[t] \in Nat /\ MaxAttempts \in Nat
          /\ spoiled[t] <= MaxAttempts /\ starts[t] <= spoiled[t] + 1
      BY MiddlewareAssumption
      DEF RequestInv, RequestTypes, ResponsesAccounted, AttemptsInv, Fits
    <3>2. QED BY <3>1
  <2>2. spoiled \in [Tasks -> 0..MaxAttempts] /\ starts \in [Tasks -> 0..(MaxAttempts + 1)]
    BY <2>1 DEF RequestInv, RequestTypes
  <2>3. QED BY <2>2 DEF MwTypeOK, RequestInv, RequestTypes, AttemptsInv
<1>3. QED
  BY <1>1, <1>2, MiddlewareUsesTheBulkhead, BulkheadIsAlwaysTyped, RequestInvariance, PTL

\* Every slot is in the current semaphore or with a task, as long as event loops follow
\* one another: none is lost when a wait times out or the loop changes
\* (AsyncBulkhead.acquire, release, _get_semaphore), whoever uses the bulkhead.
THEOREM BulkheadConservesSlots == ASSUME ~Overlap PROVE Spec => []SlotsConserved
BY BulkheadInvariance, PTL DEF SlotsInv

\* ... and under the middleware, when a task is cancelled, too.
THEOREM SlotsAlwaysConserved == ASSUME ~Overlap PROVE MwSpec => []SlotsConserved
BY SlotsInvariance, PTL DEF SlotsInv

\* As long as event loops follow one another, no more applications run at a time than
\* the bulkhead has places, however many were told to stop and went on
\* (ResilientMiddleware, execute_async, AsyncBulkhead).
THEOREM AppsAlwaysBounded == ASSUME ~Overlap PROVE MwSpec => []AppsBounded
<1>1. SlotsInv /\ RequestInv => AppsBounded
  <2>1. SUFFICES ASSUME SlotsInv, RequestInv, NEW l \in Loops
                 PROVE  Cardinality({t \in Tasks : InApp(t) /\ home[t] = l}) <= MaxConcurrent
    BY DEF AppsBounded
  <2> DEFINE apps == {t \in Tasks : InApp(t) /\ home[t] = l}
  <2>2. apps \subseteq Inside
    BY <2>1 DEF RequestInv, InStep, Inside, InApp, WithSlot
  <2>3. Cardinality(apps) <= Cardinality(Inside) /\ Cardinality(apps) \in Nat
    BY <2>2, FiniteInside, FS_Subset, FS_CardinalityType
  <2>4. Cardinality(Inside) <= MaxConcurrent
    <3>1. CASE semaphore = None
      BY <2>1, <3>1, FS_EmptySet, BulkheadAssumption DEF SlotsInv, NobodyYet
    <3>2. CASE semaphore # None
      <4>1. value[semaphore] \in Nat /\ value[semaphore] + Cardinality(Inside) = MaxConcurrent
        BY <2>1, <3>2 DEF SlotsInv, SlotTypes, SlotsConserved
      <4>2. QED BY <4>1, FiniteInside, BulkheadAssumption
    <3>3. QED BY <3>1, <3>2
  <2>5. QED BY <2>3, <2>4, FiniteInside, BulkheadAssumption
<1>2. QED BY <1>1, RequestInvariance, SlotsInvariance, PTL

\* One response to a request, and one more only for an attempt that had begun its own
\* and failed: never after an application that returned, whatever event loops
\* there are (ResilientMiddleware, _send_503).
THEOREM ResponsesAlwaysDue == MwSpec => []ResponsesAreDue
<1>1. RequestInv => ResponsesAreDue
  BY DEF RequestInv, RequestTypes, ResponsesAccounted, ResponsesAreDue
<1>2. QED BY <1>1, RequestInvariance, PTL

=============================================================================
