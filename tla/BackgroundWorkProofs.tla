------------------------ MODULE BackgroundWorkProofs ------------------------
(***************************************************************************)
(* Proofs about the three components that keep account of the calls under  *)
(* way, for any finite sets of calls, contexts, attempts and workers:      *)
(*   - Shutdown: the count of calls in flight is exact, and shutdown does  *)
(*     not report that calls drained while a counted one still runs;       *)
(*   - Metrics: no latency is measured across two calls, and a retried     *)
(*     call is measured from its start;                                    *)
(*   - TimeoutPool: an attempt given up before it began never begins.      *)
(***************************************************************************)
EXTENDS Shutdown, Metrics, TimeoutPool, SequenceTheorems, FiniteSetTheorems, TLAPS

-----------------------------------------------------------------------------
Counted == {c \in Running : tracked[c]}

-----------------------------------------------------------------------------
(* Shutdown: the inductive invariant. *)

\* Only calls that found tracking enabled are on their way to be counted in.
StartingAreTracked == \A c \in Calls : pc[c] = "starting" => tracked[c]

\* What shutdown waits for is still running, and nothing counted is left of it
\* from the moment the wait has been notified.
WakesWhenDone ==
  /\ owed \subseteq Running
  /\ stage \in {"notified", "drained"} => \A c \in owed : ~tracked[c]

ShutdownInv ==
  /\ TypeOK
  /\ CountMatchesCalls
  /\ StartingAreTracked
  /\ WakesWhenDone

LEMMA CountedIsFinite ==
  ASSUME TypeOK
  PROVE  /\ IsFiniteSet(Counted)
         /\ Cardinality(Counted) \in Nat
         /\ Cardinality(Counted) <= Cardinality(Calls)
         /\ Cardinality(Counted) = 0 <=> Counted = {}
<1>1. Counted \in SUBSET Calls
  BY DEF Counted, Running
<1>2. IsFiniteSet(Counted) /\ Cardinality(Counted) <= Cardinality(Calls)
  BY <1>1, FS_Subset, ShutdownAssumption
<1>3. QED
  BY <1>2, FS_CardinalityType, FS_EmptySet

LEMMA ShutdownInitially == Init => ShutdownInv
<1> SUFFICES ASSUME Init PROVE ShutdownInv
  OBVIOUS
<1>1. Cardinality(Calls) \in Nat
  BY FS_CardinalityType, ShutdownAssumption
<1>2. TypeOK
  BY <1>1, ShutdownAssumption DEF Init, TypeOK, Stages
<1>3. Running = {}
  BY DEF Init, Running
<1>4. Counted = {} /\ Cardinality(Counted) = 0
  BY <1>3, FS_EmptySet DEF Counted
<1>5. QED
  BY <1>2, <1>3, <1>4
     DEF Init, ShutdownInv, CountMatchesCalls, Counted, StartingAreTracked, WakesWhenDone

-----------------------------------------------------------------------------
(* Calls. *)

\* A call that begins is not counted yet.
LEMMA BeginKeeps == ASSUME ShutdownInv, NEW c \in Calls, Begin(c) PROVE ShutdownInv'
<1>1. TypeOK'
  BY DEF ShutdownInv, TypeOK, Begin
<1>2. Counted' = Counted
  BY DEF ShutdownInv, TypeOK, Begin, Counted, Running
<1>3. CountMatchesCalls'
  BY <1>2 DEF ShutdownInv, CountMatchesCalls, Counted, Begin
<1>4. StartingAreTracked'
  BY DEF ShutdownInv, TypeOK, StartingAreTracked, Begin
<1>5. WakesWhenDone'
  <2>1. c \notin Running
    BY DEF Begin, Running
  <2>2. owed' \subseteq Running'
    BY <2>1 DEF ShutdownInv, TypeOK, WakesWhenDone, Begin, Running
  <2>3. QED
    BY <2>1, <2>2 DEF ShutdownInv, TypeOK, WakesWhenDone, Begin
<1>6. QED BY <1>1, <1>3, <1>4, <1>5 DEF ShutdownInv

LEMMA EnterKeeps == ASSUME ShutdownInv, NEW c \in Calls, Enter(c) PROVE ShutdownInv'
<1> USE DEF Enter, CountIn
<1>1. c \notin Counted /\ tracked[c]
  BY DEF ShutdownInv, StartingAreTracked, Counted, Running
<1>2. Counted' = Counted \cup {c}
  BY <1>1 DEF ShutdownInv, TypeOK, Counted, Running
<1>3. Cardinality(Counted') = Cardinality(Counted) + 1
  BY <1>1, <1>2, CountedIsFinite, FS_AddElement DEF ShutdownInv
<1>4. count = Cardinality(Counted) /\ count \in Nat
  BY CountedIsFinite DEF ShutdownInv, CountMatchesCalls, Counted
<1>5. CountMatchesCalls'
  BY <1>3, <1>4 DEF CountMatchesCalls, Counted
<1>6. count' <= Cardinality(Calls)
  <2>1. Counted' \in SUBSET Calls
    BY <1>2 DEF Counted, Running
  <2>2. QED
    BY <2>1, <1>3, <1>4, FS_Subset, ShutdownAssumption
<1>7. TypeOK'
  <2>1. count' \in 0..Cardinality(Calls)
    BY <1>4, <1>6, FS_CardinalityType, ShutdownAssumption
  <2>2. pc' \in [Calls -> {"out", "starting", "running"}]
    BY DEF ShutdownInv, TypeOK
  <2>3. idle' \in BOOLEAN
    OBVIOUS
  <2>4. QED BY <2>1, <2>2, <2>3 DEF ShutdownInv, TypeOK
<1>8. StartingAreTracked' /\ WakesWhenDone'
  BY DEF ShutdownInv, TypeOK, StartingAreTracked, WakesWhenDone, Running
<1>9. QED BY <1>5, <1>7, <1>8 DEF ShutdownInv

\* The last counted call to end, and no other, sets the event.
LEMMA EndKeeps == ASSUME ShutdownInv, NEW c \in Calls, End(c) PROVE ShutdownInv'
<1>1. count = Cardinality(Counted) /\ count \in Nat /\ count <= Cardinality(Calls)
  BY CountedIsFinite DEF ShutdownInv, CountMatchesCalls, Counted
<1>2. StartingAreTracked'
  BY DEF ShutdownInv, TypeOK, StartingAreTracked, End
<1>3. owed' \subseteq Running'
  BY DEF ShutdownInv, TypeOK, WakesWhenDone, End, Running
<1>4. Cardinality(Calls) \in Nat
  BY FS_CardinalityType, ShutdownAssumption
<1>5. CASE tracked[c]
  <2>1. CountOut /\ Notify /\ UNCHANGED tracked
    BY <1>5 DEF End, CountsOut
  <2>2. c \in Counted
    BY <1>5 DEF End, Counted, Running
  <2>3. Counted' = Counted \ {c}
    BY <2>1 DEF ShutdownInv, TypeOK, End, Counted, Running
  <2>4. Cardinality(Counted') = Cardinality(Counted) - 1 /\ Cardinality(Counted) # 0
    BY <2>2, <2>3, CountedIsFinite, FS_RemoveElement DEF ShutdownInv
  <2>5. count' = count - 1 /\ (idle' <=> count' = 0)
    <3>1. count # 0 /\ count > 0
      BY <1>1, <2>4
    <3>2. ~idle
      BY <3>1 DEF ShutdownInv, CountMatchesCalls
    <3>3. count' = count - 1
      BY <1>1, <2>1, <3>1 DEF CountOut
    <3>4. count <= 1 <=> count' = 0
      BY <1>1, <3>1, <3>3
    <3>5. idle' <=> count <= 1
      BY <2>1, <3>2 DEF CountOut
    <3>6. QED BY <3>3, <3>4, <3>5
  <2>6. CountMatchesCalls'
    BY <1>1, <2>4, <2>5 DEF CountMatchesCalls, Counted
  <2>7. TypeOK'
    <3>1. count' \in 0..Cardinality(Calls)
      BY <1>1, <1>4, <2>4, <2>5
    <3>2. stage' \in Stages /\ idle' \in BOOLEAN
      BY <2>1 DEF Notify, CountOut, ShutdownInv, TypeOK, Stages
    <3>3. QED BY <3>1, <3>2 DEF ShutdownInv, TypeOK, End
  <2>8. ASSUME stage' \in {"notified", "drained"}, NEW d \in owed' PROVE ~tracked'[d]
    <3>1. d \in owed /\ d \in Running'
      BY <1>3 DEF End
    <3>2. CASE stage \in {"notified", "drained"}
      BY <2>1, <3>1, <3>2 DEF ShutdownInv, WakesWhenDone
    <3>3. CASE stage \notin {"notified", "drained"}
      <4>1. count' = 0
        BY <2>1, <2>5, <2>8, <3>3 DEF Notify
      <4>2. Counted' = {}
        BY <4>1, <2>6, <2>7, CountedIsFinite, FS_EmptySet, <2>3, FS_RemoveElement
           DEF CountMatchesCalls, Counted, ShutdownInv
      <4>3. QED BY <3>1, <4>2 DEF Counted
    <3>4. QED BY <3>2, <3>3
  <2>9. QED BY <1>2, <1>3, <2>6, <2>7, <2>8 DEF ShutdownInv, WakesWhenDone
<1>6. CASE ~tracked[c]
  <2>1. UNCHANGED <<count, idle, stage, tracked, enabled>>
    BY <1>6 DEF End, CountsOut
  <2>2. Counted' = Counted
    BY <1>6, <2>1 DEF ShutdownInv, TypeOK, End, Counted, Running
  <2>3. CountMatchesCalls'
    BY <2>1, <2>2 DEF ShutdownInv, CountMatchesCalls, Counted
  <2>4. TypeOK'
    BY <2>1 DEF ShutdownInv, TypeOK, End
  <2>5. WakesWhenDone'
    BY <1>3, <2>1 DEF ShutdownInv, WakesWhenDone, End
  <2>6. QED BY <1>2, <2>3, <2>4, <2>5 DEF ShutdownInv
<1>7. QED BY <1>5, <1>6

-----------------------------------------------------------------------------
(* Shutdown and the application. *)

LEMMA BeginShutdownKeeps == ASSUME ShutdownInv, BeginShutdown PROVE ShutdownInv'
<1>1. TypeOK'
  BY DEF ShutdownInv, TypeOK, BeginShutdown, Stages, Running
<1>2. CountMatchesCalls' /\ StartingAreTracked'
  BY DEF ShutdownInv, CountMatchesCalls, StartingAreTracked, BeginShutdown, Running
<1>3. owed' = Running /\ Running' = Running
  BY DEF BeginShutdown, Running
<1>4. ASSUME stage' \in {"notified", "drained"} PROVE \A c \in owed' : ~tracked'[c]
  <2>1. idle
    BY <1>4 DEF BeginShutdown
  <2>2. Counted = {}
    BY <2>1, CountedIsFinite DEF ShutdownInv, CountMatchesCalls, Counted
  <2>3. QED BY <1>3, <2>2 DEF Counted, BeginShutdown
<1>5. QED BY <1>1, <1>2, <1>3, <1>4 DEF ShutdownInv, WakesWhenDone

\* Steps that move neither calls nor the count, and let shutdown return only
\* after it has been notified.
LEMMA OtherStepsKeep ==
  ASSUME ShutdownInv, Enable \/ ReturnDrained \/ ReturnTimedOut \/ UNCHANGED vars
  PROVE  ShutdownInv'
<1>1. UNCHANGED <<count, idle, pc, tracked, owed>> /\ enabled' \in BOOLEAN /\ stage' \in Stages
  BY DEF Enable, ReturnDrained, ReturnTimedOut, vars, ShutdownInv, TypeOK, Stages
<1>2. stage' \in {"notified", "drained"} => stage \in {"notified", "drained"}
  BY DEF Enable, ReturnDrained, ReturnTimedOut, vars
<1>3. Running' = Running
  BY <1>1 DEF Running
<1>4. TypeOK' /\ CountMatchesCalls' /\ StartingAreTracked' /\ WakesWhenDone'
  BY <1>1, <1>2, <1>3
     DEF ShutdownInv, TypeOK, CountMatchesCalls, StartingAreTracked, WakesWhenDone
<1>5. QED BY <1>4 DEF ShutdownInv

LEMMA ShutdownInvKept == ShutdownInv /\ [Next]_vars => ShutdownInv'
<1> SUFFICES ASSUME ShutdownInv, [Next]_vars PROVE ShutdownInv'
  OBVIOUS
<1>1. ASSUME NEW c \in Calls, Begin(c) PROVE ShutdownInv'
  BY <1>1, BeginKeeps
<1>2. ASSUME NEW c \in Calls, Enter(c) PROVE ShutdownInv'
  BY <1>2, EnterKeeps
<1>3. ASSUME NEW c \in Calls, End(c) PROVE ShutdownInv'
  BY <1>3, EndKeeps
<1>4. CASE BeginShutdown
  BY <1>4, BeginShutdownKeeps
<1>5. CASE Enable \/ ReturnDrained \/ ReturnTimedOut \/ UNCHANGED vars
  BY <1>5, OtherStepsKeep
<1>6. QED BY <1>1, <1>2, <1>3, <1>4, <1>5 DEF Next, Arrive

-----------------------------------------------------------------------------
(* Theorems. *)

LEMMA ShutdownInvariance == Spec => []ShutdownInv
BY ShutdownInitially, ShutdownInvKept, PTL DEF Spec

\* The count of calls in flight never turns negative or runs ahead of the calls.
THEOREM ShutdownIsAlwaysTyped == Spec => []TypeOK
BY ShutdownInvariance, PTL DEF ShutdownInv

\* The count of calls in flight is exact and the event means zero, whenever
\* tracking is enabled and however many calls overlap (_track_call_start,
\* _track_call_end, execute).
THEOREM CountAlwaysMatchesCalls == Spec => []CountMatchesCalls
BY ShutdownInvariance, PTL DEF ShutdownInv

\* When shutdown has returned True no call that was counted when it began is still
\* running (shutdown, _track_call_end).
THEOREM CountedAreAlwaysDrained == Spec => []CountedAreDrained
<1>1. ShutdownInv => CountedAreDrained
  BY DEF ShutdownInv, WakesWhenDone, CountedAreDrained
<1>2. QED BY <1>1, ShutdownInvariance, PTL

-----------------------------------------------------------------------------
(* Metrics: the inductive invariant. *)

\* Only ids that execute has given out are in use.
IdsAreGiven ==
  /\ \A x \in Contexts : callId[x] < nextId
  /\ \A x \in Contexts : \A d \in 1..Len(frames[x]) : frames[x][d].id < nextId
  /\ \A i \in Ids : starts[i] # Unset => i < nextId /\ starts[i] < nextId
  /\ \A pair \in latencies : pair[1] < nextId /\ pair[2] < nextId
  /\ \A i \in due : i < nextId

\* No call is under way twice, and no two contexts file under one id.
CallsAreDistinct ==
  /\ \A x, y \in Contexts : \A d \in 1..Len(frames[x]) : \A e \in 1..Len(frames[y]) :
       frames[x][d].id = frames[y][e].id => x = y /\ d = e
  /\ \A x, y \in Contexts : callId[x] # Unset /\ callId[x] = callId[y] => x = y

\* All that a context is in belongs to one application-level call, and so does the
\* id that its events are filed under.
OneRoot ==
  \A x \in Contexts : frames[x] # <<>> =>
    /\ callId[x] # Unset
    /\ root[callId[x]] = frames[x][1].id
    /\ \A d \in 1..Len(frames[x]) : root[frames[x][d].id] = frames[x][1].id

StartsStayInOneCall == \A i \in Ids : starts[i] # Unset => root[starts[i]] = root[i]

\* The start that the latency of a call under way will be measured from is there.
DueIsStarted ==
  \A x \in Contexts : \A d \in 1..Len(frames[x]) : frames[x][d].id \in due =>
    /\ d = Len(frames[x])
    /\ starts[callId[x]] = frames[x][d].id

MetricsInv ==
  /\ MetricsTypeOK
  /\ IdsAreGiven
  /\ CallsAreDistinct
  /\ OneRoot
  /\ StartsStayInOneCall
  /\ LatencyStaysInOneCall
  /\ DueIsStarted

LEMMA MetricsInitially == MetricsInit => MetricsInv
<1> SUFFICES ASSUME MetricsInit PROVE MetricsInv
  OBVIOUS
<1> USE DEF MetricsInit
<1>1. 1 \in Ids /\ Ids \subseteq Nat /\ Unset \notin Ids /\ Unset < 1
  BY MetricsAssumption DEF Ids, Unset
<1>2. \A x \in Contexts : Len(frames[x]) = 0
  OBVIOUS
<1>3. MetricsTypeOK
  <2>1. <<>> \in Seq(Frame)
    OBVIOUS
  <2>2. nextId \in 1..(MaxCalls + 1)
    BY MetricsAssumption
  <2>3. QED BY <1>2, <2>1, <2>2, MetricsAssumption DEF MetricsTypeOK
<1>4. IdsAreGiven
  BY <1>1, <1>2 DEF IdsAreGiven
<1>5. CallsAreDistinct /\ OneRoot /\ DueIsStarted
  BY <1>2 DEF CallsAreDistinct, OneRoot, DueIsStarted
<1>6. StartsStayInOneCall /\ LatencyStaysInOneCall
  BY DEF StartsStayInOneCall, LatencyStaysInOneCall
<1>7. QED BY <1>3, <1>4, <1>5, <1>6 DEF MetricsInv

-----------------------------------------------------------------------------
(* Metrics: what a step does to the calls under way. *)

\* The innermost call of a context that is in one.
LEMMA CurrentIsAFrame ==
  ASSUME MetricsTypeOK, NEW x \in Contexts, frames[x] # <<>>
  PROVE  /\ Len(frames[x]) \in Nat \ {0}
         /\ Current(x) \in Frame
         /\ Current(x) = frames[x][Len(frames[x])]
         /\ Current(x).id \in Ids
<1>1. frames[x] \in Seq(Frame)
  BY DEF MetricsTypeOK
<1>2. Len(frames[x]) \in Nat /\ Len(frames[x]) # 0
  BY <1>1, EmptySeq
<1>3. frames[x][Len(frames[x])] \in Frame
  BY <1>1, <1>2, ElementOfSeq
<1>4. QED BY <1>2, <1>3 DEF Current, Frame

\* The calls under way are those of before, up to attempts, stages and the innermost
\* call of a context, which may be over.
FramesAreKept ==
  /\ frames' \in [Contexts -> Seq(Frame)]
  /\ \A x \in Contexts :
       /\ Len(frames'[x]) <= Len(frames[x])
       /\ \A d \in 1..Len(frames'[x]) : frames'[x][d].id = frames[x][d].id

LEMMA BecameKeeps ==
  ASSUME MetricsTypeOK, NEW x \in Contexts, frames[x] # <<>>,
         NEW f \in Frame, f.id = Current(x).id, Became(x, f)
  PROVE  FramesAreKept
<1> DEFINE s == frames[x]
           n == Len(frames[x])
           t == [s EXCEPT ![n] = f]
<1>1. s \in Seq(Frame) /\ n \in 1..n /\ n \in Nat
  BY CurrentIsAFrame DEF MetricsTypeOK
<1>2. t \in Seq(Frame) /\ Len(t) = n /\ \A d \in 1..n : t[d] = IF d = n THEN f ELSE s[d]
  BY <1>1, ExceptSeq
<1>3. frames' = [frames EXCEPT ![x] = t]
  BY DEF Became
<1>4. \A d \in 1..n : t[d].id = s[d].id
  BY <1>2, CurrentIsAFrame
<1>5. frames' \in [Contexts -> Seq(Frame)]
  BY <1>2, <1>3 DEF MetricsTypeOK
<1>6. ASSUME NEW y \in Contexts
      PROVE  /\ Len(frames'[y]) <= Len(frames[y])
             /\ \A d \in 1..Len(frames'[y]) : frames'[y][d].id = frames[y][d].id
  <2>1. CASE y = x
    BY <1>1, <1>2, <1>3, <1>4, <2>1 DEF MetricsTypeOK
  <2>2. CASE y # x
    <3>1. frames'[y] = frames[y] /\ Len(frames[y]) \in Nat
      BY <1>3, <2>2 DEF MetricsTypeOK
    <3>2. QED BY <3>1
  <2>3. QED BY <2>1, <2>2
<1>7. QED BY <1>5, <1>6 DEF FramesAreKept

LEMMA EndedKeeps ==
  ASSUME MetricsTypeOK, NEW x \in Contexts, frames[x] # <<>>, Ended(x)
  PROVE  /\ FramesAreKept
         /\ Len(frames'[x]) = Len(frames[x]) - 1
         /\ \A y \in Contexts \ {x} : frames'[y] = frames[y]
<1> DEFINE s == frames[x]
           n == Len(frames[x])
           t == SubSeq(s, 1, n - 1)
<1>1. s \in Seq(Frame) /\ n \in Nat \ {0}
  BY CurrentIsAFrame DEF MetricsTypeOK
<1>2. t \in Seq(Frame) /\ Len(t) = n - 1 /\ \A d \in 1..(n - 1) : t[d] = s[d]
  <2>1. \A i \in 1..(n - 1) : s[i] \in Frame
    BY <1>1, ElementOfSeq
  <2>2. QED BY <1>1, <2>1, SubSeqProperties
<1>3. frames' = [frames EXCEPT ![x] = t]
  BY DEF Ended
<1>4. frames' \in [Contexts -> Seq(Frame)] /\ frames'[x] = t
  BY <1>2, <1>3 DEF MetricsTypeOK
<1>5. \A y \in Contexts \ {x} : frames'[y] = frames[y]
  BY <1>3 DEF MetricsTypeOK
<1>6. ASSUME NEW y \in Contexts
      PROVE  /\ Len(frames'[y]) <= Len(frames[y])
             /\ \A d \in 1..Len(frames'[y]) : frames'[y][d].id = frames[y][d].id
  <2>1. CASE y = x
    BY <1>1, <1>2, <1>4, <2>1
  <2>2. CASE y # x
    <3>1. frames'[y] = frames[y] /\ Len(frames[y]) \in Nat
      BY <1>5, <2>2 DEF MetricsTypeOK
    <3>2. QED BY <3>1
  <2>3. QED BY <2>1, <2>2
<1>7. QED BY <1>1, <1>2, <1>4, <1>5, <1>6 DEF FramesAreKept

\* What does not depend on how far the calls have come.
LEMMA KeptFrames ==
  ASSUME MetricsInv, FramesAreKept, UNCHANGED <<nextId, callId, root>>
  PROVE  /\ CallsAreDistinct'
         /\ OneRoot'
         /\ \A x \in Contexts : \A d \in 1..Len(frames'[x]) :
              d \in 1..Len(frames[x]) /\ frames'[x][d].id < nextId
         /\ \A x \in Contexts : Len(frames'[x]) <= MaxDepth
<1> USE DEF MetricsInv
<1>1. \A x \in Contexts : Len(frames[x]) \in Nat /\ Len(frames'[x]) \in Nat
  BY DEF MetricsTypeOK, FramesAreKept
<1>2. \A x \in Contexts : \A d \in 1..Len(frames'[x]) :
        d \in 1..Len(frames[x]) /\ frames'[x][d].id = frames[x][d].id
  BY <1>1 DEF FramesAreKept
<1>3. CallsAreDistinct'
  BY <1>2 DEF CallsAreDistinct
<1>4. \A x \in Contexts : \A d \in 1..Len(frames'[x]) : frames'[x][d].id < nextId
  BY <1>2 DEF IdsAreGiven
<1>5. ASSUME NEW x \in Contexts, frames'[x] # <<>>
      PROVE  /\ callId'[x] # Unset
             /\ root'[callId'[x]] = frames'[x][1].id
             /\ \A d \in 1..Len(frames'[x]) : root'[frames'[x][d].id] = frames'[x][1].id
  <2>1. 1 \in 1..Len(frames'[x])
    BY <1>1, <1>5, EmptySeq DEF FramesAreKept
  <2>2. frames[x] # <<>> /\ frames'[x][1].id = frames[x][1].id
    BY <1>2, <2>1, EmptySeq
  <2>3. QED BY <1>2, <2>2 DEF OneRoot
<1>6. \A x \in Contexts : Len(frames'[x]) <= MaxDepth
  BY <1>1, MetricsAssumption DEF MetricsTypeOK, FramesAreKept
<1>7. QED BY <1>2, <1>3, <1>4, <1>5, <1>6 DEF OneRoot

-----------------------------------------------------------------------------
(* Metrics: one lemma per kind of step. *)

\* A call under way is filed under an id that was given out.
LEMMA KeyIsAnId ==
  ASSUME MetricsInv, NEW x \in Contexts, frames[x] # <<>>
  PROVE  /\ callId[x] \in Ids /\ callId[x] # Unset
         /\ root[callId[x]] = root[Current(x).id]
         /\ Current(x).id < nextId /\ callId[x] < nextId
<1>1. Len(frames[x]) \in 1..Len(frames[x])
  BY CurrentIsAFrame DEF MetricsInv
<1>2. Current(x) = frames[x][Len(frames[x])]
  BY DEF Current
<1>3. QED BY <1>1, <1>2 DEF MetricsInv, MetricsTypeOK, OneRoot, IdsAreGiven

\* Events that the collector only counts.
LEMMA QuietKeeps ==
  ASSUME MetricsInv, FramesAreKept,
         UNCHANGED <<nextId, callId, root, starts, latencies, succeeded, due>>
  PROVE  MetricsInv'
<1> USE DEF MetricsInv
<1>1. CallsAreDistinct' /\ OneRoot'
  BY KeptFrames
<1>2. MetricsTypeOK'
  BY KeptFrames DEF MetricsTypeOK, FramesAreKept
<1>3. IdsAreGiven'
  BY KeptFrames DEF IdsAreGiven
<1>4. StartsStayInOneCall' /\ LatencyStaysInOneCall'
  BY DEF StartsStayInOneCall, LatencyStaysInOneCall
<1>5. ASSUME NEW x \in Contexts, NEW d \in 1..Len(frames'[x]), frames'[x][d].id \in due
      PROVE  d = Len(frames'[x]) /\ starts[callId[x]] = frames'[x][d].id
  <2>1. Len(frames[x]) \in Nat /\ Len(frames'[x]) \in Nat /\ Len(frames'[x]) <= Len(frames[x])
    BY DEF MetricsTypeOK, FramesAreKept
  <2>2. d \in 1..Len(frames[x]) /\ frames'[x][d].id = frames[x][d].id
    BY <2>1 DEF FramesAreKept
  <2>3. d = Len(frames[x]) /\ starts[callId[x]] = frames[x][d].id
    BY <1>5, <2>2 DEF DueIsStarted
  <2>4. QED BY <2>1, <2>2, <2>3
<1>6. QED BY <1>1, <1>2, <1>3, <1>4, <1>5 DEF DueIsStarted

\* RETRY and RETRY_EXHAUSTED start the tracking of a call at its first attempt.
LEMMA ProgressKeeps ==
  ASSUME MetricsInv, NEW x \in Contexts, frames[x] # <<>>,
         NEW f \in Frame, f.id = Current(x).id, Became(x, f),
         Progress(x, Current(x).attempt), UNCHANGED <<nextId, callId, root, succeeded>>
  PROVE  MetricsInv'
<1> DEFINE i == Current(x).id
           k == callId[x]
<1> USE DEF MetricsInv
<1>1. FramesAreKept
  BY BecameKeeps
<1>2. i \in Ids /\ k \in Ids /\ k # Unset /\ root[k] = root[i] /\ i < nextId /\ k < nextId
  BY CurrentIsAFrame, KeyIsAnId
<1>3. CASE Current(x).attempt # 1
  <2>1. UNCHANGED <<nextId, callId, root, starts, latencies, succeeded, due>>
    BY <1>3 DEF Progress, StartsTracking
  <2>2. QED BY <1>1, <2>1, QuietKeeps
<1>4. CASE Current(x).attempt = 1
  <2>1. /\ starts' = [starts EXCEPT ![k] = i]
        /\ due' = due \cup {i}
        /\ UNCHANGED latencies
    BY <1>2, <1>4 DEF Progress, StartsTracking, CallKey
  <2>2. CallsAreDistinct' /\ OneRoot'
    BY <1>1, KeptFrames
  <2>3. MetricsTypeOK'
    BY <1>1, <1>2, <2>1, KeptFrames DEF MetricsTypeOK, FramesAreKept
  <2>4. IdsAreGiven'
    BY <1>1, <1>2, <2>1, KeptFrames DEF IdsAreGiven, MetricsTypeOK
  <2>5. StartsStayInOneCall' /\ LatencyStaysInOneCall'
    BY <1>2, <2>1 DEF StartsStayInOneCall, LatencyStaysInOneCall, MetricsTypeOK
  <2>6. ASSUME NEW y \in Contexts, NEW d \in 1..Len(frames'[y]), frames'[y][d].id \in due'
        PROVE  d = Len(frames'[y]) /\ starts'[callId'[y]] = frames'[y][d].id
    <3>1. Len(frames'[y]) = Len(frames[y]) /\ frames'[y][d].id = frames[y][d].id
      BY <1>1, ExceptSeq DEF Became, MetricsTypeOK, FramesAreKept
    <3>2. Len(frames[x]) \in 1..Len(frames[x]) /\ frames[x][Len(frames[x])].id = i
      BY CurrentIsAFrame
    <3>3. CASE frames[y][d].id = i
      <4>1. y = x /\ d = Len(frames[x])
        BY <3>1, <3>2, <3>3 DEF CallsAreDistinct
      <4>2. QED BY <1>2, <2>1, <3>1, <3>3, <4>1 DEF MetricsTypeOK
    <3>4. CASE frames[y][d].id # i
      <4>1. d = Len(frames[y]) /\ starts[callId[y]] = frames[y][d].id
        BY <2>1, <2>6, <3>1, <3>4 DEF DueIsStarted
      <4>2. y # x
        BY <3>2, <3>4, <4>1
      <4>3. callId[y] # k
        BY <1>2, <4>2 DEF CallsAreDistinct
      <4>4. QED BY <2>1, <3>1, <4>1, <4>3 DEF MetricsTypeOK
    <3>5. QED BY <3>3, <3>4
  <2>7. QED BY <2>2, <2>3, <2>4, <2>5, <2>6 DEF DueIsStarted
<1>5. QED BY <1>3, <1>4

\* A call ends with SUCCESS or FAILURE, and its start is gone.
LEMMA TerminalKeeps ==
  ASSUME MetricsInv, NEW x \in Contexts, frames[x] # <<>>, Ended(x), Terminal(x),
         UNCHANGED <<nextId, callId, root>>, succeeded' \subseteq Ids
  PROVE  MetricsInv'
<1> DEFINE i == Current(x).id
           k == callId[x]
<1> USE DEF MetricsInv
<1>1. FramesAreKept /\ Len(frames'[x]) = Len(frames[x]) - 1
  BY EndedKeeps
<1>2. i \in Ids /\ k \in Ids /\ k # Unset /\ root[k] = root[i] /\ i < nextId /\ k < nextId
  BY CurrentIsAFrame, KeyIsAnId
<1>3. /\ UNCHANGED due
      /\ starts' = [starts EXCEPT ![k] = Unset]
      /\ latencies' = latencies \/ (starts[k] # Unset /\ latencies' = latencies \cup {<<starts[k], i>>})
  <2>1. CASE starts[k] # Unset
    BY <1>2, <2>1 DEF Terminal, CallKey, Tracked, PopStart
  <2>2. CASE starts[k] = Unset
    <3>1. starts' = starts /\ latencies' = latencies /\ UNCHANGED due
      BY <2>2 DEF Terminal, CallKey, Tracked
    <3>2. QED BY <1>2, <2>2, <3>1 DEF MetricsTypeOK
  <2>3. QED BY <2>1, <2>2
<1>4. \A j \in Ids : starts'[j] # Unset => j # k /\ starts'[j] = starts[j]
  BY <1>2, <1>3 DEF MetricsTypeOK
<1>5. CallsAreDistinct' /\ OneRoot'
  BY <1>1, KeptFrames
<1>6. starts[k] # Unset => starts[k] \in Ids /\ starts[k] < nextId /\ root[starts[k]] = root[i]
  BY <1>2 DEF MetricsTypeOK, IdsAreGiven, StartsStayInOneCall
<1>7. MetricsTypeOK'
  BY <1>1, <1>2, <1>3, <1>6, KeptFrames DEF MetricsTypeOK, FramesAreKept
<1>8. IdsAreGiven'
  BY <1>1, <1>2, <1>3, <1>4, <1>6, KeptFrames DEF IdsAreGiven
<1>9. StartsStayInOneCall'
  BY <1>4 DEF StartsStayInOneCall
<1>10. LatencyStaysInOneCall'
  BY <1>3, <1>6 DEF LatencyStaysInOneCall
<1>11. ASSUME NEW y \in Contexts, NEW d \in 1..Len(frames'[y]), frames'[y][d].id \in due'
       PROVE  d = Len(frames'[y]) /\ starts'[callId'[y]] = frames'[y][d].id
  <2>1. Len(frames[y]) \in Nat /\ Len(frames'[y]) \in Nat /\ Len(frames'[y]) <= Len(frames[y])
    BY <1>1 DEF MetricsTypeOK, FramesAreKept
  <2>2. d \in 1..Len(frames[y]) /\ frames'[y][d].id = frames[y][d].id
    BY <1>1, <2>1 DEF FramesAreKept
  <2>3. d = Len(frames[y]) /\ starts[callId[y]] = frames[y][d].id
    BY <1>3, <1>11, <2>2 DEF DueIsStarted
  <2>4. y # x
    BY <1>1, <2>1, <2>3
  <2>5. callId[y] # k
    BY <1>2, <2>4 DEF CallsAreDistinct
  <2>6. starts'[callId[y]] = starts[callId[y]]
    BY <1>3, <2>5 DEF MetricsTypeOK
  <2>7. QED BY <2>1, <2>2, <2>3, <2>6
<1>12. QED BY <1>5, <1>7, <1>8, <1>9, <1>10, <1>11 DEF DueIsStarted

\* A new call has an id of its own, and takes its context's.
LEMMA CallKeeps == ASSUME MetricsInv, NEW x \in Contexts, Call(x) PROVE MetricsInv'
<1> DEFINE s == frames[x]
           f == [id |-> nextId, attempt |-> 1, stage |-> "arriving"]
           r == IF s = <<>> THEN nextId ELSE s[1].id
           New(y, d) == y = x /\ d = Len(s) + 1 /\ frames'[y][d].id = nextId
           Old(y, d) == /\ d \in 1..Len(frames[y])
                        /\ frames'[y][d].id = frames[y][d].id
                        /\ frames[y][d].id < nextId /\ frames[y][d].id \in Ids
<1> USE DEF MetricsInv
<1>0. /\ frames' = [frames EXCEPT ![x] = Append(s, f)]
      /\ callId' = [callId EXCEPT ![x] = nextId]
      /\ root' = [root EXCEPT ![nextId] = r]
      /\ nextId' = nextId + 1 /\ nextId <= MaxCalls /\ Len(s) < MaxDepth
      /\ due' = due \ InFrames(x)
      /\ UNCHANGED <<starts, latencies, succeeded>>
  BY DEF Call
<1>1. /\ nextId \in Ids /\ Unset \notin Ids
      /\ \A i \in Ids \cup {Unset} : i < nextId => i < nextId' /\ i # nextId
      /\ nextId < nextId'
  <2>1. nextId \in 1..(MaxCalls + 1)
    BY DEF MetricsTypeOK
  <2>2. QED BY <1>0, <2>1, MetricsAssumption DEF Ids, Unset
<1>2. s \in Seq(Frame) /\ Len(s) \in Nat /\ f \in Frame /\ f.id = nextId
  <2>1. s \in Seq(Frame)
    BY DEF MetricsTypeOK
  <2>2. 1 \in 1..MaxAttempts
    BY MetricsAssumption
  <2>3. QED BY <1>1, <2>1, <2>2 DEF Frame
<1>3. /\ Append(s, f) \in Seq(Frame) /\ Len(Append(s, f)) = Len(s) + 1
      /\ \A d \in 1..Len(s) : Append(s, f)[d] = s[d]
      /\ Append(s, f)[Len(s) + 1] = f
  BY <1>2, AppendProperties
<1>4. s # <<>> => 1 \in 1..Len(s) /\ s[1] \in Frame /\ s[1].id \in Ids /\ s[1].id < nextId
  <2>1. s # <<>> => 1 \in 1..Len(s)
    BY <1>2, EmptySeq
  <2>2. s # <<>> => s[1] \in Frame /\ s[1].id < nextId
    BY <1>2, <2>1, ElementOfSeq DEF IdsAreGiven
  <2>3. QED BY <2>1, <2>2 DEF Frame
<1>5. r \in Ids
  BY <1>1, <1>4
<1>7. /\ \A y \in Contexts \ {x} : frames'[y] = frames[y] /\ callId'[y] = callId[y]
      /\ frames'[x] = Append(s, f) /\ callId'[x] = nextId
      /\ \A j \in Ids \ {nextId} : root'[j] = root[j]
      /\ root'[nextId] = r
  BY <1>1, <1>0 DEF MetricsTypeOK
<1>8. \A y \in Contexts : \A d \in 1..Len(frames'[y]) :
        New(y, d) \/ Old(y, d)
  <2>1. ASSUME NEW y \in Contexts, NEW d \in 1..Len(frames[y])
        PROVE  frames[y][d].id < nextId /\ frames[y][d].id \in Ids
    <3>1. frames[y][d] \in Frame
      BY ElementOfSeq DEF MetricsTypeOK
    <3>2. QED BY <3>1 DEF IdsAreGiven, Frame
  <2>2. ASSUME NEW d \in 1..(Len(s) + 1)
        PROVE  \/ d = Len(s) + 1 /\ Append(s, f)[d].id = nextId
               \/ d \in 1..Len(s) /\ Append(s, f)[d].id = s[d].id
    BY <1>2, <1>3
  <2>3. QED BY <1>3, <1>7, <2>1, <2>2
<1>9. MetricsTypeOK'
  <2>1. nextId' \in 1..(MaxCalls + 1)
    BY <1>1, <1>0, MetricsAssumption DEF Ids
  <2>2. frames' \in [Contexts -> Seq(Frame)]
    BY <1>3, <1>0 DEF MetricsTypeOK
  <2>3. \A y \in Contexts : Len(frames'[y]) <= MaxDepth
    BY <1>0, <1>2, <1>3, <1>7, MetricsAssumption DEF MetricsTypeOK
  <2>4. QED BY <1>1, <1>5, <1>0, <2>1, <2>2, <2>3 DEF MetricsTypeOK
<1>10. IdsAreGiven'
  <2>1. \A y \in Contexts : callId'[y] < nextId'
    <3>1. \A y \in Contexts : callId[y] \in Ids \cup {Unset} /\ callId[y] < nextId
      BY DEF MetricsTypeOK, IdsAreGiven
    <3>2. QED BY <1>1, <1>7, <3>1
  <2>2. \A y \in Contexts : \A d \in 1..Len(frames'[y]) : frames'[y][d].id < nextId'
    <3>1. ASSUME NEW y \in Contexts, NEW d \in 1..Len(frames'[y])
          PROVE  frames'[y][d].id < nextId'
      <4>1. New(y, d) \/ Old(y, d)
        BY <1>8
      <4>2. QED BY <1>1, <4>1
    <3>2. QED BY <3>1
  <2>3. \A i \in Ids : starts'[i] # Unset => i < nextId' /\ starts'[i] < nextId'
    <3>1. \A i \in Ids : starts[i] \in Ids \cup {Unset}
      BY DEF MetricsTypeOK
    <3>2. QED BY <1>1, <1>0, <3>1 DEF IdsAreGiven
  <2>4. \A pair \in latencies' : pair[1] < nextId' /\ pair[2] < nextId'
    <3>1. \A pair \in latencies : pair[1] \in Ids /\ pair[2] \in Ids
      BY DEF MetricsTypeOK
    <3>2. QED BY <1>1, <1>0, <3>1 DEF IdsAreGiven
  <2>5. \A i \in due' : i < nextId'
    BY <1>1, <1>0 DEF IdsAreGiven, MetricsTypeOK
  <2>6. QED BY <2>1, <2>2, <2>3, <2>4, <2>5 DEF IdsAreGiven
<1>11. CallsAreDistinct'
  <2>1. \A y \in Contexts : callId[y] # nextId
    <3>1. \A y \in Contexts : callId[y] \in Ids \cup {Unset} /\ callId[y] < nextId
      BY DEF MetricsTypeOK, IdsAreGiven
    <3>2. QED BY <1>1, <3>1
  <2>2. ASSUME NEW y \in Contexts, NEW z \in Contexts,
               callId'[y] # Unset, callId'[y] = callId'[z]
        PROVE  y = z
    <3>1. y = x <=> z = x
      BY <1>7, <2>1, <2>2
    <3>2. QED BY <1>7, <2>2, <3>1 DEF CallsAreDistinct
  <2>3. ASSUME NEW y \in Contexts, NEW z \in Contexts,
               NEW d \in 1..Len(frames'[y]), NEW e \in 1..Len(frames'[z]),
               frames'[y][d].id = frames'[z][e].id
        PROVE  y = z /\ d = e
    <3>1. \A i \in Ids : i < nextId => i # nextId
      BY <1>1
    <3>2. New(y, d) \/ Old(y, d)
      BY <1>8
    <3>3. New(z, e) \/ Old(z, e)
      BY <1>8
    <3>4. CASE New(y, d)
      BY <2>3, <3>1, <3>3, <3>4
    <3>5. CASE Old(y, d)
      <4>1. Old(z, e)
        BY <2>3, <3>1, <3>3, <3>5
      <4>2. /\ d \in 1..Len(frames[y]) /\ e \in 1..Len(frames[z])
            /\ frames[y][d].id = frames[z][e].id
        BY <2>3, <3>5, <4>1
      <4>3. QED BY <4>2 DEF CallsAreDistinct
    <3>6. QED BY <3>2, <3>4, <3>5
  <2>4. QED BY <2>2, <2>3 DEF CallsAreDistinct
<1>12. OneRoot'
  <2>1. ASSUME NEW y \in Contexts, frames'[y] # <<>>, y # x
        PROVE  /\ callId'[y] # Unset
               /\ root'[callId'[y]] = frames'[y][1].id
               /\ \A d \in 1..Len(frames'[y]) : root'[frames'[y][d].id] = frames'[y][1].id
    <3>1. frames'[y] = frames[y] /\ callId'[y] = callId[y] /\ callId[y] # Unset
      BY <1>7, <2>1 DEF OneRoot
    <3>2. callId[y] \in Ids \ {nextId}
      BY <3>1, <1>1 DEF MetricsTypeOK, IdsAreGiven
    <3>3. \A d \in 1..Len(frames[y]) : frames[y][d].id \in Ids \ {nextId}
      BY <1>1, <1>8, <2>1, <3>1
    <3>4. QED BY <1>7, <2>1, <3>1, <3>2, <3>3 DEF OneRoot
  <2>2. /\ callId'[x] # Unset
        /\ root'[callId'[x]] = frames'[x][1].id
        /\ \A d \in 1..Len(frames'[x]) : root'[frames'[x][d].id] = frames'[x][1].id
    <3>1. frames'[x][1].id = r
      <4>1. CASE s = <<>>
        BY <1>2, <1>3, <1>7, <4>1
      <4>2. CASE s # <<>>
        BY <1>3, <1>4, <1>7, <4>2
      <4>3. QED BY <4>1, <4>2
    <3>2. ASSUME NEW d \in 1..Len(frames'[x]) PROVE root'[frames'[x][d].id] = r
      <4>1. CASE New(x, d)
        BY <1>7, <4>1
      <4>2. CASE Old(x, d)
        <5>1. s # <<>> /\ s[d].id \in Ids \ {nextId}
          BY <1>1, <1>2, <4>2, EmptySeq
        <5>2. QED BY <1>7, <4>2, <5>1 DEF OneRoot
      <4>3. QED BY <1>8, <4>1, <4>2
    <3>3. QED BY <1>1, <1>7, <3>1, <3>2
  <2>3. QED BY <2>1, <2>2 DEF OneRoot
<1>13. StartsStayInOneCall'
  <2>1. ASSUME NEW i \in Ids, starts[i] # Unset
        PROVE  i # nextId /\ starts[i] \in Ids \ {nextId} /\ root[starts[i]] = root[i]
    BY <1>1, <2>1 DEF IdsAreGiven, StartsStayInOneCall, MetricsTypeOK
  <2>2. QED BY <1>0, <1>7, <2>1 DEF StartsStayInOneCall
<1>14. LatencyStaysInOneCall'
  <2>1. ASSUME NEW pair \in latencies
        PROVE  /\ pair[1] \in Ids \ {nextId} /\ pair[2] \in Ids \ {nextId}
               /\ root[pair[1]] = root[pair[2]]
    BY <1>1 DEF IdsAreGiven, LatencyStaysInOneCall, MetricsTypeOK
  <2>2. QED BY <1>0, <1>7, <2>1 DEF LatencyStaysInOneCall
<1>15. ASSUME NEW y \in Contexts, NEW d \in 1..Len(frames'[y]), frames'[y][d].id \in due'
       PROVE  d = Len(frames'[y]) /\ starts'[callId'[y]] = frames'[y][d].id
  <2>1. d \in 1..Len(frames[y]) /\ frames'[y][d].id = frames[y][d].id
    BY <1>1, <1>0, <1>8, <1>15 DEF IdsAreGiven
  <2>2. y # x
    BY <1>0, <1>15, <2>1 DEF InFrames
  <2>3. QED BY <1>0, <1>7, <1>15, <2>1, <2>2 DEF DueIsStarted
<1>16. QED
  BY <1>9, <1>10, <1>11, <1>12, <1>13, <1>14, <1>15 DEF DueIsStarted

\* Nothing has started any more, and nothing under way is due.
LEMMA ResetKeeps == ASSUME MetricsInv, Reset PROVE MetricsInv'
<1> USE DEF MetricsInv, Reset
<1>1. \A i \in Ids : starts'[i] = Unset
  OBVIOUS
<1>2. MetricsTypeOK'
  BY DEF MetricsTypeOK
<1>3. CallsAreDistinct' /\ OneRoot'
  BY DEF CallsAreDistinct, OneRoot
<1>4. IdsAreGiven'
  BY <1>1 DEF IdsAreGiven
<1>5. StartsStayInOneCall' /\ LatencyStaysInOneCall'
  BY <1>1 DEF StartsStayInOneCall, LatencyStaysInOneCall
<1>6. DueIsStarted'
  BY DEF DueIsStarted, InFrames
<1>7. QED BY <1>2, <1>3, <1>4, <1>5, <1>6

\* Steps of a call after it began.
LEMMA LaterStepKeeps ==
  ASSUME MetricsInv, NEW x \in Contexts,
         \/ Answered(x) \/ Admitted(x) \/ Success(x) \/ Failure(x) \/ Retry(x)
         \/ RetryExhausted(x) \/ ExhaustedFailure(x) \/ EndsSilently(x)
  PROVE  MetricsInv'
<1>1. frames[x] # <<>>
  BY DEF Answered, Admitted, Success, Failure, Retry, RetryExhausted, ExhaustedFailure,
         EndsSilently, Trying, InCall
<1>2. MetricsTypeOK /\ Current(x) \in Frame /\ Current(x).id \in Ids
  BY <1>1, CurrentIsAFrame DEF MetricsInv
<1>3. CASE Answered(x) \/ EndsSilently(x)
  <2>1. Ended(x) /\ UNCHANGED <<nextId, callId, root, starts, latencies, succeeded, due>>
    BY <1>3 DEF Answered, EndsSilently
  <2>2. QED BY <1>1, <1>2, <2>1, EndedKeeps, QuietKeeps
<1>4. CASE Admitted(x)
  <2> DEFINE f == [Current(x) EXCEPT !.stage = "running"]
  <2>1. f \in Frame /\ f.id = Current(x).id
    BY <1>2 DEF Frame
  <2>2. Became(x, f) /\ UNCHANGED <<nextId, callId, root, starts, latencies, succeeded, due>>
    BY <1>4 DEF Admitted
  <2>3. QED BY <1>1, <1>2, <2>1, <2>2, BecameKeeps, QuietKeeps
<1>5. CASE Success(x) \/ Failure(x) \/ ExhaustedFailure(x)
  <2>1. /\ Ended(x) /\ Terminal(x) /\ UNCHANGED <<nextId, callId, root>>
        /\ succeeded' = succeeded \/ succeeded' = succeeded \cup {Current(x).id}
    BY <1>5 DEF Success, Failure, ExhaustedFailure
  <2>2. succeeded' \subseteq Ids
    BY <1>2, <2>1 DEF MetricsTypeOK
  <2>3. QED BY <1>1, <2>1, <2>2, TerminalKeeps
<1>6. CASE Retry(x)
  <2> DEFINE f == [Current(x) EXCEPT !.attempt = @ + 1, !.stage = "running"]
             g == [Current(x) EXCEPT !.stage = "refused"]
  <2>1. f \in Frame /\ f.id = Current(x).id
    <3>1. Current(x).attempt + 1 \in 1..MaxAttempts
      BY <1>2, <1>6, MetricsAssumption DEF Frame, Retry
    <3>2. QED BY <1>2, <3>1 DEF Frame
  <2>2. g \in Frame /\ g.id = Current(x).id
    BY <1>2 DEF Frame
  <2>3. /\ Became(x, f) \/ Became(x, g)
        /\ Progress(x, Current(x).attempt)
        /\ UNCHANGED <<nextId, callId, root, succeeded>>
    BY <1>6 DEF Retry
  <2> HIDE DEF f, g
  <2>4. QED BY <1>1, <2>1, <2>2, <2>3, ProgressKeeps
<1>7. CASE RetryExhausted(x)
  <2> DEFINE f == [Current(x) EXCEPT !.stage = "exhausted"]
  <2>1. f \in Frame /\ f.id = Current(x).id
    BY <1>2 DEF Frame
  <2>2. /\ Became(x, f) /\ Progress(x, Current(x).attempt)
        /\ UNCHANGED <<nextId, callId, root, succeeded>>
    BY <1>7 DEF RetryExhausted
  <2>3. QED BY <1>1, <2>1, <2>2, ProgressKeeps
<1>8. QED BY <1>3, <1>4, <1>5, <1>6, <1>7

LEMMA MetricsInvKept == MetricsInv /\ [MetricsNext]_metricsVars => MetricsInv'
<1> SUFFICES ASSUME MetricsInv, [MetricsNext]_metricsVars PROVE MetricsInv'
  OBVIOUS
<1>1. ASSUME NEW x \in Contexts, Call(x) PROVE MetricsInv'
  BY <1>1, CallKeeps
<1>2. ASSUME NEW x \in Contexts,
             \/ Answered(x) \/ Admitted(x) \/ Success(x) \/ Failure(x) \/ Retry(x)
             \/ RetryExhausted(x) \/ ExhaustedFailure(x) \/ EndsSilently(x)
      PROVE  MetricsInv'
  BY <1>2, LaterStepKeeps
<1>3. CASE Reset
  BY <1>3, ResetKeeps
<1>4. CASE UNCHANGED metricsVars
  BY <1>4 DEF metricsVars, MetricsInv, MetricsTypeOK, IdsAreGiven, CallsAreDistinct, OneRoot,
              StartsStayInOneCall, LatencyStaysInOneCall, DueIsStarted
<1>5. QED BY <1>1, <1>2, <1>3, <1>4 DEF MetricsNext

LEMMA MetricsInvariance == MetricsSpec => []MetricsInv
BY MetricsInitially, MetricsInvKept, PTL DEF MetricsSpec

-----------------------------------------------------------------------------
(* Metrics: theorems. *)

\* Call ids, frames and start times stay well formed, however contexts are copied and
\* calls nest (MetricsCollector).
THEOREM MetricsAreAlwaysTyped == MetricsSpec => []MetricsTypeOK
BY MetricsInvariance, PTL DEF MetricsInv

\* However many contexts there are, however deep their calls nest and whatever ends
\* silently, a latency is never measured from one application-level call to another
\* (MetricsCollector.__call__ with the call id that execute sets).
THEOREM LatencyAlwaysStaysInOneCall == MetricsSpec => []LatencyStaysInOneCall
<1>1. MetricsInv => LatencyStaysInOneCall
  BY DEF MetricsInv
<1>2. QED BY <1>1, MetricsInvariance, PTL

\* The start of a call that was retried is where its terminal event looks for it.
LEMMA TerminalFindsTheStart ==
  ASSUME MetricsInv, [MetricsNext]_metricsVars, NEW i \in due, NEW x \in Contexts,
         Success(x) \/ Failure(x) \/ ExhaustedFailure(x), Current(x).id = i
  PROVE  <<i, i>> \in latencies'
<1>1. frames[x] # <<>> /\ Terminal(x)
  BY DEF Success, Failure, Trying, ExhaustedFailure, InCall
<1>2. Len(frames[x]) \in 1..Len(frames[x]) /\ frames[x][Len(frames[x])].id = i
  BY <1>1, CurrentIsAFrame DEF MetricsInv
<1>3. starts[callId[x]] = i
  BY <1>2 DEF MetricsInv, DueIsStarted
<1>4. i # Unset
  BY MetricsAssumption DEF MetricsInv, MetricsTypeOK, Ids, Unset
<1>5. callId[x] # Unset
  BY <1>1, KeyIsAnId
<1>6. QED BY <1>1, <1>3, <1>4, <1>5 DEF Terminal, CallKey, Tracked

\* A call that was retried and ends with SUCCESS or FAILURE has its own latency, for
\* any number of contexts and calls (MetricsCollector.__call__).
THEOREM RetriesAreAlwaysMeasured == MetricsSpec => RetriesAreMeasured
<1>1. MetricsInv /\ [MetricsNext]_metricsVars =>
        \A i \in due : \A x \in Contexts :
          (Success(x) \/ Failure(x) \/ ExhaustedFailure(x)) /\ Current(x).id = i =>
            <<i, i>> \in latencies'
  BY TerminalFindsTheStart
<1>2. QED BY <1>1, MetricsInvariance, PTL DEF MetricsSpec, RetriesAreMeasured

\* Where no function calls another decorated one, the comment of _logging.py is right: a
\* latency runs from a call's own start to its own end (call_id_var, MetricsCollector).
THEOREM LatencyIsOwnWithoutNesting ==
  ASSUME MaxDepth = 1
  PROVE  MetricsSpec => []LatencyIsOwn
<1> DEFINE OwnRoots == \A i \in Ids : root[i] = i
<1>1. MetricsInit => OwnRoots
  BY DEF MetricsInit
<1>2. MetricsInv /\ OwnRoots /\ [MetricsNext]_metricsVars => OwnRoots'
  <2> SUFFICES ASSUME MetricsInv, OwnRoots, [MetricsNext]_metricsVars PROVE OwnRoots'
    OBVIOUS
  <2>1. ASSUME NEW x \in Contexts, Call(x) PROVE OwnRoots'
    <3>1. frames[x] = <<>>
      <4>1. frames[x] \in Seq(Frame) /\ Len(frames[x]) \in Nat /\ Len(frames[x]) < 1
        BY <2>1 DEF MetricsInv, MetricsTypeOK, Call
      <4>2. QED BY <4>1, EmptySeq
    <3>2. root' = [root EXCEPT ![nextId] = nextId]
      BY <2>1, <3>1 DEF Call
    <3>3. QED BY <3>2 DEF MetricsInv, MetricsTypeOK
  <2>2. CASE UNCHANGED root
    BY <2>2
  <2>3. QED
    BY <2>1, <2>2
    DEF MetricsNext, Answered, Admitted, Success, Failure, Retry, RetryExhausted,
        ExhaustedFailure, EndsSilently, Reset, metricsVars
<1>3. MetricsInv /\ OwnRoots => LatencyIsOwn
  BY DEF MetricsInv, MetricsTypeOK, LatencyStaysInOneCall, LatencyIsOwn
<1> HIDE DEF OwnRoots
<1>4. QED BY <1>1, <1>2, <1>3, MetricsInvariance, PTL DEF MetricsSpec

-----------------------------------------------------------------------------
(* TimeoutPool: the inductive invariant. *)

\* No attempt is queued twice.
QueueIsDistinct ==
  \A i, j \in 1..Len(queue) : queue[i] = queue[j] => i = j

\* What is queued has not begun, and is cancelled once its caller has left.
QueuedHaveNotBegun ==
  \A i \in 1..Len(queue) :
    /\ future[queue[i]] \in {"pending", "cancelled"}
    /\ caller[queue[i]] = "out" => future[queue[i]] = "cancelled"
    /\ \A w \in Workers : busy[w] # queue[i]

\* No two workers run the same attempt.
OneWorkerEach ==
  \A v, w \in Workers : busy[v] # None /\ busy[v] = busy[w] => v = w

PoolInv ==
  /\ PoolTypeOK
  /\ QueueIsDistinct
  /\ QueuedHaveNotBegun
  /\ OneWorkerEach

\* A queue without repetitions is no longer than there are attempts.
LEMMA QueueIsShort ==
  ASSUME NEW q \in Seq(Attempts), \A i, j \in 1..Len(q) : q[i] = q[j] => i = j
  PROVE  Len(q) <= Cardinality(Attempts)
<1>1. Len(q) \in Nat /\ q \in [1..Len(q) -> Attempts]
  BY LenProperties
<1>2. q \in Injection(1..Len(q), Attempts)
  BY <1>1 DEF Injection, IsInjective
<1>3. Cardinality(1..Len(q)) <= Cardinality(Attempts)
  BY <1>2, FS_Injection, TimeoutPoolAssumption
<1>4. Cardinality(1..Len(q)) = Len(q)
  BY <1>1, FS_Interval
<1>5. QED BY <1>3, <1>4

LEMMA PoolInitially == PoolInit => PoolInv
<1> SUFFICES ASSUME PoolInit PROVE PoolInv
  OBVIOUS
<1> USE DEF PoolInit
<1>1. queue \in Seq(Attempts) /\ Len(queue) = 0
  OBVIOUS
<1>2. QueueIsDistinct /\ QueuedHaveNotBegun /\ OneWorkerEach
  BY <1>1 DEF QueueIsDistinct, QueuedHaveNotBegun, OneWorkerEach
<1>3. Len(queue) <= Cardinality(Attempts)
  BY <1>1, <1>2, QueueIsShort DEF QueueIsDistinct
<1>4. PoolTypeOK
  BY <1>1, <1>3 DEF PoolTypeOK
<1>5. QED BY <1>2, <1>4 DEF PoolInv

-----------------------------------------------------------------------------
(* TimeoutPool: callers. *)

\* An attempt enters the queue when nothing remembers the one before it.
LEMMA SubmitKeeps == ASSUME PoolInv, NEW a \in Attempts, Submit(a) PROVE PoolInv'
<1> USE DEF PoolInv
<1>1. queue \in Seq(Attempts) /\ Len(queue) \in Nat
  BY DEF PoolTypeOK
<1>2. /\ queue' = Append(queue, a)
      /\ caller' = [caller EXCEPT ![a] = "waiting"]
      /\ future' = [future EXCEPT ![a] = "pending"]
      /\ threadId' = [threadId EXCEPT ![a] = None]
      /\ UNCHANGED <<busy, interrupt, alive>>
  BY DEF Submit
<1>3. /\ \A i \in 1..Len(queue) : queue[i] # a
      /\ \A w \in Workers : busy[w] # a
  BY <1>1 DEF Submit, Forgotten
<1>4. /\ queue' \in Seq(Attempts) /\ Len(queue') = Len(queue) + 1
      /\ \A i \in 1..Len(queue) : queue'[i] = queue[i]
      /\ queue'[Len(queue) + 1] = a
  BY <1>1, <1>2, AppendProperties
<1>5. \A i \in 1..Len(queue') : i \in 1..Len(queue) \/ (i = Len(queue) + 1 /\ queue'[i] = a)
  BY <1>1, <1>4
<1>6. QueueIsDistinct'
  BY <1>3, <1>4, <1>5 DEF QueueIsDistinct
<1>7. PoolTypeOK'
  <2>1. Len(queue') <= Cardinality(Attempts)
    BY <1>4, <1>6, QueueIsShort DEF QueueIsDistinct
  <2>2. QED BY <1>2, <1>4, <2>1 DEF PoolTypeOK
<1>8. QueuedHaveNotBegun'
  <2>1. ASSUME NEW i \in 1..Len(queue')
        PROVE  /\ future'[queue'[i]] \in {"pending", "cancelled"}
               /\ caller'[queue'[i]] = "out" => future'[queue'[i]] = "cancelled"
               /\ \A w \in Workers : busy'[w] # queue'[i]
    <3>1. CASE i \in 1..Len(queue)
      <4>1. queue'[i] = queue[i] /\ queue[i] # a /\ queue[i] \in Attempts
        BY <1>1, <1>3, <1>4, <3>1, ElementOfSeq
      <4>2. QED BY <1>2, <3>1, <4>1 DEF QueuedHaveNotBegun, PoolTypeOK
    <3>2. CASE queue'[i] = a
      BY <1>2, <1>3, <3>2 DEF PoolTypeOK
    <3>3. QED BY <1>5, <3>1, <3>2
  <2>2. QED BY <2>1 DEF QueuedHaveNotBegun
<1>9. OneWorkerEach'
  BY <1>2 DEF OneWorkerEach
<1>10. QED BY <1>6, <1>7, <1>8, <1>9

\* Callers that leave: with an answer, or after they cancelled what they leave queued.
LEMMA CallersKeep ==
  ASSUME PoolInv, NEW a \in Attempts, Collect(a) \/ Expire(a) \/ GiveUp(a)
  PROVE  PoolInv'
<1> USE DEF PoolInv
<1>1. \A i \in 1..Len(queue) : queue[i] \in Attempts
  BY ElementOfSeq DEF PoolTypeOK
<1>2. UNCHANGED <<queue, busy, threadId, alive>>
  BY DEF Collect, Expire, GiveUp
<1>3. PoolTypeOK'
  <2>1. caller' \in [Attempts -> {"out", "waiting", "expired"}]
    BY DEF Collect, Expire, GiveUp, PoolTypeOK
  <2>2. future' \in [Attempts -> {"pending", "running", "finished", "timedOut", "cancelled"}]
    BY DEF Collect, Expire, GiveUp, Cancel, PoolTypeOK
  <2>3. interrupt' \in [Workers -> Attempts \cup {None}]
    BY DEF Collect, Expire, GiveUp, PoolTypeOK
  <2>4. QED BY <1>2, <2>1, <2>2, <2>3 DEF PoolTypeOK
<1>4. QueueIsDistinct' /\ OneWorkerEach'
  BY <1>2 DEF QueueIsDistinct, OneWorkerEach
<1>5. ASSUME NEW i \in 1..Len(queue)
      PROVE  /\ future'[queue[i]] \in {"pending", "cancelled"}
             /\ caller'[queue[i]] = "out" => future'[queue[i]] = "cancelled"
  <2>1. /\ queue[i] \in Attempts
        /\ future[queue[i]] \in {"pending", "cancelled"}
        /\ caller[queue[i]] = "out" => future[queue[i]] = "cancelled"
    BY <1>1 DEF QueuedHaveNotBegun
  <2>2. CASE Collect(a)
    BY <2>1, <2>2 DEF Collect, PoolTypeOK
  <2>3. CASE Expire(a)
    BY <2>1, <2>3 DEF Expire, PoolTypeOK
  <2>4. CASE GiveUp(a)
    BY <2>1, <2>4 DEF GiveUp, Cancel, PoolTypeOK
  <2>5. QED BY <2>2, <2>3, <2>4
<1>6. QED BY <1>2, <1>3, <1>4, <1>5 DEF QueuedHaveNotBegun

-----------------------------------------------------------------------------
(* TimeoutPool: workers. *)

\* What a queue that lost its head still has.
LEMMA ShorterQueue ==
  ASSUME PoolInv, queue # <<>>
  PROVE  /\ Head(queue) \in Attempts /\ Head(queue) = queue[1] /\ 1 \in 1..Len(queue)
         /\ Tail(queue) \in Seq(Attempts)
         /\ Len(Tail(queue)) <= Cardinality(Attempts)
         /\ \A i, j \in 1..Len(Tail(queue)) : Tail(queue)[i] = Tail(queue)[j] => i = j
         /\ \A i \in 1..Len(Tail(queue)) :
              /\ i + 1 \in 1..Len(queue) /\ Tail(queue)[i] = queue[i + 1]
              /\ Tail(queue)[i] # Head(queue) /\ Tail(queue)[i] \in Attempts
<1> DEFINE t == Tail(queue)
<1>1. queue \in Seq(Attempts) /\ Len(queue) \in Nat /\ Len(queue) # 0
  BY EmptySeq DEF PoolInv, PoolTypeOK
<1>2. /\ Head(queue) = queue[1] /\ Head(queue) \in Attempts
      /\ t \in Seq(Attempts) /\ Len(t) = Len(queue) - 1
      /\ \A i \in 1..Len(t) : t[i] = queue[i + 1]
  BY <1>1, HeadTailProperties, ElementOfSeq
<1>3. \A i \in 1..Len(t) : i + 1 \in 1..Len(queue) /\ i + 1 # 1
  BY <1>1, <1>2
<1>4. 1 \in 1..Len(queue)
  BY <1>1
<1>5. \A i \in 1..Len(t) : t[i] # Head(queue)
  BY <1>2, <1>3, <1>4 DEF PoolInv, QueueIsDistinct
<1>6. ASSUME NEW i \in 1..Len(t), NEW j \in 1..Len(t), t[i] = t[j] PROVE i = j
  <2>1. i + 1 = j + 1
    BY <1>2, <1>3, <1>6 DEF PoolInv, QueueIsDistinct
  <2>2. QED BY <2>1
<1>7. Len(t) <= Cardinality(Attempts)
  BY <1>2, <1>6, QueueIsShort
<1>8. \A i \in 1..Len(t) : t[i] \in Attempts
  BY <1>2, ElementOfSeq
<1>9. QED BY <1>2, <1>3, <1>4, <1>5, <1>6, <1>7, <1>8

LEMMA TakeKeeps == ASSUME PoolInv, NEW w \in Workers, Take(w) PROVE PoolInv'
<1> DEFINE h == Head(queue)
<1> USE DEF PoolInv
<1>1. /\ queue # <<>> /\ queue' = Tail(queue) /\ busy[w] = None
      /\ UNCHANGED <<caller, threadId, interrupt, alive>>
  BY DEF Take
<1>2. h \in Attempts /\ h # None
  BY <1>1, ShorterQueue, TimeoutPoolAssumption
<1>3. QueueIsDistinct'
  BY <1>1, ShorterQueue DEF QueueIsDistinct
<1>4. \/ UNCHANGED <<future, busy>>
      \/ future' = [future EXCEPT ![h] = "running"] /\ busy' = [busy EXCEPT ![w] = h]
  BY DEF Take
<1>5. PoolTypeOK'
  <2>1. queue' \in Seq(Attempts) /\ Len(queue') <= Cardinality(Attempts)
    BY <1>1, ShorterQueue
  <2>2. QED BY <1>1, <1>2, <1>4, <2>1 DEF PoolTypeOK
<1>6. QueuedHaveNotBegun'
  <2>1. ASSUME NEW i \in 1..Len(queue')
        PROVE  /\ future'[queue'[i]] \in {"pending", "cancelled"}
               /\ caller'[queue'[i]] = "out" => future'[queue'[i]] = "cancelled"
               /\ \A v \in Workers : busy'[v] # queue'[i]
    <3>1. /\ i + 1 \in 1..Len(queue) /\ queue'[i] = queue[i + 1]
          /\ queue'[i] # h /\ queue'[i] \in Attempts
      BY <1>1, ShorterQueue
    <3>2. /\ future[queue'[i]] \in {"pending", "cancelled"}
          /\ caller[queue'[i]] = "out" => future[queue'[i]] = "cancelled"
          /\ \A v \in Workers : busy[v] # queue'[i]
      BY <3>1 DEF QueuedHaveNotBegun
    <3>3. QED BY <1>1, <1>2, <1>4, <3>1, <3>2 DEF PoolTypeOK
  <2>2. QED BY <2>1 DEF QueuedHaveNotBegun
<1>7. OneWorkerEach'
  <2>1. \A v \in Workers : busy[v] # h
    BY <1>1, ShorterQueue DEF QueuedHaveNotBegun
  <2>2. QED BY <1>2, <1>4, <2>1 DEF OneWorkerEach, PoolTypeOK
<1>8. QED BY <1>3, <1>5, <1>6, <1>7

\* The function ends, is made to, or catches what is thrown at it.
LEMMA EndsKeep ==
  ASSUME PoolInv, NEW w \in Workers, Finish(w) \/ Interrupted(w)
  PROVE  PoolInv'
<1> USE DEF PoolInv
<1>1. /\ busy[w] \in Attempts /\ busy[w] # None
      /\ \/ \E how \in {"finished", "timedOut"} :
              future' = [future EXCEPT ![busy[w]] = how] /\ busy' = [busy EXCEPT ![w] = None]
         \/ UNCHANGED <<future, busy>>
      /\ UNCHANGED <<caller, queue, threadId, alive>>
  BY DEF Finish, Interrupted, Over, PoolTypeOK
<1>2. interrupt' \in [Workers -> Attempts \cup {None}]
  BY DEF Finish, Interrupted, PoolTypeOK
<1>3. PoolTypeOK'
  BY <1>1, <1>2 DEF PoolTypeOK
<1>4. QueueIsDistinct'
  BY <1>1 DEF QueueIsDistinct
<1>5. QueuedHaveNotBegun'
  <2>1. \A i \in 1..Len(queue) : queue[i] \in Attempts /\ queue[i] # None
    BY ElementOfSeq, TimeoutPoolAssumption DEF PoolTypeOK
  <2>2. QED BY <1>1, <2>1 DEF QueuedHaveNotBegun, PoolTypeOK
<1>6. OneWorkerEach'
  BY <1>1 DEF OneWorkerEach, PoolTypeOK
<1>7. QED BY <1>3, <1>4, <1>5, <1>6

LEMMA DieKeeps == ASSUME PoolInv, NEW w \in Workers, Die(w) PROVE PoolInv'
<1> USE DEF PoolInv
<1>1. /\ interrupt' = [interrupt EXCEPT ![w] = None] /\ alive' = alive \ {w}
      /\ UNCHANGED <<caller, future, busy, threadId>>
  BY DEF Die
<1>2. CASE UNCHANGED queue
  BY <1>1, <1>2 DEF PoolTypeOK, QueueIsDistinct, QueuedHaveNotBegun, OneWorkerEach
<1>3. CASE queue # <<>> /\ queue' = Tail(queue)
  <2>1. queue' \in Seq(Attempts) /\ Len(queue') <= Cardinality(Attempts)
    BY <1>3, ShorterQueue
  <2>2. PoolTypeOK'
    BY <1>1, <2>1 DEF PoolTypeOK
  <2>3. QueueIsDistinct' /\ OneWorkerEach'
    BY <1>1, <1>3, ShorterQueue DEF QueueIsDistinct, OneWorkerEach
  <2>4. \A i \in 1..Len(queue') : i + 1 \in 1..Len(queue) /\ queue'[i] = queue[i + 1]
    BY <1>3, ShorterQueue
  <2>5. QueuedHaveNotBegun'
    BY <1>1, <2>4 DEF QueuedHaveNotBegun
  <2>6. QED BY <2>2, <2>3, <2>5
<1>4. QED BY <1>2, <1>3 DEF Die

LEMMA PoolInvKept == PoolInv /\ [PoolNext]_poolVars => PoolInv'
<1> SUFFICES ASSUME PoolInv, [PoolNext]_poolVars PROVE PoolInv'
  OBVIOUS
<1>1. ASSUME NEW a \in Attempts, Submit(a) PROVE PoolInv'
  BY <1>1, SubmitKeeps
<1>2. ASSUME NEW a \in Attempts, Collect(a) \/ Expire(a) \/ GiveUp(a) PROVE PoolInv'
  BY <1>2, CallersKeep
<1>3. ASSUME NEW w \in Workers, Take(w) PROVE PoolInv'
  BY <1>3, TakeKeeps
<1>4. ASSUME NEW w \in Workers, StartFunction(w) PROVE PoolInv'
  BY <1>4 DEF StartFunction, PoolInv, PoolTypeOK, QueueIsDistinct, QueuedHaveNotBegun,
              OneWorkerEach
<1>5. ASSUME NEW w \in Workers, Finish(w) \/ Interrupted(w) PROVE PoolInv'
  BY <1>5, EndsKeep
<1>6. ASSUME NEW w \in Workers, Die(w) PROVE PoolInv'
  BY <1>6, DieKeeps
<1>7. CASE UNCHANGED poolVars
  BY <1>7 DEF poolVars, PoolInv, PoolTypeOK, QueueIsDistinct, QueuedHaveNotBegun,
              OneWorkerEach
<1>8. QED BY <1>1, <1>2, <1>3, <1>4, <1>5, <1>6, <1>7 DEF PoolNext

LEMMA PoolInvariance == PoolSpec => []PoolInv
BY PoolInitially, PoolInvKept, PTL DEF PoolSpec

-----------------------------------------------------------------------------
(* TimeoutPool: theorems. *)

\* The types, and a queue that never holds more than one entry for each attempt,
\* those that were given up included.
THEOREM PoolIsAlwaysTyped == PoolSpec => []PoolTypeOK
<1>1. PoolInv => PoolTypeOK
  BY DEF PoolInv
<1>2. QED BY <1>1, PoolInvariance, PTL

\* A worker that begins an attempt took it from the queue.
LEMMA BegunWasWanted ==
  ASSUME PoolInv, [PoolNext]_poolVars, NEW w \in Workers, busy[w] = None, busy'[w] # None
  PROVE  caller[busy'[w]] # "out"
<1>1. ASSUME NEW v \in Workers, Take(v) PROVE caller[busy'[w]] # "out"
  <2>1. /\ queue # <<>> /\ future[Head(queue)] # "cancelled"
        /\ busy' = [busy EXCEPT ![v] = Head(queue)]
    BY <1>1 DEF Take
  <2>2. busy'[w] = Head(queue)
    BY <2>1 DEF PoolInv, PoolTypeOK
  <2>3. QED BY <2>1, <2>2, ShorterQueue DEF PoolInv, QueuedHaveNotBegun
<1>2. ASSUME NEW v \in Workers,
             StartFunction(v) \/ Finish(v) \/ Interrupted(v) \/ Die(v)
      PROVE  FALSE
  BY <1>2 DEF StartFunction, Finish, Interrupted, Over, Die, PoolInv, PoolTypeOK
<1>3. ASSUME NEW a \in Attempts, Submit(a) \/ Collect(a) \/ Expire(a) \/ GiveUp(a)
      PROVE  FALSE
  BY <1>3 DEF Submit, Collect, Expire, GiveUp
<1>4. CASE UNCHANGED poolVars
  BY <1>4 DEF poolVars
<1>5. QED BY <1>1, <1>2, <1>3, <1>4 DEF PoolNext

\* For any number of attempts and workers, an attempt that was given up in the queue
\* never begins (_execute_with_timeout: future.cancel()).
THEOREM AbandonedNeverBegin == PoolSpec => AbandonedNeverBegins
<1>1. PoolInv /\ [PoolNext]_poolVars =>
        \A w \in Workers :
          busy[w] = None /\ busy'[w] # None => caller[busy'[w]] # "out"
  BY BegunWasWanted
<1>2. QED BY <1>1, PoolInvariance, PTL DEF PoolSpec, AbandonedNeverBegins

=============================================================================
