--------------------------- MODULE ExecutorProofs ---------------------------
(***************************************************************************)
(* Proofs about Executor for any finite set of calls, any limits, any      *)
(* lists of exception kinds and any circuit breaker: slots are conserved,  *)
(* the function runs inside the bulkhead, retries are paid for, a closing  *)
(* is announced once, fallbacks are used as configured but around a        *)
(* retry's sleep, and the whole refines BoundedRetries.                    *)
(***************************************************************************)
EXTENDS Executor, BreakerProofs, FiniteSetTheorems

Announcers == {c \in Calls : pc[c] = "announce"}

-----------------------------------------------------------------------------
(* The inductive invariant. *)

Trying == {"run", "announce", "budget", "pause", "sleep", "recheck"}

\* Whether a call holds a slot and how far it got, by the place it is at.  A call
\* refused on waking up may be back at the budget without a slot, but only with
\* an exception, and so never skips the pause.
InPlace ==
  \A c \in Calls :
    /\ pc[c] \in {"idle", "limiter", "bulkhead"} => ~held[c] /\ attempt[c] = 0
    /\ pc[c] \in {"run", "announce", "recheck"} => held[c]
    /\ pc[c] \in {"budget", "pause"} /\ exc[c] = "none" => held[c]
    /\ pc[c] = "sleep" => ~held[c]
    /\ pc[c] \in Trying => attempt[c] >= 1
    /\ pc[c] \in {"budget", "pause", "sleep"} => attempt[c] < MaxAttempts

\* What a call has paid, by the place it is at.
PaidFor ==
  \A c \in Calls :
    /\ pc[c] \in {"run", "recheck", "budget"} => paid[c] >= attempt[c] - 1
    /\ pc[c] \in {"pause", "sleep"} => paid[c] >= attempt[c]

IInv ==
  /\ TypeOK
  /\ Healthy(breaker)
  /\ SlotsConserved
  /\ ClosingAnnouncedOnce
  /\ InPlace
  /\ PaidFor

LEMMA BreakerGiven == ASSUME IInv PROVE breaker \in WellFormed /\ Healthy(breaker)
BY DEF IInv, TypeOK, WellFormed

LEMMA FiniteCounts ==
  /\ IsFiniteSet(Holders) /\ Cardinality(Holders) \in Nat
  /\ IsFiniteSet(Announcers) /\ Cardinality(Announcers) \in Nat
<1>1. Holders \in SUBSET Calls /\ Announcers \in SUBSET Calls
  BY DEF Holders, Announcers
<1>2. IsFiniteSet(Holders) /\ IsFiniteSet(Announcers)
  BY <1>1, FS_Subset, ExecutorAssumption
<1>3. QED BY <1>2, FS_CardinalityType

LEMMA InvariantInitially == Init => IInv
<1> SUFFICES ASSUME Init PROVE IInv
  OBVIOUS
<1>1. breaker \in WellFormed /\ Healthy(breaker)
  BY InitFacts DEF Init
<1>2. Holders = {} /\ {c \in Calls : pc[c] = "announce"} = {}
  BY DEF Init, Holders
<1>3. SlotsConserved /\ ClosingAnnouncedOnce
  BY <1>2, FS_EmptySet, ExecutorAssumption DEF Init, SlotsConserved, ClosingAnnouncedOnce
<1>4. TypeOK
  BY <1>1, ExecutorAssumption DEF Init, TypeOK, WellFormed, Stages, Outcomes
<1>5. InPlace /\ PaidFor
  BY DEF Init, InPlace, PaidFor, Trying
<1>6. QED BY <1>1, <1>3, <1>4, <1>5 DEF IInv

-----------------------------------------------------------------------------
(* The steps actions share. *)

\* A slot is taken by a call that has none, and only if one is free.
LEMMA TakeKeeps ==
  ASSUME IInv, NEW c \in Calls, ~held[c], SlotFree, TakeSlot(c)
  PROVE  SlotsConserved' /\ slots' \in 0..MaxConcurrent /\ held' \in [Calls -> BOOLEAN]
<1>1. held \in [Calls -> BOOLEAN] /\ slots = Cardinality(Holders)
  BY DEF IInv, TypeOK, SlotsConserved
<1>2. Holders' = Holders \cup {c} /\ c \notin Holders
  BY <1>1 DEF TakeSlot, Holders
<1>3. Cardinality(Holders') = Cardinality(Holders) + 1
  BY <1>2, FiniteCounts, FS_AddElement
<1>4. slots' = slots + 1 /\ slots' \in 0..MaxConcurrent
  BY <1>1, FiniteCounts, ExecutorAssumption DEF TakeSlot, SlotFree
<1>5. QED BY <1>1, <1>3, <1>4 DEF SlotsConserved, TakeSlot

\* Releasing gives back exactly the slot the call holds, if any.
LEMMA ReleaseKeeps ==
  ASSUME IInv, NEW c \in Calls, ReleaseSlot(c)
  PROVE  /\ SlotsConserved' /\ slots' \in 0..MaxConcurrent
         /\ held' \in [Calls -> BOOLEAN]
<1>1. held \in [Calls -> BOOLEAN] /\ slots = Cardinality(Holders) /\ slots \in 0..MaxConcurrent
  BY DEF IInv, TypeOK, SlotsConserved
<1>2. Holders' = Holders \ {c} /\ (held[c] <=> c \in Holders)
  BY <1>1 DEF ReleaseSlot, Holders
<1>3. Cardinality(Holders') = IF held[c] THEN Cardinality(Holders) - 1 ELSE Cardinality(Holders)
  BY <1>2, FiniteCounts, FS_RemoveElement
<1>4. IsFiniteSet(Holders') /\ Cardinality(Holders') \in Nat
  BY <1>2, FiniteCounts, FS_RemoveElement, FS_CardinalityType
<1>5. slots' = Cardinality(Holders')
  BY <1>1, <1>3 DEF ReleaseSlot
<1>6. slots' \in 0..MaxConcurrent
  BY <1>1, <1>4, <1>5, ExecutorAssumption DEF ReleaseSlot
<1>7. QED BY <1>1, <1>5, <1>6 DEF SlotsConserved, ReleaseSlot

LEMMA SlotsUntouched ==
  ASSUME IInv, UNCHANGED <<slots, held>>
  PROVE  SlotsConserved' /\ slots' \in 0..MaxConcurrent /\ held' \in [Calls -> BOOLEAN]
BY DEF IInv, TypeOK, SlotsConserved, Holders

\* A call that moves between places other than the announcement.
LEMMA MoveKeeps ==
  ASSUME IInv, NEW c \in Calls, NEW stage \in Stages \ {"announce"},
         Goto(c, stage), pc[c] # "announce", UNCHANGED unannounced
  PROVE  ClosingAnnouncedOnce' /\ pc' \in [Calls -> Stages] /\ unannounced' \in Nat
<1>1. pc \in [Calls -> Stages] /\ unannounced \in Nat
  BY DEF IInv, TypeOK
<1>2. {d \in Calls : pc'[d] = "announce"} = {d \in Calls : pc[d] = "announce"}
  BY <1>1 DEF Goto
<1>3. QED BY <1>1, <1>2 DEF IInv, ClosingAnnouncedOnce, Goto

LEMMA EndsTyped ==
  ASSUME IInv, NEW c \in Calls, NEW how \in Outcomes, NEW e \in Kinds \cup {"none"},
         Ends(c, how, e)
  PROVE  outcome' \in [Calls -> Outcomes] /\ exc' \in [Calls -> Kinds \cup {"none"}]
BY DEF IInv, TypeOK, Ends

-----------------------------------------------------------------------------
(* Before the retry loop. *)

LEMMA ArriveKeeps == ASSUME IInv, NEW c \in Calls, Arrive(c) PROVE IInv'
<1> DEFINE b == CheckRecovery(breaker)
<1>1. b \in WellFormed /\ Healthy(b) /\ breaker' = b
  BY BreakerGiven, CheckRecoveryFollows DEF Follows, Arrive
<1>2. UNCHANGED <<slots, tokens, attempt, held, paid, unannounced>> /\ pc[c] = "idle"
  BY DEF Arrive
<1>3. \/ Goto(c, "limiter") /\ UNCHANGED <<exc, outcome>>
      \/ RejectedEarly(c, "CircuitOpen")
  BY DEF Arrive
<1> HIDE DEF b
<1>4. SlotsConserved' /\ slots' \in 0..MaxConcurrent
  BY <1>2, SlotsUntouched
<1>5. /\ Goto(c, "limiter") \/ Goto(c, "leave")
      /\ exc' \in [Calls -> Kinds \cup {"none"}] /\ outcome' \in [Calls -> Outcomes]
      /\ \A d \in Calls \ {c} : exc'[d] = exc[d]
  BY <1>3 DEF RejectedEarly, Ends, IInv, TypeOK, Kinds, Outcomes
<1>6. ClosingAnnouncedOnce' /\ pc' \in [Calls -> Stages]
  BY <1>2, <1>5, MoveKeeps DEF Stages
<1>7. TypeOK'
  BY <1>1, <1>2, <1>4, <1>5, <1>6 DEF IInv, TypeOK, WellFormed
<1>8. InPlace' /\ PaidFor'
  BY <1>2, <1>5 DEF IInv, TypeOK, InPlace, PaidFor, Goto, Trying
<1>9. QED BY <1>1, <1>4, <1>6, <1>7, <1>8 DEF IInv

LEMMA LimitKeeps == ASSUME IInv, NEW c \in Calls, Limit(c) PROVE IInv'
<1>1. UNCHANGED <<breaker, slots, tokens, attempt, held, paid, unannounced>> /\ pc[c] = "limiter"
  BY DEF Limit
<1>2. /\ Goto(c, "bulkhead") \/ Goto(c, "leave")
      /\ exc' \in [Calls -> Kinds \cup {"none"}] /\ outcome' \in [Calls -> Outcomes]
      /\ \A d \in Calls \ {c} : exc'[d] = exc[d]
  BY DEF Limit, RejectedEarly, Ends, IInv, TypeOK, Kinds, Outcomes
<1>3. SlotsConserved'
  BY <1>1, SlotsUntouched
<1>4. ClosingAnnouncedOnce' /\ pc' \in [Calls -> Stages]
  BY <1>1, <1>2, MoveKeeps DEF Stages
<1>5. TypeOK'
  BY <1>1, <1>2, <1>4 DEF IInv, TypeOK
<1>6. InPlace' /\ PaidFor'
  BY <1>1, <1>2 DEF IInv, TypeOK, InPlace, PaidFor, Goto, Trying
<1>7. QED BY <1>1, <1>3, <1>4, <1>5, <1>6 DEF IInv, Healthy

LEMMA EnterKeeps == ASSUME IInv, NEW c \in Calls, Enter(c) PROVE IInv'
<1>1. pc[c] = "bulkhead" /\ UNCHANGED <<breaker, tokens, paid, unannounced>>
  BY DEF Enter
<1>2. ~held[c] /\ attempt[c] = 0 /\ paid[c] \in Nat
  BY <1>1, ExecutorAssumption DEF IInv, InPlace, TypeOK
<1>3. CASE SlotFree /\ TakeSlot(c) /\ Goto(c, "run") /\ NextAttempt(c) /\ UNCHANGED <<exc, outcome>>
  <2>1. SlotsConserved' /\ slots' \in 0..MaxConcurrent /\ held' \in [Calls -> BOOLEAN]
    BY <1>2, <1>3, TakeKeeps
  <2>2. ClosingAnnouncedOnce' /\ pc' \in [Calls -> Stages]
    BY <1>1, <1>3, MoveKeeps DEF Stages
  <2>3. attempt' \in [Calls -> 0..MaxAttempts] /\ attempt' = [attempt EXCEPT ![c] = 1]
    BY <1>2, <1>3, ExecutorAssumption DEF NextAttempt, IInv, TypeOK
  <2>4. TypeOK'
    BY <1>1, <1>3, <2>1, <2>2, <2>3 DEF IInv, TypeOK
  <2>5. InPlace' /\ PaidFor'
    BY <1>1, <1>2, <1>3, <2>3 DEF IInv, TypeOK, InPlace, PaidFor, Goto, TakeSlot, Trying
  <2>6. QED BY <1>1, <2>1, <2>2, <2>4, <2>5 DEF IInv, Healthy
<1>4. CASE RejectedEarly(c, "BulkheadFull") /\ UNCHANGED <<slots, held, attempt>>
  <2>1. /\ Goto(c, "leave")
        /\ exc' \in [Calls -> Kinds \cup {"none"}] /\ outcome' \in [Calls -> Outcomes]
        /\ \A d \in Calls \ {c} : exc'[d] = exc[d]
    BY <1>4 DEF RejectedEarly, Ends, IInv, TypeOK, Kinds, Outcomes
  <2>2. SlotsConserved'
    BY <1>4, SlotsUntouched
  <2>3. ClosingAnnouncedOnce' /\ pc' \in [Calls -> Stages]
    BY <1>1, <2>1, MoveKeeps DEF Stages
  <2>4. TypeOK'
    BY <1>1, <1>4, <2>1, <2>3 DEF IInv, TypeOK
  <2>5. InPlace' /\ PaidFor'
    BY <1>1, <1>4, <2>1 DEF IInv, TypeOK, InPlace, PaidFor, Goto, Trying
  <2>6. QED BY <1>1, <2>2, <2>3, <2>4, <2>5 DEF IInv, Healthy
<1>5. QED BY <1>3, <1>4 DEF Enter

-----------------------------------------------------------------------------
(* Successes and their announcement. *)

\* record_success_atomic closes the circuit if and only if its caller is told so.
LEMMA ToldWhenClosing ==
  ASSUME IInv, NEW b
  PROVE  AnnouncesClose(CheckRecovery(breaker).state, b.state)
           <=> breaker.state # "CLOSED" /\ b.state = "CLOSED"
<1>1. \/ CheckRecovery(breaker) = breaker
      \/ breaker.state = "OPEN" /\ CheckRecovery(breaker).state = "HALF_OPEN"
  BY BreakerGiven, CheckRecoveryFacts
<1>2. QED BY <1>1 DEF AnnouncesClose

LEMMA SucceedKeeps == ASSUME IInv, NEW c \in Calls, Succeed(c) PROVE IInv'
<1>1. PICK slow \in Speeds :
        LET prev == CheckRecovery(breaker).state
            b == RecordSuccessAtomic(breaker, slow)
        IN  /\ breaker' = b
            /\ unannounced' = IF breaker.state # "CLOSED" /\ b.state = "CLOSED"
                              THEN unannounced + 1 ELSE unannounced
            /\ IF AnnouncesClose(prev, b.state)
               THEN /\ Goto(c, "announce")
                    /\ outcome' = [outcome EXCEPT ![c] = "value"]
                    /\ exc' = [exc EXCEPT ![c] = "none"]
               ELSE Ends(c, "value", "none")
  BY DEF Succeed
<1> DEFINE b == RecordSuccessAtomic(breaker, slow)
           closes == breaker.state # "CLOSED" /\ b.state = "CLOSED"
<1>2. b \in WellFormed /\ Healthy(b)
  BY BreakerGiven, SpeedsAreBoolean, RecordSuccessAtomicFacts DEF Follows
<1>3. /\ breaker' = b
      /\ unannounced' = IF closes THEN unannounced + 1 ELSE unannounced
      /\ Goto(c, IF closes THEN "announce" ELSE "leave")
      /\ outcome' = [outcome EXCEPT ![c] = "value"]
      /\ exc' = [exc EXCEPT ![c] = "none"]
  BY <1>1, ToldWhenClosing DEF Ends
<1> HIDE DEF b, closes
<1>4. UNCHANGED <<slots, tokens, attempt, held, paid>> /\ pc[c] = "run"
  BY DEF Succeed
<1>5. SlotsConserved'
  BY <1>4, SlotsUntouched
<1>6. ClosingAnnouncedOnce' /\ unannounced' \in Nat /\ pc' \in [Calls -> Stages]
  <2>1. pc \in [Calls -> Stages] /\ unannounced = Cardinality(Announcers)
    BY DEF IInv, TypeOK, ClosingAnnouncedOnce, Announcers
  <2>2. CASE closes
    <3>1. Announcers' = Announcers \cup {c} /\ c \notin Announcers
      BY <1>3, <1>4, <2>1, <2>2 DEF Goto, Announcers
    <3>2. Cardinality(Announcers') = Cardinality(Announcers) + 1
      BY <3>1, FiniteCounts, FS_AddElement
    <3>3. pc' \in [Calls -> Stages]
      BY <1>3, <2>1, <2>2 DEF Goto, Stages
    <3>4. QED BY <1>3, <2>1, <2>2, <3>2, <3>3, FiniteCounts DEF ClosingAnnouncedOnce, Announcers
  <2>3. CASE ~closes
    BY <1>3, <1>4, <2>3, MoveKeeps DEF Stages
  <2>4. QED BY <2>2, <2>3
<1>7. TypeOK'
  BY <1>2, <1>3, <1>4, <1>6 DEF IInv, TypeOK, WellFormed, Outcomes
<1>8. InPlace' /\ PaidFor'
  BY <1>3, <1>4 DEF IInv, TypeOK, InPlace, PaidFor, Goto, Trying
<1>9. QED BY <1>2, <1>3, <1>5, <1>6, <1>7, <1>8 DEF IInv

LEMMA AnnounceKeeps == ASSUME IInv, NEW c \in Calls, Announce(c) PROVE IInv'
<1>1. /\ UNCHANGED <<breaker, slots, tokens, attempt, held, exc, outcome, paid>>
      /\ pc[c] = "announce" /\ Goto(c, "leave") /\ unannounced' = unannounced - 1
  BY DEF Announce
<1>2. SlotsConserved'
  BY <1>1, SlotsUntouched
<1>3. pc \in [Calls -> Stages] /\ unannounced = Cardinality(Announcers)
  BY DEF IInv, TypeOK, ClosingAnnouncedOnce, Announcers
<1>4. Announcers' = Announcers \ {c} /\ c \in Announcers
  BY <1>1, <1>3 DEF Goto, Announcers
<1>5. Cardinality(Announcers') = Cardinality(Announcers) - 1 /\ Cardinality(Announcers') \in Nat
  BY <1>4, FiniteCounts, FS_RemoveElement, FS_CardinalityType
<1>6. ClosingAnnouncedOnce' /\ unannounced' \in Nat
  BY <1>1, <1>3, <1>5 DEF ClosingAnnouncedOnce, Announcers
<1>7. TypeOK'
  BY <1>1, <1>6 DEF IInv, TypeOK, Goto, Stages
<1>8. InPlace' /\ PaidFor'
  BY <1>1 DEF IInv, TypeOK, InPlace, PaidFor, Goto, Trying
<1>9. QED BY <1>1, <1>2, <1>6, <1>7, <1>8 DEF IInv, Healthy

-----------------------------------------------------------------------------
(* Failures and retries. *)

\* What becomes of an exception: one more failure for the breaker at most, and a
\* retry only if an attempt is left.
LEMMA HandleFacts ==
  ASSUME IInv, NEW c \in Calls, NEW e \in Kinds, Handle(c, e)
  PROVE  /\ breaker' \in WellFormed /\ Healthy(breaker')
         /\ Goto(c, "leave") \/ (Goto(c, "budget") /\ attempt[c] < MaxAttempts)
         /\ exc' = [exc EXCEPT ![c] = e] /\ exc'[c] # "none"
         /\ outcome' \in [Calls -> Outcomes]
<1>1. breaker' \in WellFormed /\ Healthy(breaker')
  <2>1. CASE UNCHANGED breaker
    BY <2>1, BreakerGiven
  <2>2. CASE \E slow \in Speeds : breaker' = RecordFailure(breaker, slow)
    BY <2>2, BreakerGiven, SpeedsAreBoolean, RecordFailureFacts DEF Follows
  <2>3. QED BY <2>1, <2>2 DEF Handle
<1>2. e # "none"
  BY ExecutorAssumption
<1>3. /\ Goto(c, "leave") \/ (Goto(c, "budget") /\ attempt[c] < MaxAttempts)
      /\ exc' = [exc EXCEPT ![c] = e]
  BY DEF Handle, GivesUp, Ends
<1>4. outcome' \in [Calls -> Outcomes]
  BY DEF Handle, GivesUp, Ends, IInv, TypeOK, Outcomes
<1>5. exc'[c] = e
  BY <1>3 DEF IInv, TypeOK
<1>6. QED BY <1>1, <1>2, <1>3, <1>4, <1>5

LEMMA HandleKeeps ==
  ASSUME IInv, NEW c \in Calls, NEW e \in Kinds, Handle(c, e), pc[c] \in {"run", "pause", "sleep"},
         UNCHANGED <<slots, tokens, attempt, held, paid, unannounced>>
  PROVE  IInv'
<1>1. /\ breaker' \in WellFormed /\ Healthy(breaker')
      /\ Goto(c, "leave") \/ (Goto(c, "budget") /\ attempt[c] < MaxAttempts)
      /\ exc' = [exc EXCEPT ![c] = e] /\ exc'[c] # "none"
      /\ outcome' \in [Calls -> Outcomes]
  BY HandleFacts
<1>2. SlotsConserved'
  BY SlotsUntouched
<1>3. ClosingAnnouncedOnce' /\ pc' \in [Calls -> Stages]
  BY <1>1, MoveKeeps DEF Stages
<1>4. TypeOK'
  BY <1>1, <1>3 DEF IInv, TypeOK, WellFormed
<1>5. InPlace'
  BY <1>1 DEF IInv, TypeOK, InPlace, Goto, Trying
<1>6. PaidFor'
  BY <1>1 DEF IInv, TypeOK, PaidFor, Goto
<1>7. QED BY <1>1, <1>2, <1>3, <1>4, <1>5, <1>6 DEF IInv

LEMMA FailKeeps == ASSUME IInv, NEW c \in Calls, Fail(c) PROVE IInv'
<1>1. PICK e \in Errors : Handle(c, e)
  BY DEF Fail
<1>2. e \in Kinds
  BY DEF Kinds
<1>3. QED BY <1>1, <1>2, HandleKeeps DEF Fail

\* A move that takes no slot, leaves the breaker alone and pays nothing.
LEMMA QuietMoveKeeps ==
  ASSUME IInv, NEW c \in Calls, NEW stage \in Stages \ {"announce"}, Goto(c, stage),
         pc[c] # "announce", UNCHANGED <<breaker, slots, tokens, attempt, held, paid, unannounced>>,
         exc' \in [Calls -> Kinds \cup {"none"}], outcome' \in [Calls -> Outcomes],
         InPlace', PaidFor'
  PROVE  IInv'
<1>1. SlotsConserved'
  BY SlotsUntouched
<1>2. ClosingAnnouncedOnce' /\ pc' \in [Calls -> Stages]
  BY MoveKeeps
<1>3. TypeOK'
  BY <1>2 DEF IInv, TypeOK
<1>4. QED BY <1>1, <1>2, <1>3 DEF IInv, Healthy

LEMMA DisappointKeeps == ASSUME IInv, NEW c \in Calls, Disappoint(c) PROVE IInv'
<1>1. /\ pc[c] = "run"
      /\ UNCHANGED <<breaker, slots, tokens, attempt, held, paid, unannounced>>
      /\ Goto(c, "leave") \/ (Goto(c, "budget") /\ attempt[c] < MaxAttempts)
      /\ exc' = [exc EXCEPT ![c] = "none"]
  BY DEF Disappoint, Ends
<1>2. outcome' \in [Calls -> Outcomes] /\ exc' \in [Calls -> Kinds \cup {"none"}]
  BY DEF Disappoint, Ends, IInv, TypeOK, Outcomes
<1>3. InPlace' /\ PaidFor'
  BY <1>1 DEF IInv, TypeOK, InPlace, PaidFor, Goto, Trying
<1>4. QED BY <1>1, <1>2, <1>3, QuietMoveKeeps DEF Stages

LEMMA AskBudgetKeeps == ASSUME IInv, NEW c \in Calls, AskBudget(c) PROVE IInv'
<1>1. pc[c] = "budget" /\ UNCHANGED <<breaker, slots, attempt, held, unannounced>>
  BY DEF AskBudget
<1>2. CASE tokens > 0 /\ SpendToken(c) /\ Goto(c, "pause") /\ UNCHANGED <<exc, outcome>>
  <2>1. paid[c] \in 0..MaxAttempts /\ attempt[c] \in 0..MaxAttempts /\ paid[c] >= attempt[c] - 1
    BY <1>1 DEF IInv, TypeOK, PaidFor
  <2>2. /\ paid' \in [Calls -> 0..MaxAttempts]
        /\ paid'[c] >= attempt[c]
        /\ \A d \in Calls \ {c} : paid'[d] = paid[d]
    BY <1>2, <2>1, ExecutorAssumption DEF SpendToken, IInv, TypeOK
  <2>3. tokens' \in 0..MaxRetries
    BY <1>2, ExecutorAssumption DEF SpendToken, IInv, TypeOK
  <2>4. SlotsConserved'
    BY <1>1, SlotsUntouched
  <2>5. ClosingAnnouncedOnce' /\ pc' \in [Calls -> Stages]
    BY <1>1, <1>2, MoveKeeps DEF Stages
  <2>6. TypeOK'
    BY <1>1, <1>2, <2>2, <2>3, <2>5 DEF IInv, TypeOK
  <2>7. InPlace'
    BY <1>1, <1>2 DEF IInv, TypeOK, InPlace, Goto, Trying
  <2>8. PaidFor'
    BY <1>1, <1>2, <2>2 DEF IInv, TypeOK, PaidFor, Goto
  <2>9. QED BY <1>1, <2>4, <2>5, <2>6, <2>7, <2>8 DEF IInv, Healthy
<1>3. CASE /\ tokens = 0
           /\ IF exc[c] = "none" THEN Ends(c, "value", "none") ELSE GivesUp(c, exc[c])
           /\ UNCHANGED <<tokens, paid>>
  <2>1. Goto(c, "leave") /\ exc' \in [Calls -> Kinds \cup {"none"}] /\ outcome' \in [Calls -> Outcomes]
    BY <1>3 DEF GivesUp, Ends, IInv, TypeOK, Outcomes
  <2>2. \A d \in Calls \ {c} : exc'[d] = exc[d]
    BY <1>3 DEF GivesUp, Ends, IInv, TypeOK
  <2>3. InPlace' /\ PaidFor'
    BY <1>1, <1>3, <2>1, <2>2 DEF IInv, TypeOK, InPlace, PaidFor, Goto, Trying
  <2>4. QED BY <1>1, <1>3, <2>1, <2>3, QuietMoveKeeps DEF Stages
<1>4. QED BY <1>2, <1>3 DEF AskBudget

LEMMA PauseKeeps == ASSUME IInv, NEW c \in Calls, Pause(c) PROVE IInv'
<1>1. /\ pc[c] = "pause" /\ ReleaseSlot(c) /\ Goto(c, "sleep")
      /\ UNCHANGED <<breaker, tokens, attempt, exc, outcome, paid, unannounced>>
  BY DEF Pause
<1>2. SlotsConserved' /\ slots' \in 0..MaxConcurrent /\ held' \in [Calls -> BOOLEAN]
  BY <1>1, ReleaseKeeps
<1>3. ClosingAnnouncedOnce' /\ pc' \in [Calls -> Stages]
  BY <1>1, MoveKeeps DEF Stages
<1>4. TypeOK'
  BY <1>1, <1>2, <1>3 DEF IInv, TypeOK
<1>5. held' = [held EXCEPT ![c] = FALSE]
  BY <1>1 DEF ReleaseSlot
<1>6. InPlace' /\ PaidFor'
  BY <1>1, <1>5 DEF IInv, TypeOK, InPlace, PaidFor, Goto, Trying
<1>7. QED BY <1>1, <1>2, <1>3, <1>4, <1>6 DEF IInv, Healthy

\* One more attempt: it is still within the maximum, and paid for.
LEMMA NextAttemptFacts ==
  ASSUME IInv, NEW c \in Calls, pc[c] \in {"pause", "sleep"}, NextAttempt(c)
  PROVE  /\ attempt' \in [Calls -> 0..MaxAttempts]
         /\ attempt' = [attempt EXCEPT ![c] = attempt[c] + 1]
         /\ attempt[c] >= 1 /\ attempt[c] < MaxAttempts /\ paid[c] >= attempt[c]
<1>1. attempt[c] >= 1 /\ attempt[c] < MaxAttempts /\ paid[c] >= attempt[c]
  BY DEF IInv, InPlace, PaidFor, Trying
<1>2. attempt[c] + 1 \in 0..MaxAttempts
  BY <1>1, ExecutorAssumption DEF IInv, TypeOK
<1>3. QED BY <1>1, <1>2 DEF IInv, TypeOK, NextAttempt

LEMMA SkipPauseKeeps == ASSUME IInv, NEW c \in Calls, SkipPause(c) PROVE IInv'
<1>1. /\ pc[c] = "pause" /\ exc[c] = "none" /\ Goto(c, "recheck") /\ NextAttempt(c)
      /\ UNCHANGED <<breaker, slots, tokens, held, exc, outcome, paid, unannounced>>
  BY DEF SkipPause
<1>2. /\ attempt' \in [Calls -> 0..MaxAttempts]
      /\ attempt' = [attempt EXCEPT ![c] = attempt[c] + 1]
      /\ attempt[c] >= 1 /\ paid[c] >= attempt[c]
  BY <1>1, NextAttemptFacts
<1>3. SlotsConserved'
  BY <1>1, SlotsUntouched
<1>4. ClosingAnnouncedOnce' /\ pc' \in [Calls -> Stages]
  BY <1>1, MoveKeeps DEF Stages
<1>5. TypeOK'
  BY <1>1, <1>2, <1>4 DEF IInv, TypeOK
<1>6. attempt[c] \in Nat /\ paid[c] \in Nat
  BY ExecutorAssumption DEF IInv, TypeOK
<1>7. InPlace'
  BY <1>1, <1>2, <1>6 DEF IInv, TypeOK, InPlace, Goto, Trying
<1>8. PaidFor'
  BY <1>1, <1>2, <1>6 DEF IInv, TypeOK, PaidFor, Goto
<1>9. QED BY <1>1, <1>3, <1>4, <1>5, <1>7, <1>8 DEF IInv, Healthy

LEMMA WakeKeeps == ASSUME IInv, NEW c \in Calls, Wake(c) PROVE IInv'
<1>1. /\ pc[c] = "sleep" /\ SlotFree /\ TakeSlot(c) /\ NextAttempt(c) /\ Goto(c, "recheck")
      /\ UNCHANGED <<breaker, tokens, exc, outcome, paid, unannounced>>
  BY DEF Wake
<1>2. /\ attempt' \in [Calls -> 0..MaxAttempts]
      /\ attempt' = [attempt EXCEPT ![c] = attempt[c] + 1]
      /\ attempt[c] >= 1 /\ paid[c] >= attempt[c]
  BY <1>1, NextAttemptFacts
<1>3. ~held[c]
  BY <1>1 DEF IInv, InPlace
<1>4. SlotsConserved' /\ slots' \in 0..MaxConcurrent /\ held' \in [Calls -> BOOLEAN]
  BY <1>1, <1>3, TakeKeeps
<1>5. ClosingAnnouncedOnce' /\ pc' \in [Calls -> Stages]
  BY <1>1, MoveKeeps DEF Stages
<1>6. TypeOK'
  BY <1>1, <1>2, <1>4, <1>5 DEF IInv, TypeOK
<1>7. attempt[c] \in Nat /\ paid[c] \in Nat /\ held' = [held EXCEPT ![c] = TRUE]
  BY <1>1, ExecutorAssumption DEF IInv, TypeOK, TakeSlot
<1>8. InPlace'
  BY <1>1, <1>2, <1>7 DEF IInv, TypeOK, InPlace, Goto, Trying
<1>9. PaidFor'
  BY <1>1, <1>2, <1>7 DEF IInv, TypeOK, PaidFor, Goto
<1>10. QED BY <1>1, <1>4, <1>5, <1>6, <1>8, <1>9 DEF IInv, Healthy

\* An exception around the sleep: handled like the function's, or on its way out.
LEMMA SleeplessKeeps ==
  ASSUME IInv, NEW c \in Calls, NEW e \in Kinds, pc[c] \in {"pause", "sleep"},
         Handle(c, e) \/ (Ends(c, "raised", e) /\ UNCHANGED breaker),
         UNCHANGED <<slots, tokens, attempt, held, paid, unannounced>>
  PROVE  IInv'
<1>2. CASE Handle(c, e)
  BY <1>2, HandleKeeps
<1>3. CASE Ends(c, "raised", e) /\ UNCHANGED breaker
  <2>1. /\ Goto(c, "leave")
        /\ exc' \in [Calls -> Kinds \cup {"none"}] /\ outcome' \in [Calls -> Outcomes]
        /\ \A d \in Calls \ {c} : exc'[d] = exc[d]
    BY <1>3 DEF Ends, IInv, TypeOK, Outcomes
  <2>2. InPlace' /\ PaidFor'
    BY <2>1 DEF IInv, TypeOK, InPlace, PaidFor, Goto, Trying
  <2>3. QED BY <1>3, <2>1, <2>2, QuietMoveKeeps DEF Stages
<1>4. QED BY <1>2, <1>3

LEMMA WakeRefusedKeeps == ASSUME IInv, NEW c \in Calls, WakeRefused(c) PROVE IInv'
BY SleeplessKeeps DEF WakeRefused, Kinds

LEMMA DelayRaisesKeeps == ASSUME IInv, NEW c \in Calls, DelayRaises(c) PROVE IInv'
BY SleeplessKeeps DEF DelayRaises, Kinds

LEMMA RecheckKeeps == ASSUME IInv, NEW c \in Calls, Recheck(c) PROVE IInv'
<1> DEFINE b == CheckRecovery(breaker)
<1>1. b \in WellFormed /\ Healthy(b) /\ breaker' = b
  BY BreakerGiven, CheckRecoveryFollows DEF Follows, Recheck
<1>2. UNCHANGED <<slots, tokens, attempt, held, paid, unannounced>> /\ pc[c] = "recheck"
  BY DEF Recheck
<1>3. \/ Goto(c, "run") /\ UNCHANGED <<exc, outcome>>
      \/ GivesUp(c, "CircuitOpen")
  BY DEF Recheck
<1> HIDE DEF b
<1>4. SlotsConserved' /\ slots' \in 0..MaxConcurrent
  BY <1>2, SlotsUntouched
<1>5. /\ Goto(c, "run") \/ Goto(c, "leave")
      /\ exc' \in [Calls -> Kinds \cup {"none"}] /\ outcome' \in [Calls -> Outcomes]
      /\ \A d \in Calls \ {c} : exc'[d] = exc[d]
  BY <1>3 DEF GivesUp, Ends, IInv, TypeOK, Kinds, Outcomes
<1>6. ClosingAnnouncedOnce' /\ pc' \in [Calls -> Stages]
  BY <1>2, <1>5, MoveKeeps DEF Stages
<1>7. TypeOK'
  BY <1>1, <1>2, <1>5, <1>6 DEF IInv, TypeOK, WellFormed
<1>8. InPlace' /\ PaidFor'
  BY <1>2, <1>5 DEF IInv, TypeOK, InPlace, PaidFor, Goto, Trying
<1>9. QED BY <1>1, <1>4, <1>6, <1>7, <1>8 DEF IInv

-----------------------------------------------------------------------------
(* The end of a call, and the environment. *)

LEMMA AbortKeeps == ASSUME IInv, NEW c \in Calls, Abort(c) PROVE IInv'
<1>1. /\ pc[c] \in {"limiter", "bulkhead", "run", "sleep"}
      /\ UNCHANGED <<breaker, slots, tokens, attempt, held, paid, unannounced>>
      /\ Goto(c, "leave") /\ exc' = [exc EXCEPT ![c] = "none"]
  BY DEF Abort, Ends
<1>2. outcome' \in [Calls -> Outcomes] /\ exc' \in [Calls -> Kinds \cup {"none"}]
  BY DEF Abort, Ends, IInv, TypeOK, Outcomes
<1>3. InPlace' /\ PaidFor'
  BY <1>1 DEF IInv, TypeOK, InPlace, PaidFor, Goto, Trying
<1>4. QED BY <1>1, <1>2, <1>3, QuietMoveKeeps DEF Stages

LEMMA LeaveKeeps == ASSUME IInv, NEW c \in Calls, Leave(c) PROVE IInv'
<1>1. /\ pc[c] = "leave" /\ ReleaseSlot(c) /\ Goto(c, "idle")
      /\ attempt' = [attempt EXCEPT ![c] = 0] /\ exc' = [exc EXCEPT ![c] = "none"]
      /\ outcome' = [outcome EXCEPT ![c] = "none"] /\ paid' = [paid EXCEPT ![c] = 0]
      /\ UNCHANGED <<breaker, tokens, unannounced>>
  BY DEF Leave
<1>2. SlotsConserved' /\ slots' \in 0..MaxConcurrent /\ held' \in [Calls -> BOOLEAN]
  BY <1>1, ReleaseKeeps
<1>3. ClosingAnnouncedOnce' /\ pc' \in [Calls -> Stages]
  BY <1>1, MoveKeeps DEF Stages
<1>4. TypeOK'
  <2>1. attempt' \in [Calls -> 0..MaxAttempts] /\ paid' \in [Calls -> 0..MaxAttempts]
    BY <1>1, ExecutorAssumption DEF IInv, TypeOK
  <2>2. exc' \in [Calls -> Kinds \cup {"none"}] /\ outcome' \in [Calls -> Outcomes]
    BY <1>1 DEF IInv, TypeOK, Outcomes
  <2>3. QED BY <1>1, <1>2, <1>3, <2>1, <2>2 DEF IInv, TypeOK
<1>5. held' = [held EXCEPT ![c] = FALSE]
  BY <1>1 DEF ReleaseSlot
<1>6. InPlace' /\ PaidFor'
  BY <1>1, <1>5 DEF IInv, TypeOK, InPlace, PaidFor, Goto, Trying
<1>7. QED BY <1>1, <1>2, <1>3, <1>4, <1>6 DEF IInv, Healthy

LEMMA TickKeeps == ASSUME IInv, Tick PROVE IInv'
<1>1. /\ breaker' \in WellFormed /\ breaker'.state = breaker.state
      /\ breaker'.window = breaker.window /\ breaker'.failureCount = breaker.failureCount
  BY BreakerGiven, ElapseFacts DEF Tick
<1>2. Healthy(breaker')
  BY <1>1, BreakerGiven DEF Healthy
<1>3. UNCHANGED <<slots, tokens, pc, attempt, held, exc, outcome, paid, unannounced>>
  BY DEF Tick, progress
<1>4. SlotsConserved'
  BY <1>3, SlotsUntouched
<1>5. TypeOK' /\ ClosingAnnouncedOnce' /\ InPlace' /\ PaidFor'
  BY <1>1, <1>3 DEF IInv, TypeOK, WellFormed, ClosingAnnouncedOnce, InPlace, PaidFor
<1>6. QED BY <1>2, <1>4, <1>5 DEF IInv

LEMMA RefillKeeps == ASSUME IInv, Refill PROVE IInv'
<1>1. /\ tokens' \in 0..MaxRetries
      /\ UNCHANGED <<breaker, slots, pc, attempt, held, exc, outcome, paid, unannounced>>
  BY ExecutorAssumption DEF Refill, progress, IInv, TypeOK
<1>2. SlotsConserved'
  BY <1>1, SlotsUntouched
<1>3. TypeOK' /\ Healthy(breaker)' /\ ClosingAnnouncedOnce' /\ InPlace' /\ PaidFor'
  BY <1>1 DEF IInv, TypeOK, Healthy, ClosingAnnouncedOnce, InPlace, PaidFor
<1>4. QED BY <1>2, <1>3 DEF IInv

LEMMA InvariantKept == IInv /\ [Next]_vars => IInv'
<1> SUFFICES ASSUME IInv, [Next]_vars PROVE IInv'
  OBVIOUS
<1>1. ASSUME NEW c \in Calls, Arrive(c) PROVE IInv'
  BY <1>1, ArriveKeeps
<1>2. ASSUME NEW c \in Calls, Advance(c) PROVE IInv'
  BY <1>2, LimitKeeps, EnterKeeps, SucceedKeeps, AnnounceKeeps, DisappointKeeps, FailKeeps,
     AskBudgetKeeps, PauseKeeps, SkipPauseKeeps, WakeKeeps, WakeRefusedKeeps, DelayRaisesKeeps,
     RecheckKeeps, LeaveKeeps
  DEF Advance
<1>3. ASSUME NEW c \in Calls, Abort(c) PROVE IInv'
  BY <1>3, AbortKeeps
<1>4. CASE Tick
  BY <1>4, TickKeeps
<1>5. CASE Refill
  BY <1>5, RefillKeeps
<1>6. CASE UNCHANGED vars
  <2>1. UNCHANGED <<breaker, slots, tokens, pc, attempt, held, exc, outcome, paid, unannounced>>
    BY <1>6 DEF vars, progress
  <2>2. SlotsConserved'
    BY <2>1, SlotsUntouched
  <2>3. TypeOK' /\ Healthy(breaker)' /\ ClosingAnnouncedOnce' /\ InPlace' /\ PaidFor'
    BY <2>1 DEF IInv, TypeOK, Healthy, ClosingAnnouncedOnce, InPlace, PaidFor
  <2>4. QED BY <2>2, <2>3 DEF IInv
<1>7. QED BY <1>1, <1>2, <1>3, <1>4, <1>5, <1>6 DEF Next

-----------------------------------------------------------------------------
(* Theorems. *)

LEMMA Invariance == Spec => []IInv
BY InvariantInitially, InvariantKept, PTL DEF Spec

\* The state of the pipeline is always well typed; in particular the breaker record
\* stays one whatever the executor does to it.
THEOREM TypeCorrect == Spec => []TypeOK
BY Invariance, PTL DEF IInv

\* The bulkhead counts exactly the calls that believe they hold a slot, through
\* retries, refusals on waking up and cancellations (bulkhead_held, finally).
THEOREM SlotsAlwaysConserved == Spec => []SlotsConserved
BY Invariance, PTL DEF IInv

\* Every attempt of the function runs inside the bulkhead (_execute_with_retry,
\* which releases and re-acquires the slot around each sleep).
THEOREM AlwaysRunsInsideBulkhead == Spec => []RunsInsideBulkhead
<1>1. IInv => RunsInsideBulkhead
  BY DEF IInv, InPlace, RunsInsideBulkhead
<1>2. QED BY <1>1, Invariance, PTL

\* No attempt after the first starts without a retry token having been taken for it,
\* on the exception path and on the result path (_check_retry_budget).
THEOREM RetriesAreAlwaysPaid == Spec => []RetriesArePaid
<1>1. IInv => RetriesArePaid
  BY DEF IInv, PaidFor, RetriesArePaid
<1>2. QED BY <1>1, Invariance, PTL

\* Every closing of the circuit is announced by exactly one call, however many
\* successes overlap (record_success_atomic and the states its callers compare).
THEOREM ClosingAlwaysAnnouncedOnce == Spec => []ClosingAnnouncedOnce
BY Invariance, PTL DEF IInv

-----------------------------------------------------------------------------
(* How calls end. *)

Rejections == {"CircuitOpen", "RateLimited", "BulkheadFull"}

AroundSleep == DelayErrors \cup {"BulkheadFull"}

\* Of the kinds that fallback_on lists and ignore_on does not, only those raised around
\* a sleep reach the caller, and only where calls are retried.
EndedWell(how, e) ==
  /\ how = "fallback" => e \in FallbackOn \cup Rejections
  /\ how = "raised" /\ HasFallback /\ e \in FallbackOn \ IgnoreOn =>
       e \in AroundSleep /\ MaxAttempts > 1

EndsInPlace ==
  \A c \in Calls :
    /\ pc[c] \notin {"announce", "leave"} => outcome[c] = "none"
    /\ EndedWell(outcome[c], exc[c])

\* Only call c moves, and if it ends, it ends well.
LEMMA OneCallMoves ==
  ASSUME EndsInPlace, NEW c \in Calls,
         \A d \in Calls \ {c} : pc'[d] = pc[d] /\ outcome'[d] = outcome[d] /\ exc'[d] = exc[d],
         pc'[c] \notin {"announce", "leave"} => outcome'[c] = "none",
         EndedWell(outcome'[c], exc'[c])
  PROVE  EndsInPlace'
BY DEF EndsInPlace

LEMMA NoOutcomeYet == \A e : EndedWell("none", e) /\ EndedWell("value", e) /\ EndedWell("aborted", e)
BY DEF EndedWell

LEMMA EndingKeeps ==
  ASSUME TypeOK, EndsInPlace, NEW c \in Calls, NEW how, NEW e, EndedWell(how, e), Ends(c, how, e)
  PROVE  EndsInPlace'
<1>1. /\ pc'[c] = "leave" /\ outcome'[c] = how /\ exc'[c] = e
      /\ \A d \in Calls \ {c} : pc'[d] = pc[d] /\ outcome'[d] = outcome[d] /\ exc'[d] = exc[d]
  BY DEF Ends, Goto, TypeOK
<1>2. QED BY <1>1, OneCallMoves

\* A call that goes on has no outcome yet, whatever exception it handles.
LEMMA GoingOnKeeps ==
  ASSUME TypeOK, EndsInPlace, NEW c \in Calls, pc[c] \notin {"announce", "leave"},
         NEW stage, Goto(c, stage), UNCHANGED outcome,
         \A d \in Calls \ {c} : exc'[d] = exc[d]
  PROVE  EndsInPlace'
<1>1. /\ \A d \in Calls \ {c} : pc'[d] = pc[d] /\ outcome'[d] = outcome[d] /\ exc'[d] = exc[d]
      /\ outcome'[c] = "none"
  BY DEF Goto, TypeOK, EndsInPlace
<1>2. QED BY <1>1, NoOutcomeYet, OneCallMoves

LEMMA RejectionKeeps ==
  ASSUME TypeOK, EndsInPlace, NEW c \in Calls, NEW e \in Rejections, RejectedEarly(c, e)
  PROVE  EndsInPlace'
<1>1. EndedWell(IF HasFallback THEN "fallback" ELSE "raised", e)
  BY DEF EndedWell
<1>2. QED BY <1>1, EndingKeeps DEF RejectedEarly

LEMMA GivingUpKeeps ==
  ASSUME TypeOK, EndsInPlace, NEW c \in Calls, NEW e, GivesUp(c, e)
  PROVE  EndsInPlace'
<1>1. EndedWell(IF HasFallback /\ e \in FallbackOn THEN "fallback" ELSE "raised", e)
  BY DEF EndedWell
<1>2. QED BY <1>1, EndingKeeps DEF GivesUp

LEMMA HandlingKeeps ==
  ASSUME TypeOK, EndsInPlace, NEW c \in Calls, pc[c] \notin {"announce", "leave"},
         NEW e, Handle(c, e)
  PROVE  EndsInPlace'
<1>1. CASE e \in IgnoreOn
  <2>1. EndedWell("raised", e)
    BY <1>1 DEF EndedWell
  <2>2. QED BY <1>1, <2>1, EndingKeeps DEF Handle
<1>2. CASE e \notin IgnoreOn /\ attempt[c] < MaxAttempts /\ e \in RetryOn
  <2>1. Goto(c, "budget") /\ UNCHANGED outcome /\ exc' = [exc EXCEPT ![c] = e]
    BY <1>2 DEF Handle
  <2>2. \A d \in Calls \ {c} : exc'[d] = exc[d]
    BY <2>1 DEF TypeOK
  <2>3. QED BY <2>1, <2>2, GoingOnKeeps
<1>3. CASE e \notin IgnoreOn /\ ~(attempt[c] < MaxAttempts /\ e \in RetryOn)
  BY <1>3, GivingUpKeeps DEF Handle
<1>4. QED BY <1>1, <1>2, <1>3

\* Limiter, bulkhead and circuit breaker let a call pass or end it.
LEMMA GatesKeepEnds ==
  ASSUME TypeOK, EndsInPlace, NEW c \in Calls,
         Arrive(c) \/ Limit(c) \/ Enter(c) \/ Recheck(c)
  PROVE  EndsInPlace'
<1>1. pc[c] \notin {"announce", "leave"}
  BY DEF Arrive, Limit, Enter, Recheck
<1>2. \/ \E stage \in Stages : Goto(c, stage) /\ UNCHANGED <<exc, outcome>>
      \/ \E e \in Rejections : RejectedEarly(c, e)
      \/ GivesUp(c, "CircuitOpen")
  BY DEF Arrive, Limit, Enter, Recheck, Rejections, Stages
<1>3. QED BY <1>1, <1>2, GoingOnKeeps, RejectionKeeps, GivingUpKeeps

LEMMA AttemptsKeepEnds ==
  ASSUME TypeOK, EndsInPlace, NEW c \in Calls,
         Succeed(c) \/ Disappoint(c) \/ Fail(c) \/ Abort(c)
  PROVE  EndsInPlace'
<1>1. pc[c] \notin {"announce", "leave"}
  BY DEF Succeed, Disappoint, Fail, Abort
<1>2. CASE Succeed(c)
  <2>1. \/ Ends(c, "value", "none")
        \/ /\ Goto(c, "announce") /\ outcome' = [outcome EXCEPT ![c] = "value"]
           /\ exc' = [exc EXCEPT ![c] = "none"]
    BY <1>2 DEF Succeed
  <2>2. /\ pc'[c] \in {"announce", "leave"} /\ outcome'[c] = "value"
        /\ \A d \in Calls \ {c} : pc'[d] = pc[d] /\ outcome'[d] = outcome[d] /\ exc'[d] = exc[d]
    BY <2>1 DEF Ends, Goto, TypeOK
  <2>3. QED BY <2>2, NoOutcomeYet, OneCallMoves
<1>3. CASE Disappoint(c)
  <2>1. \/ Ends(c, "value", "none")
        \/ Goto(c, "budget") /\ UNCHANGED outcome /\ exc' = [exc EXCEPT ![c] = "none"]
    BY <1>3 DEF Disappoint
  <2>2. exc' = [exc EXCEPT ![c] = "none"] => \A d \in Calls \ {c} : exc'[d] = exc[d]
    BY DEF TypeOK
  <2>3. QED BY <1>1, <2>1, <2>2, NoOutcomeYet, EndingKeeps, GoingOnKeeps
<1>4. CASE Fail(c)
  BY <1>1, <1>4, HandlingKeeps DEF Fail
<1>5. CASE Abort(c)
  BY <1>5, NoOutcomeYet, EndingKeeps DEF Abort
<1>6. QED BY <1>2, <1>3, <1>4, <1>5

LEMMA RetriesKeepEnds ==
  ASSUME IInv, EndsInPlace, NEW c \in Calls,
         \/ AskBudget(c) \/ Pause(c) \/ SkipPause(c) \/ Wake(c) \/ WakeRefused(c)
         \/ DelayRaises(c)
  PROVE  EndsInPlace'
<1>1. TypeOK /\ pc[c] \notin {"announce", "leave"}
  BY DEF IInv, AskBudget, Pause, SkipPause, Wake, WakeRefused, DelayRaises
<1>2. CASE WakeRefused(c) \/ DelayRaises(c)
  <2>1. attempt[c] >= 1 /\ attempt[c] < MaxAttempts
    BY <1>2 DEF IInv, InPlace, Trying, WakeRefused, DelayRaises
  <2>2. MaxAttempts > 1
    BY <1>1, <2>1, ExecutorAssumption DEF TypeOK
  <2>3. \A e \in AroundSleep : EndedWell("raised", e)
    BY <2>2 DEF EndedWell
  <2>4. \E e \in AroundSleep : Handle(c, e) \/ Ends(c, "raised", e)
    BY <1>2 DEF WakeRefused, DelayRaises, AroundSleep
  <2>5. QED BY <1>1, <2>3, <2>4, HandlingKeeps, EndingKeeps
<1>3. CASE ~(WakeRefused(c) \/ DelayRaises(c))
  <2>1. \/ \E stage \in Stages : Goto(c, stage) /\ UNCHANGED <<exc, outcome>>
        \/ Ends(c, "value", "none")
        \/ GivesUp(c, exc[c])
    BY <1>3 DEF AskBudget, Pause, SkipPause, Wake, Stages
  <2>2. QED BY <1>1, <2>1, NoOutcomeYet, GoingOnKeeps, EndingKeeps, GivingUpKeeps
<1>4. QED BY <1>2, <1>3

LEMMA ExitsKeepEnds ==
  ASSUME TypeOK, EndsInPlace, NEW c \in Calls, Announce(c) \/ Leave(c)
  PROVE  EndsInPlace'
<1>1. \A d \in Calls \ {c} : pc'[d] = pc[d] /\ outcome'[d] = outcome[d] /\ exc'[d] = exc[d]
  BY DEF Announce, Leave, Goto, TypeOK
<1>2. CASE Announce(c)
  <2>1. pc'[c] = "leave" /\ outcome'[c] = outcome[c] /\ exc'[c] = exc[c]
    BY <1>2 DEF Announce, Goto, TypeOK
  <2>2. EndedWell(outcome'[c], exc'[c])
    BY <2>1 DEF EndsInPlace
  <2>3. QED BY <1>1, <2>1, <2>2, OneCallMoves
<1>3. CASE Leave(c)
  <2>1. outcome'[c] = "none"
    BY <1>3 DEF Leave, TypeOK
  <2>2. QED BY <1>1, <2>1, NoOutcomeYet, OneCallMoves
<1>4. QED BY <1>2, <1>3

LEMMA EndsInvariance == Spec => []EndsInPlace
<1>1. Init => EndsInPlace
  BY NoOutcomeYet DEF Init, EndsInPlace
<1>2. IInv /\ EndsInPlace /\ [Next]_vars => EndsInPlace'
  <2> SUFFICES ASSUME IInv, EndsInPlace, [Next]_vars PROVE EndsInPlace'
    OBVIOUS
  <2>1. TypeOK
    BY DEF IInv
  <2>2. ASSUME NEW c \in Calls, Arrive(c) \/ Advance(c) \/ Abort(c) PROVE EndsInPlace'
    BY <2>1, <2>2, GatesKeepEnds, AttemptsKeepEnds, RetriesKeepEnds, ExitsKeepEnds DEF Advance
  <2>3. ASSUME UNCHANGED <<pc, outcome, exc>> PROVE EndsInPlace'
    BY <2>3 DEF EndsInPlace
  <2>4. QED BY <2>2, <2>3 DEF Next, Tick, Refill, vars, progress
<1>3. QED BY <1>1, <1>2, Invariance, PTL DEF Spec

\* bulkhead.md is right about the fallback where calls are not retried, and where they are
\* about every kind that is not raised around the sleep before a retry, by a bulkhead found
\* full, delay_func or the sleep itself: what fallback_on lists and ignore_on does not
\* never reaches the caller (_execute_with_retry).
THEOREM FallbackMissesSleepsOnly ==
  ASSUME MaxAttempts = 1 \/ FallbackOn \cap AroundSleep \subseteq IgnoreOn
  PROVE  Spec => []FallbackCoversListed
<1>1. EndsInPlace => FallbackCoversListed
  BY DEF EndsInPlace, EndedWell, FallbackCoversListed
<1>2. QED BY <1>1, EndsInvariance, PTL

\* fallback_on means what _types.py says where it lists the three rejections, as it does by
\* default: no exception that is not listed triggers the fallback (_execute_core).
THEOREM FallbackAddsRejectionsOnly ==
  ASSUME Rejections \subseteq FallbackOn
  PROVE  Spec => []FallbackOnlyOnListed
<1>1. EndsInPlace => FallbackOnlyOnListed
  BY DEF EndsInPlace, EndedWell, FallbackOnlyOnListed
<1>2. QED BY <1>1, EndsInvariance, PTL

-----------------------------------------------------------------------------
(* Executor implements BoundedRetries. *)

Resting == {c \in Calls : attempt[c] > 0 /\ ~held[c]}

\* A step that neither moves a slot nor starts an attempt.
LEMMA StuttersAbove ==
  ASSUME UNCHANGED <<held, attempt>> PROVE UNCHANGED Promise!bvars
<1>1. Holders' = Holders /\ Resting' = Resting
  BY DEF Holders, Resting
<1>2. QED BY <1>1 DEF Promise!bvars, Resting

\* A free slot is a free place.
LEMMA PlaceIsFree == ASSUME IInv, SlotFree PROVE Promise!PlaceFree
<1>1. slots = Cardinality(Holders)
  BY DEF IInv, SlotsConserved
<1>2. Cardinality(Holders) < MaxConcurrent
  BY <1>1 DEF SlotFree
<1>3. Promise!Cardinality(Holders) = Cardinality(Holders)
  BY DEF Promise!Cardinality, Cardinality
<1>4. QED BY <1>2, <1>3 DEF Promise!PlaceFree

LEMMA EnterAbove ==
  ASSUME IInv, NEW c \in Calls, Enter(c) PROVE [Promise!BNext]_(Promise!bvars)
<1>1. CASE UNCHANGED <<slots, held, attempt>>
  BY <1>1, StuttersAbove
<1>2. CASE SlotFree /\ TakeSlot(c) /\ NextAttempt(c)
  <2>1. ~held[c] /\ attempt[c] = 0
    BY DEF Enter, IInv, InPlace
  <2>2. held' = [held EXCEPT ![c] = TRUE] /\ attempt' = [attempt EXCEPT ![c] = 1]
    BY <1>2, <2>1 DEF TakeSlot, NextAttempt
  <2>3. held \in [Calls -> BOOLEAN] /\ attempt \in [Calls -> 0..MaxAttempts]
    BY DEF IInv, TypeOK
  <2>4. c \notin Holders \cup Resting
    BY <2>1 DEF Holders, Resting
  <2>5. Holders' = Holders \cup {c} /\ Resting' = Resting
    BY <2>1, <2>2, <2>3 DEF Holders, Resting
  <2>6. Promise!Enter(c)
    BY <1>2, <2>2, <2>4, <2>5, PlaceIsFree DEF Promise!Enter, Resting
  <2>7. QED BY <2>6 DEF Promise!BNext
<1>3. QED BY <1>1, <1>2 DEF Enter

LEMMA PauseAbove ==
  ASSUME IInv, NEW c \in Calls, Pause(c) PROVE [Promise!BNext]_(Promise!bvars)
<1>1. held \in [Calls -> BOOLEAN] /\ attempt \in [Calls -> 0..MaxAttempts] /\ attempt[c] >= 1
  BY DEF Pause, IInv, InPlace, TypeOK, Trying
<1>2. held' = [held EXCEPT ![c] = FALSE] /\ UNCHANGED attempt
  BY DEF Pause, ReleaseSlot
<1>3. CASE held[c]
  <2>1. Holders' = Holders \ {c} /\ Resting' = Resting \cup {c} /\ c \in Holders
    BY <1>1, <1>2, <1>3 DEF Holders, Resting
  <2>2. Promise!Rest(c)
    BY <1>2, <2>1 DEF Promise!Rest, Resting
  <2>3. QED BY <2>2 DEF Promise!BNext
<1>4. CASE ~held[c]
  <2>1. UNCHANGED held
    BY <1>1, <1>2, <1>4
  <2>2. QED BY <1>2, <2>1, StuttersAbove
<1>5. QED BY <1>3, <1>4

LEMMA SkipPauseAbove ==
  ASSUME IInv, NEW c \in Calls, SkipPause(c) PROVE [Promise!BNext]_(Promise!bvars)
<1>1. /\ held[c] /\ attempt[c] >= 1 /\ attempt[c] < MaxAttempts
      /\ attempt \in [Calls -> 0..MaxAttempts]
  BY DEF SkipPause, IInv, InPlace, TypeOK, Trying
<1>2. attempt' = [attempt EXCEPT ![c] = attempt[c] + 1] /\ UNCHANGED held
  BY DEF SkipPause, NextAttempt
<1>3. Holders' = Holders /\ Resting' = Resting /\ c \in Holders
  BY <1>1, <1>2, ExecutorAssumption DEF Holders, Resting
<1>4. Promise!TryAgain(c)
  BY <1>1, <1>2, <1>3 DEF Promise!TryAgain, Resting
<1>5. QED BY <1>4 DEF Promise!BNext

LEMMA WakeAbove ==
  ASSUME IInv, NEW c \in Calls, Wake(c) PROVE [Promise!BNext]_(Promise!bvars)
<1>1. /\ ~held[c] /\ attempt[c] >= 1 /\ attempt[c] < MaxAttempts /\ SlotFree
      /\ held \in [Calls -> BOOLEAN] /\ attempt \in [Calls -> 0..MaxAttempts]
  BY DEF Wake, IInv, InPlace, TypeOK, Trying
<1>2. /\ attempt' = [attempt EXCEPT ![c] = attempt[c] + 1]
      /\ held' = [held EXCEPT ![c] = TRUE]
  BY DEF Wake, NextAttempt, TakeSlot
<1>3. Holders' = Holders \cup {c} /\ Resting' = Resting \ {c} /\ c \in Resting
  BY <1>1, <1>2, ExecutorAssumption DEF Holders, Resting
<1>4. Promise!Return(c)
  BY <1>1, <1>2, <1>3, PlaceIsFree DEF Promise!Return, Resting
<1>5. QED BY <1>4 DEF Promise!BNext

LEMMA LeaveAbove ==
  ASSUME IInv, NEW c \in Calls, Leave(c) PROVE [Promise!BNext]_(Promise!bvars)
<1>1. held \in [Calls -> BOOLEAN] /\ attempt \in [Calls -> 0..MaxAttempts]
  BY DEF IInv, TypeOK
<1>2. held' = [held EXCEPT ![c] = FALSE] /\ attempt' = [attempt EXCEPT ![c] = 0]
  BY DEF Leave, ReleaseSlot
<1>3. CASE held[c] \/ attempt[c] > 0
  <2>1. Holders' = Holders \ {c} /\ Resting' = Resting \ {c} /\ c \in Holders \cup Resting
    BY <1>1, <1>2, <1>3 DEF Holders, Resting
  <2>2. Promise!Exit(c)
    BY <1>2, <2>1 DEF Promise!Exit, Resting
  <2>3. QED BY <2>2 DEF Promise!BNext
<1>4. CASE ~held[c] /\ ~(attempt[c] > 0)
  <2>1. attempt[c] = 0
    BY <1>1, <1>4, ExecutorAssumption
  <2>2. UNCHANGED <<held, attempt>>
    BY <1>1, <1>2, <1>4, <2>1
  <2>3. QED BY <2>2, StuttersAbove
<1>5. QED BY <1>3, <1>4

LEMMA StepAbove == IInv /\ [Next]_vars => [Promise!BNext]_(Promise!bvars)
<1> SUFFICES ASSUME IInv, [Next]_vars PROVE [Promise!BNext]_(Promise!bvars)
  OBVIOUS
<1>1. ASSUME NEW c \in Calls,
             \/ Arrive(c) \/ Limit(c) \/ Succeed(c) \/ Announce(c) \/ Disappoint(c)
             \/ Fail(c) \/ AskBudget(c) \/ WakeRefused(c) \/ DelayRaises(c) \/ Recheck(c)
             \/ Abort(c)
      PROVE  UNCHANGED <<held, attempt>>
  BY <1>1 DEF Arrive, Limit, Succeed, Announce, Disappoint, Fail, AskBudget, WakeRefused,
     DelayRaises, Recheck, Abort
<1>2. CASE Tick \/ Refill \/ UNCHANGED vars
  BY <1>2, StuttersAbove DEF Tick, Refill, vars, progress
<1>3. QED
  BY <1>1, <1>2, StuttersAbove, EnterAbove, PauseAbove, SkipPauseAbove, WakeAbove, LeaveAbove
  DEF Next, Advance

LEMMA InitAbove == Init => Promise!BInit
<1> SUFFICES ASSUME Init PROVE Promise!BInit
  OBVIOUS
<1>1. Holders = {} /\ Resting = {} /\ attempt = [c \in Calls |-> 0]
  BY DEF Init, Holders, Resting
<1>2. QED BY <1>1 DEF Promise!BInit, Resting

\* Bulkhead and retry keep their promise together: at most max_concurrent calls
\* inside, at most max_attempts attempts each, and a place given up for a sleep has
\* to be won again (_execute_core and _execute_with_retry).
THEOREM RetriesAreBounded == Spec => ImplementsBoundedRetries
BY InitAbove, StepAbove, Invariance, PTL
DEF Spec, ImplementsBoundedRetries, Promise!BSpec

=============================================================================
