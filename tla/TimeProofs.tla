------------------------------ MODULE TimeProofs ------------------------------
(***************************************************************************)
(* Proofs about the two components that reckon with time:                  *)
(*   - TokenBucket, for any number of callers, any rate, capacity and      *)
(*     resolution: no interval sees more tokens granted than the bucket    *)
(*     holds plus what the rate adds, although every refill rounds;        *)
(*   - RetryTiming, for any policies and triggers: how late a call may be, *)
(*     what a deadline bounds, and what a Retry-After header or a          *)
(*     delay_func may do to the sleeps.                                    *)
(* The second rests on recursion over the numbers (backoff, sum of the     *)
(* pauses), established from the well-foundedness of < over sets.          *)
(***************************************************************************)
EXTENDS TokenBucket, RetryTiming, WellFoundedInduction, TLAPS

-----------------------------------------------------------------------------
(* TokenBucket: the inductive invariant. *)

\* What the bucket lacks, less what the time since the last refill has earned.
Deficit == Divisor * (Capacity - tokens) - since * Rate

\* The tokens granted ahead of the rate are missing from the bucket.
ExcessIsMissing == excess <= 0 \/ excess <= Deficit

BucketInv == BucketTypeOK /\ ExcessIsMissing

-----------------------------------------------------------------------------
(* TokenBucket: arithmetic. *)

LEMMA Products ==
  ASSUME NEW a \in Nat, NEW b \in Nat
  PROVE  a * b \in Nat
OBVIOUS

LEMMA Monotone ==
  ASSUME NEW d \in Nat \ {0}, NEW x \in Int, NEW y \in Int, x <= y
  PROVE  d * x <= d * y
OBVIOUS

LEMMA Division ==
  ASSUME NEW n \in Nat, NEW d \in Nat \ {0}
  PROVE  /\ n \div d \in Nat
         /\ d * (n \div d) <= n
         /\ n < d * (n \div d) + d
OBVIOUS

LEMMA Distributes ==
  ASSUME NEW d \in Int, NEW x \in Int, NEW y \in Int
  PROVE  d * (x - y) = d * x - d * y /\ d * (x + y) = d * x + d * y
OBVIOUS

-----------------------------------------------------------------------------
(* TokenBucket: refills. *)

LEMMA DivisorFacts ==
  ASSUME BucketTypeOK
  PROVE  /\ Divisor \in Nat \ {0}
         /\ One \in Nat \ {0} /\ Rate \in Nat \ {0} /\ Capacity \in Nat /\ One <= Capacity
         /\ Saturation \in Nat
         /\ Divisor = 1 \/ Divisor = One
BY TokenBucketAssumption DEF BucketTypeOK, Divisor

LEMMA AddedFacts ==
  ASSUME BucketTypeOK
  PROVE  /\ Added(since) \in Nat
         /\ since * Rate \in Nat
         /\ Divisor * Added(since) <= since * Rate
<1>1. since \in Nat /\ Rate \in Nat /\ Divisor \in Nat \ {0}
  BY DivisorFacts DEF BucketTypeOK
<1>2. since * Rate \in Nat
  BY <1>1, Products
<1>3. QED BY <1>1, <1>2, Division DEF Added

\* What a refill adds has been earned by the time it clears.
LEMMA RefillIsEarned ==
  ASSUME BucketInv
  PROVE  /\ Refilled \in 0..Capacity
         /\ excess <= 0 \/ excess <= Divisor * (Capacity - Refilled)
<1> DEFINE A == Added(since)
<1>1. /\ A \in Nat /\ since * Rate \in Nat /\ Divisor * A <= since * Rate
      /\ Divisor \in Nat \ {0} /\ Capacity \in Nat
  BY AddedFacts, DivisorFacts DEF BucketInv
<1>2. tokens \in 0..Capacity /\ excess \in Nat
  BY DEF BucketInv, BucketTypeOK
<1>3. Divisor * (Capacity - tokens) \in Nat /\ Divisor * A \in Nat
  BY <1>1, <1>2, Products
<1>4. CASE tokens + A <= Capacity
  <2>1. Refilled = tokens + A
    BY <1>4 DEF Refilled
  <2>2. Divisor * ((Capacity - tokens) - A) = Divisor * (Capacity - tokens) - Divisor * A
    BY <1>1, <1>2, Distributes
  <2>3. (Capacity - tokens) - A = Capacity - Refilled
    BY <1>1, <1>2, <2>1
  <2>4. Divisor * (Capacity - Refilled) >= Deficit
    BY <1>1, <1>2, <1>3, <2>2, <2>3 DEF Deficit
  <2>5. Divisor * (Capacity - Refilled) \in Int /\ Deficit \in Int
    BY <1>1, <1>3, <2>2, <2>3 DEF Deficit
  <2>6. QED BY <1>1, <1>2, <1>4, <2>1, <2>4, <2>5 DEF BucketInv, ExcessIsMissing
<1>5. CASE ~(tokens + A <= Capacity)
  <2>1. Refilled = Capacity
    BY <1>5 DEF Refilled
  <2>2. Capacity - tokens <= A
    BY <1>1, <1>2, <1>5
  <2>3. Divisor * (Capacity - tokens) <= Divisor * A
    BY <1>1, <1>2, <2>2, Monotone
  <2>4. Deficit <= 0 /\ Deficit \in Int
    BY <1>1, <1>3, <2>3 DEF Deficit
  <2>5. QED BY <1>1, <1>2, <2>1, <2>4 DEF BucketInv, ExcessIsMissing
<1>6. QED BY <1>4, <1>5

LEMMA RefillOnlyKeeps ==
  ASSUME BucketInv, RefillOnly, UNCHANGED <<isBudget, excess>>
  PROVE  /\ ExcessIsMissing'
         /\ tokens' \in 0..Capacity /\ since' \in 0..Saturation /\ excess' \in Nat
<1>1. tokens' = Refilled /\ since' = 0 /\ Divisor' = Divisor
  BY DEF RefillOnly, RefillClock, Divisor
<1>2. /\ Rate \in Nat /\ Divisor \in Nat /\ Saturation \in Nat /\ Refilled \in 0..Capacity
      /\ Capacity \in Nat
  BY DivisorFacts, RefillIsEarned DEF BucketInv
<1>3. Divisor * (Capacity - Refilled) \in Nat
  BY <1>2, Products
<1>4. Deficit' = Divisor * (Capacity - Refilled)
  BY <1>1, <1>2, <1>3 DEF Deficit
<1>5. QED
  BY <1>1, <1>2, <1>4, RefillIsEarned DEF BucketInv, BucketTypeOK, ExcessIsMissing

LEMMA BucketTakeKeeps ==
  ASSUME BucketInv, Enough, Take, UNCHANGED isBudget
  PROVE  /\ ExcessIsMissing'
         /\ tokens' \in 0..Capacity /\ since' \in 0..Saturation /\ excess' \in Nat
<1>1. /\ tokens' = Refilled - One /\ since' = 0 /\ Divisor' = Divisor
      /\ excess' = excess + Divisor * One
  BY DEF Take, RefillClock, Divisor
<1>2. /\ Rate \in Nat /\ Divisor \in Nat /\ Saturation \in Nat /\ Refilled \in 0..Capacity
      /\ One \in Nat /\ Capacity \in Nat /\ Refilled >= One /\ excess \in Nat
  BY DivisorFacts, RefillIsEarned DEF BucketInv, BucketTypeOK, Enough
<1>3. Divisor * (Capacity - Refilled) \in Nat /\ Divisor * One \in Nat
  BY <1>2, Products
<1>4. Divisor * ((Capacity - Refilled) + One) = Divisor * (Capacity - Refilled) + Divisor * One
  BY <1>2, Distributes
<1>5. Capacity - tokens' = (Capacity - Refilled) + One
  BY <1>1, <1>2
<1>6. Deficit' = Divisor * (Capacity - Refilled) + Divisor * One
  BY <1>1, <1>2, <1>3, <1>4, <1>5 DEF Deficit
<1>7. ExcessIsMissing'
  BY <1>1, <1>2, <1>3, <1>6, RefillIsEarned DEF ExcessIsMissing
<1>8. QED BY <1>1, <1>2, <1>3, <1>7

\* A bucket that has been left alone for the saturation time lacks nothing.
LEMMA SaturatedIsFull ==
  ASSUME BucketTypeOK, since = Saturation
  PROVE  Deficit <= 0
<1>1. /\ Divisor \in Nat \ {0} /\ One \in Nat \ {0} /\ Rate \in Nat /\ Capacity \in Nat
      /\ Saturation \in Nat /\ tokens \in 0..Capacity
      /\ Divisor = 1 \/ Divisor = One
  BY DivisorFacts DEF BucketTypeOK
<1> DEFINE P == Saturation * Rate
           Q == P \div One
<1>2. P \in Nat
  BY <1>1, Products
<1>3. Q \in Nat /\ One * Q <= P
  BY <1>1, <1>2, Division
<1>4. Capacity <= Q
  BY TokenBucketAssumption, <1>3
<1>5. One * Capacity <= One * Q
  BY <1>1, <1>3, <1>4, Monotone
<1>6. Capacity * 1 <= Capacity * One
  BY <1>1, Monotone
<1>7. Divisor * Capacity <= P
  <2>1. One * Capacity = Capacity * One /\ Capacity * 1 = Capacity /\ 1 * Capacity = Capacity
    BY <1>1
  <2>2. One * Capacity \in Nat /\ One * Q \in Nat
    BY <1>1, <1>3, Products
  <2>3. QED BY <1>1, <1>2, <1>3, <1>5, <1>6, <2>1, <2>2
<1>8. Divisor * (Capacity - tokens) <= Divisor * Capacity
  BY <1>1, Monotone
<1>9. Divisor * (Capacity - tokens) \in Nat /\ Divisor * Capacity \in Nat
  BY <1>1, Products
<1>10. QED BY <1>2, <1>7, <1>8, <1>9 DEF Deficit

LEMMA BucketTickKeeps == ASSUME BucketInv, BucketTick PROVE BucketInv'
<1>1. /\ Divisor \in Nat /\ Rate \in Nat /\ Capacity \in Nat /\ Saturation \in Nat
      /\ tokens \in 0..Capacity /\ since \in 0..Saturation /\ excess \in Nat
  BY DivisorFacts DEF BucketInv, BucketTypeOK
<1>2. tokens' = tokens /\ Divisor' = Divisor
  BY DEF BucketTick, Divisor
<1>3. excess' = (IF excess > Rate THEN excess - Rate ELSE 0) /\ excess' \in Nat
  BY <1>1 DEF BucketTick
<1>4. Divisor * (Capacity - tokens) \in Nat /\ since * Rate \in Nat
  BY <1>1, Products
<1>5. BucketTypeOK'
  <2>1. patience' \in [Callers -> 0..MaxWait]
    BY TokenBucketAssumption DEF BucketTick, BucketInv, BucketTypeOK
  <2>2. since' \in 0..Saturation
    BY <1>1 DEF BucketTick
  <2>3. QED BY <1>2, <1>3, <2>1, <2>2 DEF BucketTick, BucketInv, BucketTypeOK
<1>6. ExcessIsMissing'
  <2>1. CASE since < Saturation
    <3>1. since' = since + 1
      BY <2>1 DEF BucketTick
    <3>2. since' * Rate = since * Rate + Rate
      BY <1>1, <3>1
    <3>3. Deficit' = Deficit - Rate /\ Deficit \in Int
      BY <1>1, <1>2, <1>4, <3>2 DEF Deficit
    <3>4. QED BY <1>1, <1>3, <3>3 DEF BucketInv, ExcessIsMissing
  <2>2. CASE since = Saturation
    <3>1. Deficit <= 0 /\ Deficit \in Int
      BY <1>4, <2>2, SaturatedIsFull DEF BucketInv, Deficit
    <3>2. excess = 0
      BY <1>1, <3>1 DEF BucketInv, ExcessIsMissing
    <3>3. QED BY <1>1, <1>3, <3>2 DEF ExcessIsMissing
  <2>3. QED BY <1>1, <2>1, <2>2
<1>7. QED BY <1>5, <1>6 DEF BucketInv

-----------------------------------------------------------------------------
(* TokenBucket: steps. *)

LEMMA BucketInitially == BucketInit => BucketInv
<1> SUFFICES ASSUME BucketInit PROVE BucketInv
  OBVIOUS
<1>1. BucketTypeOK
  BY TokenBucketAssumption DEF BucketInit, BucketTypeOK
<1>2. QED BY <1>1 DEF BucketInit, BucketInv, ExcessIsMissing

LEMMA PatienceIsBounded == ASSUME BucketTypeOK PROVE Patience \in 0..MaxWait
BY TokenBucketAssumption DEF BucketTypeOK, Patience

LEMMA AskKeeps == ASSUME BucketInv, NEW c \in Callers, Ask(c) PROVE BucketInv'
<1>1. isBudget' = isBudget /\ waiting' \subseteq Callers /\ patience' \in [Callers -> 0..MaxWait]
  BY PatienceIsBounded DEF Ask, BucketInv, BucketTypeOK
<1>2. CASE Enough /\ Take
  BY <1>1, <1>2, BucketTakeKeeps DEF BucketInv, BucketTypeOK
<1>3. CASE RefillOnly /\ UNCHANGED excess
  BY <1>1, <1>3, RefillOnlyKeeps DEF BucketInv, BucketTypeOK
<1>4. QED BY <1>2, <1>3 DEF Ask

LEMMA PollKeeps == ASSUME BucketInv, NEW c \in Callers, Poll(c) PROVE BucketInv'
<1>1. isBudget' = isBudget /\ waiting' \subseteq Callers /\ patience' \in [Callers -> 0..MaxWait]
  BY TokenBucketAssumption DEF Poll, KeepWaiting, BucketInv, BucketTypeOK
<1>2. CASE Enough /\ Take
  BY <1>1, <1>2, BucketTakeKeeps DEF BucketInv, BucketTypeOK
<1>3. CASE RefillOnly /\ UNCHANGED excess
  BY <1>1, <1>3, RefillOnlyKeeps DEF BucketInv, BucketTypeOK
<1>4. QED BY <1>2, <1>3 DEF Poll, KeepWaiting

LEMMA ResetKeeps == ASSUME BucketInv, Reset PROVE BucketInv'
BY TokenBucketAssumption DEF Reset, BucketInv, BucketTypeOK, ExcessIsMissing

LEMMA BucketInvKept == BucketInv /\ [BucketNext]_bucketVars => BucketInv'
<1> SUFFICES ASSUME BucketInv, [BucketNext]_bucketVars PROVE BucketInv'
  OBVIOUS
<1>1. ASSUME NEW c \in Callers, Ask(c) PROVE BucketInv'
  BY <1>1, AskKeeps
<1>2. ASSUME NEW c \in Callers, Poll(c) PROVE BucketInv'
  BY <1>2, PollKeeps
<1>3. CASE ReadAvailable
  BY <1>3, RefillOnlyKeeps DEF ReadAvailable, BucketInv, BucketTypeOK
<1>4. CASE Reset
  BY <1>4, ResetKeeps
<1>5. CASE BucketTick
  BY <1>5, BucketTickKeeps
<1>6. CASE UNCHANGED bucketVars
  BY <1>6 DEF bucketVars, BucketInv, BucketTypeOK, ExcessIsMissing, Deficit, Divisor
<1>7. QED BY <1>1, <1>2, <1>3, <1>4, <1>5, <1>6 DEF BucketNext

-----------------------------------------------------------------------------
(* TokenBucket: theorems. *)

LEMMA BucketInvariance == BucketSpec => []BucketInv
BY BucketInitially, BucketInvKept, PTL DEF BucketSpec

\* The bucket never holds less than nothing or more than its capacity, and no
\* caller is given more patience than max_wait.
THEOREM BucketIsAlwaysTyped == BucketSpec => []BucketTypeOK
BY BucketInvariance, PTL DEF BucketInv

\* No interval sees more tokens granted than a full bucket and the rate allow, for
\* every rate and every rounding (RateLimiter, AsyncRateLimiter, RetryBudget).
THEOREM RateIsNeverExceeded == BucketSpec => []RateNeverExceeded
<1>1. BucketInv => RateNeverExceeded
  <2> SUFFICES ASSUME BucketInv PROVE RateNeverExceeded
    OBVIOUS
  <2>1. /\ Divisor \in Nat \ {0} /\ Rate \in Nat /\ Capacity \in Nat
        /\ tokens \in 0..Capacity /\ since \in Nat /\ excess \in Nat
    BY DivisorFacts DEF BucketInv, BucketTypeOK
  <2>2. Divisor * (Capacity - tokens) <= Divisor * Capacity
    BY <2>1, Monotone
  <2>3. /\ Divisor * (Capacity - tokens) \in Nat /\ Divisor * Capacity \in Nat
        /\ since * Rate \in Nat
    BY <2>1, Products
  <2>4. QED BY <2>1, <2>2, <2>3 DEF BucketInv, ExcessIsMissing, Deficit, RateNeverExceeded
<1>2. QED BY <1>1, BucketInvariance, PTL

-----------------------------------------------------------------------------
(* Recursion. *)

\* A set of numbers has a least one.
LEMMA LeastNumber ==
  ASSUME NEW T \in SUBSET Nat, T # {}
  PROVE  \E n \in T : \A m \in T : n <= m
<1>1. IsWellFoundedOn(OpToRel(<, Nat), Nat)
  BY NatLessThanWellFounded
<1>2. PICK n \in T : \A m \in T : ~(<<m, n>> \in OpToRel(<, Nat))
  BY <1>1, WFMin
<1>3. ASSUME NEW m \in T PROVE n <= m
  <2>1. ~(<<m, n>> \in OpToRel(<, Nat))
    BY <1>2
  <2>2. ~(m < n)
    BY <2>1 DEF OpToRel
  <2>3. QED BY <2>2
<1>4. QED BY <1>3

\* Induction, over a set: one with 0 and with the successor of each of its members.
LEMMA NumbersFromZero ==
  ASSUME NEW S \in SUBSET Nat, 0 \in S, \A n \in S : n + 1 \in S
  PROVE  S = Nat
<1>1. SUFFICES ASSUME Nat \ S # {} PROVE FALSE
  OBVIOUS
<1>2. PICK n \in Nat \ S : \A m \in Nat \ S : n <= m
  BY <1>1, LeastNumber
<1>3. n # 0 /\ n - 1 \in Nat /\ n - 1 \notin Nat \ S
  BY <1>2
<1>4. (n - 1) + 1 \in S
  BY <1>3
<1>5. QED BY <1>2, <1>4

\* f begins with a, and G makes each value from its number and the value before.
Recurs(f, a, G) == f[0] = a /\ \A n \in Nat \ {0} : f[n] = G[<<n, f[n - 1]>>]

\* A function may be defined by recursion over the numbers.
LEMMA RecursionOverNat ==
  \A V : \A a \in V : \A G \in [Nat \X V -> V] : \E f \in [Nat -> V] : Recurs(f, a, G)
<1> SUFFICES ASSUME NEW V, NEW a \in V, NEW G \in [Nat \X V -> V]
             PROVE  \E f \in [Nat -> V] : Recurs(f, a, G)
  OBVIOUS
<1> DEFINE Upto(n) == {g \in [0..n -> V] : g[0] = a /\ \A i \in 1..n : g[i] = G[<<i, g[i - 1]>>]}
           S == {n \in Nat : \E g \in Upto(n) : \A h \in Upto(n) : h = g}
<1>1. 0 \in S
  <2> DEFINE g == [i \in 0..0 |-> a]
  <2>1. g \in Upto(0)
    OBVIOUS
  <2>2. ASSUME NEW h \in Upto(0) PROVE h = g
    OBVIOUS
  <2>3. QED BY <2>1, <2>2
<1>2. ASSUME NEW n \in S PROVE n + 1 \in S
  <2>1. n \in Nat /\ n + 1 \in Nat
    OBVIOUS
  <2>2. PICK g \in Upto(n) : \A h \in Upto(n) : h = g
    OBVIOUS
  <2> DEFINE e == [i \in 0..(n + 1) |-> IF i = n + 1 THEN G[<<n + 1, g[n]>>] ELSE g[i]]
  <2>3. e \in Upto(n + 1)
    <3>1. g \in [0..n -> V] /\ g[0] = a /\ \A i \in 1..n : g[i] = G[<<i, g[i - 1]>>]
      BY <2>2
    <3>2. G[<<n + 1, g[n]>>] \in V
      BY <2>1, <3>1
    <3>3. e \in [0..(n + 1) -> V] /\ e[0] = a
      BY <2>1, <3>1, <3>2
    <3>4. ASSUME NEW i \in 1..(n + 1) PROVE e[i] = G[<<i, e[i - 1]>>]
      <4>1. CASE i = n + 1
        <5>1. n \in 0..(n + 1) /\ n # n + 1 /\ n + 1 \in 0..(n + 1) /\ (n + 1) - 1 = n
          BY <2>1
        <5>2. e[n + 1] = G[<<n + 1, g[n]>>] /\ e[n] = g[n]
          BY <5>1
        <5>3. QED BY <4>1, <5>1, <5>2
      <4>2. CASE i # n + 1
        BY <2>1, <3>1, <4>2
      <4>3. QED BY <4>1, <4>2
    <3>5. QED BY <3>3, <3>4
  <2>4. ASSUME NEW h \in Upto(n + 1) PROVE h = e
    <3>1. h \in [0..(n + 1) -> V] /\ h[0] = a /\ \A i \in 1..(n + 1) : h[i] = G[<<i, h[i - 1]>>]
      BY <2>4
    <3> DEFINE k == [i \in 0..n |-> h[i]]
    <3>2. k \in Upto(n)
      BY <2>1, <3>1
    <3>3. k = g
      BY <2>2, <3>2
    <3>4. \A i \in 0..n : h[i] = g[i]
      BY <3>3
    <3>5. h[n + 1] = G[<<n + 1, g[n]>>]
      <4>1. n + 1 \in 1..(n + 1) /\ (n + 1) - 1 = n /\ n \in 0..n
        BY <2>1
      <4>2. QED BY <3>1, <3>4, <4>1
    <3>6. \A i \in 0..(n + 1) : h[i] = e[i]
      BY <2>1, <3>4, <3>5
    <3>7. QED BY <3>1, <3>6
  <2>5. QED BY <2>1, <2>3, <2>4
<1> HIDE DEF S
<1>3. S = Nat
  <2>1. S \in SUBSET Nat
    BY DEF S
  <2>2. QED BY <1>1, <1>2, <2>1, NumbersFromZero
<1>4. \A n \in Nat : \E g \in Upto(n) : \A h \in Upto(n) : h = g
  BY <1>3 DEF S
<1> DEFINE The(n) == CHOOSE g \in Upto(n) : TRUE
           F == [n \in Nat |-> The(n)[n]]
<1>5. ASSUME NEW n \in Nat PROVE The(n) \in Upto(n) /\ \A h \in Upto(n) : h = The(n)
  BY <1>4
<1> HIDE DEF The
<1>6. ASSUME NEW n \in Nat, NEW m \in Nat, m <= n PROVE The(n)[m] = The(m)[m]
  <2> DEFINE k == [i \in 0..m |-> The(n)[i]]
  <2>1. k \in Upto(m)
    <3>1. /\ The(n) \in [0..n -> V] /\ The(n)[0] = a
          /\ \A i \in 1..n : The(n)[i] = G[<<i, The(n)[i - 1]>>]
      BY <1>5
    <3>2. 0..m \subseteq 0..n /\ 0 \in 0..m
      BY <1>6
    <3>3. k \in [0..m -> V] /\ k[0] = a
      BY <3>1, <3>2
    <3>4. ASSUME NEW i \in 1..m PROVE k[i] = G[<<i, k[i - 1]>>]
      <4>1. i \in 0..m /\ i - 1 \in 0..m /\ i \in 1..n
        BY <1>6
      <4>2. k[i] = The(n)[i] /\ k[i - 1] = The(n)[i - 1]
        BY <4>1
      <4>3. QED BY <3>1, <4>1, <4>2
    <3>5. QED BY <3>3, <3>4
  <2>2. k = The(m)
    BY <1>5, <2>1
  <2>3. QED BY <2>2
<1>7. F \in [Nat -> V]
  BY <1>5
<1>8. F[0] = a
  BY <1>5
<1>9. ASSUME NEW n \in Nat \ {0} PROVE F[n] = G[<<n, F[n - 1]>>]
  <2>1. The(n) \in Upto(n) /\ n \in 1..n /\ n - 1 \in Nat /\ n - 1 <= n
    BY <1>5
  <2>2. The(n)[n] = G[<<n, The(n)[n - 1]>>]
    BY <2>1
  <2>3. The(n)[n - 1] = The(n - 1)[n - 1]
    BY <1>6, <2>1
  <2>4. QED BY <2>1, <2>2, <2>3
<1> HIDE DEF F
<1>10. QED BY <1>7, <1>8, <1>9 DEF Recurs

-----------------------------------------------------------------------------
(* RetryTiming: the policies. *)

LEMMA PolicyFacts ==
  ASSUME NEW c \in Configs, Accepted(c)
  PROVE  /\ c.retry.max_attempts \in Nat \ {0}
         /\ c.retry.delay \in Nat /\ c.retry.max_delay \in Nat /\ c.retry.backoff_factor \in Nat
         /\ KnownDelayFunc(c.retry.delay_func)
         /\ c.timeout.seconds \in Nat \ {0} /\ c.timeout.per_attempt \in BOOLEAN
         /\ SlotWait(c) \in Nat
         /\ Legs(c) \in {1, 2}
<1>1. /\ c.retry # None /\ c.timeout # None
      /\ \A f \in {"max_attempts", "delay", "backoff_factor", "max_delay"} : c.retry[f] \in Int
      /\ c.retry.backoff_factor >= 0
      /\ KnownDelayFunc(c.retry.delay_func)
      /\ c.timeout.seconds \in Int /\ c.timeout.per_attempt \in BOOLEAN
      /\ c.bulkhead # None => c.bulkhead.max_wait \in Nat
  BY RetryTimingAssumption
<1>2. ValidRetry(c.retry) /\ ValidTimeout(c.timeout)
  BY <1>1 DEF Accepted
<1>3. QED BY <1>1, <1>2 DEF ValidRetry, ValidTimeout, SlotWait, Legs

\* The backoff never turns negative, however it grows or shrinks.
LEMMA BackoffIsNat ==
  ASSUME NEW c \in Configs, Accepted(c)
  PROVE  Backoff(c) \in [Nat -> Nat]
<1> DEFINE a == c.retry.delay
           factor == c.retry.backoff_factor
           Grows(h) == h = [n \in Nat |-> IF n = 0 THEN a ELSE (factor * h[n - 1]) \div 10]
           G == [p \in Nat \X Nat |-> (factor * p[2]) \div 10]
<1>1. a \in Nat /\ factor \in Nat
  BY PolicyFacts
<1>2. ASSUME NEW x \in Nat PROVE (factor * x) \div 10 \in Nat
  <2> HIDE DEF factor
  <2>1. factor * x \in Nat
    BY <1>1
  <2>2. QED BY <2>1
<1>3. Backoff(c) = CHOOSE h : Grows(h)
  BY DEF Backoff
<1> HIDE DEF factor
<1>4. G \in [Nat \X Nat -> Nat]
  BY <1>2
<1> HIDE DEF a
<1>5. PICK F \in [Nat -> Nat] : Recurs(F, a, G)
  <2> HIDE DEF G
  <2>1. QED BY <1>1, <1>4, RecursionOverNat, Zenon
<1>6. Grows(F)
  <2>1. ASSUME NEW n \in Nat, n # 0 PROVE G[<<n, F[n - 1]>>] = (factor * F[n - 1]) \div 10
    <3>1. n - 1 \in Nat
      BY <2>1
    <3>2. F[n - 1] \in Nat
      BY <3>1
    <3>3. QED BY <3>2
  <2>2. F = [n \in Nat |-> IF n = 0 THEN a ELSE (factor * F[n - 1]) \div 10]
    <3> HIDE DEF G
    <3>1. QED BY <1>5, <2>1 DEF Recurs
  <2>3. QED BY <2>2
<1> HIDE DEF Grows
<1>7. Grows(Backoff(c))
  BY <1>3, <1>6
<1>8. Backoff(c) = [n \in Nat |-> IF n = 0 THEN a ELSE (factor * Backoff(c)[n - 1]) \div 10]
  BY <1>7 DEF Grows
<1> DEFINE T == {n \in Nat : Backoff(c)[n] \in Nat}
<1>9. 0 \in T
  BY <1>1, <1>8
<1>10. ASSUME NEW n \in T PROVE n + 1 \in T
  <2>1. n + 1 \in Nat /\ n + 1 # 0 /\ (n + 1) - 1 = n /\ Backoff(c)[n] \in Nat
    OBVIOUS
  <2>2. Backoff(c)[n + 1] = (factor * Backoff(c)[n]) \div 10
    BY <1>8, <2>1
  <2>3. Backoff(c)[n + 1] \in Nat
    BY <1>2, <2>1, <2>2
  <2>4. QED BY <2>1, <2>3
<1>11. T = Nat
  <2>1. T \in SUBSET Nat
    OBVIOUS
  <2> HIDE DEF T
  <2>2. QED BY <1>9, <1>10, <2>1, NumbersFromZero
<1>12. \A n \in Nat : Backoff(c)[n] \in Nat
  BY <1>11
<1>13. QED BY <1>8, <1>12

LEMMA LongestFacts ==
  ASSUME NEW c \in Configs, Accepted(c), NEW n \in Nat \ {0}
  PROVE  /\ BaseDelay(c, n) \in Nat
         /\ BaseDelay(c, n) <= LongestDelay(c, n)
         /\ LongestDelay(c, n) \in Nat
         /\ LongestDelay(c, n) <= c.retry.max_delay
         /\ LongestPause(c, n) \in Nat
         /\ LongestPause(c, n) >= LongestDelay(c, n) + SlotWait(c)
<1>1. Backoff(c)[n - 1] \in Nat
  <2>1. n - 1 \in Nat
    OBVIOUS
  <2>2. QED BY <2>1, BackoffIsNat
<1>2. c.retry.max_delay \in Nat /\ SlotWait(c) \in Nat /\ Legs(c) \in {1, 2}
  BY PolicyFacts
<1>3. BaseDelay(c, n) \in Nat /\ BaseDelay(c, n) <= c.retry.max_delay
  BY <1>1, <1>2 DEF BaseDelay, Capped
<1>4. /\ LongestDelay(c, n) \in Nat
      /\ BaseDelay(c, n) <= LongestDelay(c, n) /\ LongestDelay(c, n) <= c.retry.max_delay
  BY <1>2, <1>3 DEF LongestDelay
<1>5. QED BY <1>2, <1>3, <1>4 DEF LongestPause

\* The pauses add up.
LEMMA PauseFacts ==
  ASSUME NEW c \in Configs, Accepted(c)
  PROVE  /\ Pauses(c) \in [Nat -> Nat]
         /\ Pauses(c)[0] = 0
         /\ \A n \in Nat \ {0} : Pauses(c)[n] = Pauses(c)[n - 1] + LongestPause(c, n)
<1> DEFINE Adds(h) == h = [n \in Nat |-> IF n = 0 THEN 0 ELSE h[n - 1] + LongestPause(c, n)]
           G == [p \in Nat \X Nat |-> IF p[1] = 0 THEN 0 ELSE p[2] + LongestPause(c, p[1])]
<1>1. \A n \in Nat \ {0} : LongestPause(c, n) \in Nat
  BY LongestFacts
<1>2. Pauses(c) = CHOOSE h : Adds(h)
  BY DEF Pauses
<1>3. G \in [Nat \X Nat -> Nat]
  BY <1>1
<1>4. PICK F \in [Nat -> Nat] : Recurs(F, 0, G)
  <2> HIDE DEF G
  <2>1. 0 \in Nat
    OBVIOUS
  <2>2. QED BY <1>3, <2>1, RecursionOverNat, Zenon
<1>5. Adds(F)
  <2>1. ASSUME NEW n \in Nat, n # 0 PROVE G[<<n, F[n - 1]>>] = F[n - 1] + LongestPause(c, n)
    <3>1. n - 1 \in Nat
      BY <2>1
    <3>2. F[n - 1] \in Nat
      BY <3>1
    <3>3. QED BY <2>1, <3>2
  <2>2. F = [n \in Nat |-> IF n = 0 THEN 0 ELSE F[n - 1] + LongestPause(c, n)]
    <3> HIDE DEF G
    <3>1. QED BY <1>4, <2>1 DEF Recurs
  <2>3. QED BY <2>2
<1> HIDE DEF Adds
<1>6. Adds(Pauses(c))
  BY <1>2, <1>5
<1>7. Pauses(c) = [n \in Nat |-> IF n = 0 THEN 0 ELSE Pauses(c)[n - 1] + LongestPause(c, n)]
  BY <1>6 DEF Adds
<1> DEFINE T == {n \in Nat : Pauses(c)[n] \in Nat}
<1>8. 0 \in T
  BY <1>7
<1>9. ASSUME NEW n \in T PROVE n + 1 \in T
  <2>1. n + 1 \in Nat \ {0} /\ (n + 1) - 1 = n /\ Pauses(c)[n] \in Nat
    OBVIOUS
  <2>2. Pauses(c)[n + 1] = Pauses(c)[n] + LongestPause(c, n + 1)
    BY <1>7, <2>1
  <2>3. QED BY <1>1, <2>1, <2>2
<1>10. T = Nat
  <2>1. T \in SUBSET Nat
    OBVIOUS
  <2> HIDE DEF T
  <2>2. QED BY <1>8, <1>9, <2>1, NumbersFromZero
<1>11. \A n \in Nat : Pauses(c)[n] \in Nat
  BY <1>10
<1>12. QED BY <1>7, <1>11

-----------------------------------------------------------------------------
(* RetryTiming: the delays. *)

LEMMA ClampedFacts ==
  ASSUME NEW x \in Int \cup {NaN}, NEW high \in Int
  PROVE  /\ ClampedTo(x, high) \in Nat
         /\ x \in Nat /\ x <= high => ClampedTo(x, high) = x
         /\ x \in Nat /\ high <= x => ClampedTo(x, high) >= high
BY NaNAssumption DEF ClampedTo, PyMax, PyMin, Below

LEMMA BareHasNoHeader == RetryAfterHeader(Bare) = None
BY DEF RetryAfterHeader, HeadersOf, Bare

\* delay_func is the user's own, and may answer NaN.
AnswersNaN(func) == func # None /\ "answers" \in DOMAIN func /\ NaN \in func.answers

\* What is asked of the sleep after attempt n is a number, and the sleep is as long,
\* unless delay_func is the user's own and answers NaN.
LEMMA DelayFacts ==
  ASSUME TypeOK, NEW n \in Nat \ {0}, NEW trigger, KnownHeader(RetryAfterHeader(trigger)),
         NEW d \in ResolvedDelays(n, trigger)
  PROVE  /\ Asked(trigger) \in Int
         /\ \/ /\ d \in Nat /\ d # NaN
               /\ d <= LongestDelay(config, n)
               /\ d >= Asked(trigger)
            \/ /\ d = NaN
               /\ Asked(trigger) = 0
               /\ AnswersNaN(config.retry.delay_func)
<1> DEFINE func == config.retry.delay_func
           max_delay == config.retry.max_delay
           raw == RetryAfterHeader(trigger)
<1>1. /\ config \in Configs /\ Accepted(config)
      /\ max_delay \in Nat /\ KnownDelayFunc(func)
  BY PolicyFacts DEF TypeOK
<1>2. /\ BaseDelay(config, n) \in Nat /\ BaseDelay(config, n) <= LongestDelay(config, n)
      /\ LongestDelay(config, n) \in Nat
      /\ func # None => LongestDelay(config, n) = max_delay
  BY <1>1, LongestFacts DEF LongestDelay
<1> DEFINE base == BaseDelay(config, n)
           longest == LongestDelay(config, n)
           asked == Asked(trigger)
<1>3. ASSUME NEW x \in ComputedDelays(n) PROVE x \in Nat /\ x <= longest
  BY <1>2, <1>3 DEF ComputedDelays
<1>4. ASSUME NEW x \in Int \cup {NaN}
      PROVE  \/ x = NaN /\ Clamped(x, max_delay) = NaN
             \/ /\ x \in Int /\ Clamped(x, max_delay) \in Nat
                /\ Clamped(x, max_delay) <= max_delay
                /\ x <= max_delay => Clamped(x, max_delay) >= x
                /\ max_delay <= x => Clamped(x, max_delay) = max_delay
  <2> HIDE DEF max_delay
  <2>1. QED BY <1>1, NaNAssumption DEF Clamped, Below
<1>5. CASE func = None
  <2>1. Answers(trigger) = {None}
    BY <1>5 DEF Answers
  <2>2. d \in ComputedDelays(n)
    BY <2>1 DEF ResolvedDelays
  <2>3. Asked(trigger) = 0
    BY <1>5 DEF Asked
  <2>4. QED BY <1>3, <2>2, <2>3, NaNAssumption
<1>6. CASE func # None /\ "max_wait" \in DOMAIN func
  <2>1. func.max_wait \in Int
    BY <1>1, <1>6 DEF KnownDelayFunc
  <2> DEFINE x == RetryAfterDelay(func.max_wait, trigger)
  <2>2. Answers(trigger) = {x}
    BY <1>6 DEF Answers
  <2>3. d \in (IF x = None THEN ComputedDelays(n) ELSE {Clamped(x, max_delay)})
    BY <2>2 DEF ResolvedDelays
  <2>4. CASE raw = None \/ raw.form = "garbage"
    <3>1. x = None
      BY <2>4 DEF RetryAfterDelay, ParsedRetryAfter
    <3>2. Asked(trigger) = 0
      BY <2>4 DEF Asked
    <3>3. QED BY <1>3, <2>3, <3>1, <3>2, NaNAssumption
  <2>5. CASE raw # None /\ raw.form # "garbage"
    <3>1. raw.value \in Int \cup {NaN} /\ raw.value # None
      BY <2>5, NaNAssumption DEF KnownHeader
    <3>2. x = ClampedTo(raw.value, func.max_wait)
      BY <2>5, <3>1 DEF RetryAfterDelay, ParsedRetryAfter
    <3> HIDE DEF x, raw
    <3> DEFINE most == func.max_wait
               v == raw.value
    <3>3. x \in Nat /\ x # None
      <4> HIDE DEF v, most
      <4>1. v \in Int \cup {NaN} /\ most \in Int /\ x = ClampedTo(v, most)
        BY <2>1, <3>1, <3>2 DEF v, most
      <4>2. x \in Nat
        BY <4>1, ClampedFacts
      <4>3. QED BY <4>2, NaNAssumption
    <3>4. d = Clamped(x, max_delay)
      BY <2>3, <3>3
    <3>5. x \in Int \cup {NaN} /\ x # NaN
      BY <3>3, NaNAssumption
    <3>6. d \in Nat /\ d <= longest
      BY <1>2, <1>4, <1>6, <3>4, <3>5
    <3>7. CASE v \notin Nat
      <4>1. Asked(trigger) = 0
        BY <3>7 DEF Asked, raw
      <4>2. QED BY <3>6, <4>1, NaNAssumption
    <3>8. CASE v \in Nat
      <4>1. Asked(trigger) = CHOOSE m \in {v, most, max_delay} :
                               m <= v /\ m <= most /\ m <= max_delay
        BY <1>6, <2>5, <3>8 DEF Asked, raw
      <4> HIDE DEF v, most, max_delay
      <4>2. \E m \in {v, most, max_delay} : m <= v /\ m <= most /\ m <= max_delay
        BY <1>1, <2>1, <3>8 DEF most
      <4>3. /\ Asked(trigger) \in {v, most, max_delay}
            /\ Asked(trigger) <= v /\ Asked(trigger) <= most /\ Asked(trigger) <= max_delay
        BY <4>1, <4>2
      <4>4. Asked(trigger) \in Int /\ most \in Int /\ max_delay \in Nat
        BY <1>1, <2>1, <3>8, <4>3 DEF most
      <4>5. x >= v \/ x >= most
        <5>1. most \in Int /\ x = ClampedTo(v, most) /\ v \in Int \cup {NaN} /\ v \in Nat
          BY <2>1, <3>1, <3>2, <3>8 DEF most, v
        <5>2. (v <= most => x = v) /\ (most <= v => x >= most)
          BY <5>1, ClampedFacts
        <5>3. QED BY <5>1, <5>2
      <4>6. d >= x \/ d = max_delay
        BY <1>1, <1>4, <3>3, <3>4, <3>5
      <4>7. d >= Asked(trigger)
        BY <3>3, <3>6, <3>8, <4>3, <4>4, <4>5, <4>6
      <4>8. QED BY <3>6, <4>4, <4>7, NaNAssumption
    <3>9. QED BY <3>7, <3>8
  <2>6. QED BY <2>4, <2>5
<1>7. CASE func # None /\ "max_wait" \notin DOMAIN func
  <2>1. "answers" \in DOMAIN func /\ func.answers \subseteq Int \cup {None, NaN}
    BY <1>1, <1>7 DEF KnownDelayFunc
  <2>2. Answers(trigger) = func.answers
    BY <1>7 DEF Answers
  <2>3. PICK x \in func.answers :
          d \in (IF x = None THEN ComputedDelays(n) ELSE {Clamped(x, max_delay)})
    BY <2>2 DEF ResolvedDelays
  <2>4. Asked(trigger) = 0
    BY <1>7 DEF Asked
  <2>5. CASE x = None
    BY <1>3, <2>3, <2>4, <2>5, NaNAssumption
  <2>6. CASE x # None
    <3>1. x \in Int \cup {NaN} /\ d = Clamped(x, max_delay)
      BY <2>1, <2>3, <2>6
    <3>2. (d = NaN /\ x = NaN) \/ (d \in Nat /\ d <= longest)
      <4> HIDE DEF func, max_delay
      <4>1. longest = max_delay
        BY <1>2, <1>7
      <4>2. (d = NaN /\ x = NaN) \/ (d \in Nat /\ d <= max_delay)
        BY <1>4, <3>1
      <4>3. QED BY <4>1, <4>2
    <3>3. d = NaN => x = NaN
      BY <3>2, NaNAssumption
    <3>4. d = NaN => AnswersNaN(func)
      BY <1>7, <2>1, <2>3, <3>3 DEF AnswersNaN
    <3>5. QED BY <2>4, <3>2, <3>4, NaNAssumption
  <2>7. QED BY <2>5, <2>6
<1>8. QED BY <1>5, <1>6, <1>7

-----------------------------------------------------------------------------
(* RetryTiming: the inductive invariant. *)

\* What n attempts may take by themselves.
TimeFor(c, n) == IF c.timeout.per_attempt THEN n * c.timeout.seconds ELSE c.timeout.seconds

\* What may lie behind the present attempt when it ends.
Behind == TimeFor(config, attempt) + Pauses(config)[attempt - 1]

\* A sleep and a wait for a slot.
Leg == LongestDelay(config, attempt) + SlotWait(config)

\* After an unwanted result only the first leg of the pause has begun.
AllowedPause == IF path = "result" THEN Leg ELSE LongestPause(config, attempt)

ReadyInTime ==
  stage = "ready" =>
    /\ clock <= TimeFor(config, attempt - 1) + Pauses(config)[attempt - 1]
    /\ clock >= notBefore

RunningInTime ==
  stage = "running" =>
    /\ clock + limit <= Behind
    /\ ~config.timeout.per_attempt => clock + limit <= config.timeout.seconds
    /\ clock >= notBefore

\* The wait for a slot is provided for from the beginning of the sleep.
PausingInTime ==
  stage \in {"sleeping", "slot"} =>
    /\ attempt < config.retry.max_attempts
    /\ clock + wait + (IF stage = "sleeping" THEN SlotWait(config) ELSE 0) <= Behind + AllowedPause
    /\ clock + wait >= notBefore
    /\ path = "result" => config.retry.retry_on_result # None
    /\ stage = "slot" => config.bulkhead # None /\ clock >= notBefore

EndedInTime ==
  /\ stage = "done" =>
       clock <= Behind + (IF attempt < config.retry.max_attempts
                          THEN LongestPause(config, attempt) ELSE 0)
  /\ stage = "unsleepable" =>
       /\ attempt < config.retry.max_attempts
       /\ clock <= Behind + LongestPause(config, attempt)
       /\ AnswersNaN(config.retry.delay_func)

TimingInv == TypeOK /\ ReadyInTime /\ RunningInTime /\ PausingInTime /\ EndedInTime

LEMMA TimeForFacts ==
  ASSUME NEW c \in Configs, Accepted(c), NEW n \in Nat
  PROVE  /\ TimeFor(c, n) \in Nat
         /\ c.timeout.per_attempt => TimeFor(c, n + 1) = TimeFor(c, n) + c.timeout.seconds
         /\ ~c.timeout.per_attempt =>
              TimeFor(c, n) = c.timeout.seconds /\ TimeFor(c, n + 1) = c.timeout.seconds
<1> DEFINE S == c.timeout.seconds
<1>1. S \in Nat
  BY PolicyFacts
<1>2. n * S \in Nat /\ (n + 1) * S = n * S + S
  <2> HIDE DEF S
  <2>1. QED BY <1>1
<1>3. QED BY <1>1, <1>2 DEF TimeFor

LEMMA AttemptFacts ==
  ASSUME TypeOK
  PROVE  /\ config \in Configs /\ Accepted(config)
         /\ config.retry.max_attempts \in Nat
         /\ attempt \in Nat \ {0} /\ attempt - 1 \in Nat /\ attempt <= config.retry.max_attempts
         /\ SlotWait(config) \in Nat
         /\ Behind \in Nat /\ Leg \in Nat /\ LongestPause(config, attempt) \in Nat
         /\ LongestDelay(config, attempt) \in Nat
         /\ Leg = LongestDelay(config, attempt) + SlotWait(config)
         /\ LongestPause(config, attempt) >= Leg
         /\ Legs(config) = 2 => LongestPause(config, attempt) = Leg + Leg
         /\ AllowedPause \in Nat /\ AllowedPause <= LongestPause(config, attempt)
<1>1. /\ config \in Configs /\ Accepted(config) /\ attempt \in 1..config.retry.max_attempts
  BY DEF TypeOK
<1>2. config.retry.max_attempts \in Nat /\ SlotWait(config) \in Nat /\ Legs(config) \in {1, 2}
  BY <1>1, PolicyFacts
<1>3. attempt \in Nat \ {0} /\ attempt - 1 \in Nat /\ attempt <= config.retry.max_attempts
  BY <1>1, <1>2
<1>4. /\ LongestDelay(config, attempt) \in Nat /\ LongestPause(config, attempt) \in Nat
      /\ LongestPause(config, attempt) >= LongestDelay(config, attempt) + SlotWait(config)
  BY <1>1, <1>3, LongestFacts
<1>5. TimeFor(config, attempt) \in Nat /\ Pauses(config)[attempt - 1] \in Nat
  BY <1>1, <1>3, TimeForFacts, PauseFacts
<1>6. Leg \in Nat /\ Behind \in Nat
  BY <1>2, <1>4, <1>5 DEF Leg, Behind
<1>7. Legs(config) = 2 => LongestPause(config, attempt) = Leg + Leg
  BY <1>2, <1>4, <1>6 DEF LongestPause, Leg
<1>8. QED BY <1>1, <1>2, <1>3, <1>4, <1>6, <1>7 DEF Leg, AllowedPause

\* From one attempt to the next.
LEMMA ShiftFacts ==
  ASSUME TypeOK
  PROVE  /\ TimeFor(config, attempt - 1) + Pauses(config)[attempt - 1] \in Nat
         /\ TimeFor(config, attempt - 1) + Pauses(config)[attempt - 1] <= Behind
         /\ config.timeout.per_attempt =>
              Behind = TimeFor(config, attempt - 1) + Pauses(config)[attempt - 1]
                         + config.timeout.seconds
         /\ ~config.timeout.per_attempt => config.timeout.seconds <= Behind
         /\ Behind + LongestPause(config, attempt)
              = TimeFor(config, attempt) + Pauses(config)[attempt]
         /\ config.timeout.seconds \in Nat \ {0} /\ config.timeout.per_attempt \in BOOLEAN
<1>1. /\ config \in Configs /\ Accepted(config) /\ attempt \in Nat \ {0} /\ attempt - 1 \in Nat
      /\ (attempt - 1) + 1 = attempt
  BY AttemptFacts
<1>2. config.timeout.seconds \in Nat \ {0} /\ config.timeout.per_attempt \in BOOLEAN
  BY <1>1, PolicyFacts
<1>3. /\ Pauses(config)[attempt - 1] \in Nat /\ LongestPause(config, attempt) \in Nat
      /\ Pauses(config)[attempt] = Pauses(config)[attempt - 1] + LongestPause(config, attempt)
  BY <1>1, PauseFacts, AttemptFacts
<1> DEFINE before == TimeFor(config, attempt - 1)
           after == TimeFor(config, attempt)
<1>4. /\ before \in Nat
      /\ config.timeout.per_attempt => after = before + config.timeout.seconds
      /\ ~config.timeout.per_attempt =>
           before = config.timeout.seconds /\ after = config.timeout.seconds
  BY <1>1, TimeForFacts
<1>5. Behind = after + Pauses(config)[attempt - 1]
  BY DEF Behind
<1> HIDE DEF before, after
<1>6. QED BY <1>2, <1>3, <1>4, <1>5 DEF before, after

LEMMA SameAttempt ==
  ASSUME UNCHANGED <<config, attempt>>
  PROVE  Behind' = Behind /\ Leg' = Leg
BY DEF Behind, Leg

LEMMA TimingInitially == Init => TimingInv
<1> SUFFICES ASSUME Init PROVE TimingInv
  OBVIOUS
<1>1. TypeOK
  <2>1. config \in Configs /\ Accepted(config)
    BY DEF Init
  <2>2. config.retry.max_attempts \in Nat \ {0}
    BY <2>1, PolicyFacts
  <2>3. QED BY <2>1, <2>2 DEF Init, TypeOK
<1>2. ReadyInTime
  BY <1>1, ShiftFacts DEF Init, ReadyInTime
<1>3. QED
  BY <1>1, <1>2 DEF Init, TimingInv, RunningInTime, PausingInTime, EndedInTime

LEMMA BeginKeeps == ASSUME TimingInv, Begin PROVE TimingInv'
<1>1. TypeOK /\ ReadyInTime /\ stage = "ready" /\ stage' = "running" /\ limit' = TimeLeft
      /\ TimeLeft > 0 /\ UNCHANGED <<config, attempt, path, clock, wait, notBefore>>
  BY DEF TimingInv, Begin
<1>2. clock \in Nat
  BY <1>1 DEF TypeOK
<1>3. TimeLeft \in Nat
  BY <1>1, <1>2, ShiftFacts DEF TimeLeft
<1>4. TypeOK'
  BY <1>1, <1>3 DEF TypeOK
<1>5. /\ clock + TimeLeft <= Behind
      /\ ~config.timeout.per_attempt => clock + TimeLeft <= config.timeout.seconds
  BY <1>1, <1>2, ShiftFacts, AttemptFacts DEF TimeLeft, ReadyInTime
<1>6. RunningInTime'
  BY <1>1, <1>5, SameAttempt DEF RunningInTime, ReadyInTime
<1>7. QED BY <1>1, <1>4, <1>6 DEF TimingInv, ReadyInTime, PausingInTime, EndedInTime

LEMMA FailedKeeps ==
  ASSUME TimingInv, NEW trigger, KnownHeader(RetryAfterHeader(trigger)), Failed(trigger),
         \/ clock <= Behind
         \/ /\ attempt < config.retry.max_attempts
            /\ Legs(config) = 2
            /\ clock <= Behind + Leg
  PROVE  TimingInv'
<1>1. TypeOK /\ limit' = 0 /\ path' = "exception" /\ UNCHANGED <<config, attempt, clock>>
  BY DEF TimingInv, Failed
<1>2. Behind' = Behind /\ Leg' = Leg
  BY <1>1, SameAttempt
<1>3. clock \in Nat
  BY <1>1 DEF TypeOK
<1>4. /\ Behind \in Nat /\ Leg \in Nat /\ LongestPause(config, attempt) \in Nat
      /\ LongestPause(config, attempt) >= Leg
      /\ Legs(config) = 2 => LongestPause(config, attempt) = Leg + Leg
      /\ attempt \in Nat \ {0} /\ LongestDelay(config, attempt) \in Nat /\ SlotWait(config) \in Nat
      /\ Leg = LongestDelay(config, attempt) + SlotWait(config)
  BY <1>1, AttemptFacts
<1> DEFINE pause == LongestPause(config, attempt)
           max == config.retry.max_attempts
<1>5. CASE stage' = "done" /\ UNCHANGED <<wait, notBefore>>
  <2>1. TypeOK'
    BY <1>1, <1>5 DEF TypeOK
  <2>2. clock <= Behind + (IF attempt < max THEN pause ELSE 0)
    BY <1>3, <1>4
  <2>3. EndedInTime'
    BY <1>1, <1>2, <1>5, <2>2 DEF EndedInTime
  <2>4. QED BY <1>5, <2>1, <2>3 DEF TimingInv, ReadyInTime, RunningInTime, PausingInTime
<1>6. ASSUME attempt < max, NEW d \in ResolvedDelays(attempt, trigger),
             IF d = NaN
             THEN stage' = "unsleepable" /\ UNCHANGED <<wait, notBefore>>
             ELSE stage' = "sleeping" /\ wait' = d /\ notBefore' = clock + Asked(trigger)
      PROVE  TimingInv'
  <2>1. /\ Asked(trigger) \in Int
        /\ \/ d \in Nat /\ d # NaN /\ d <= LongestDelay(config, attempt) /\ d >= Asked(trigger)
           \/ d = NaN /\ AnswersNaN(config.retry.delay_func)
    BY <1>1, <1>4, DelayFacts
  <2>2. CASE d = NaN
    <3>1. stage' = "unsleepable" /\ UNCHANGED <<wait, notBefore>>
      BY <1>6, <2>2
    <3>2. TypeOK'
      BY <1>1, <3>1 DEF TypeOK
    <3>3. clock <= Behind + pause
      BY <1>3, <1>4
    <3>4. AnswersNaN(config.retry.delay_func)
      BY <2>1, <2>2
    <3>5. EndedInTime'
      BY <1>1, <1>2, <1>6, <3>1, <3>3, <3>4 DEF EndedInTime
    <3>6. QED BY <3>1, <3>2, <3>5 DEF TimingInv, ReadyInTime, RunningInTime, PausingInTime
  <2>3. CASE d # NaN
    <3>1. stage' = "sleeping" /\ wait' = d /\ notBefore' = clock + Asked(trigger)
      BY <1>6, <2>3
    <3>2. d \in Nat /\ d <= LongestDelay(config, attempt) /\ d >= Asked(trigger)
      BY <2>1, <2>3
    <3>3. clock + d + SlotWait(config) <= Behind + pause /\ clock + d >= clock + Asked(trigger)
      BY <1>3, <1>4, <2>1, <3>2
    <3>4. clock + Asked(trigger) \in Int
      BY <1>3, <2>1
    <3>5. TypeOK'
      BY <1>1, <3>1, <3>2, <3>4 DEF TypeOK
    <3>6. AllowedPause' = pause
      BY <1>1 DEF AllowedPause
    <3>7. PausingInTime'
      BY <1>1, <1>2, <1>6, <3>1, <3>3, <3>6 DEF PausingInTime
    <3>8. QED BY <3>1, <3>5, <3>7 DEF TimingInv, ReadyInTime, RunningInTime, EndedInTime
  <2>4. QED BY <2>2, <2>3
<1>7. QED BY <1>5, <1>6 DEF Failed

LEMMA NextAttemptKeeps ==
  ASSUME TypeOK, NextAttempt, UNCHANGED <<config, clock>>,
         attempt < config.retry.max_attempts,
         clock <= Behind + LongestPause(config, attempt),
         notBefore' \in Int, notBefore' <= clock,
         limit' \in Nat, path' \in {"exception", "result"}
  PROVE  TimingInv'
<1>1. stage' = "ready" /\ attempt' = attempt + 1 /\ wait' = 0
  BY DEF NextAttempt
<1>2. attempt \in Nat \ {0} /\ config.retry.max_attempts \in Nat
  BY AttemptFacts
<1>3. attempt + 1 \in 1..config.retry.max_attempts /\ (attempt + 1) - 1 = attempt
  BY <1>2
<1>4. TypeOK'
  BY <1>1, <1>3 DEF TypeOK
<1>5. clock <= TimeFor(config, attempt) + Pauses(config)[attempt]
  BY ShiftFacts
<1>6. ReadyInTime'
  BY <1>1, <1>3, <1>5 DEF ReadyInTime
<1>7. QED BY <1>1, <1>4, <1>6 DEF TimingInv, RunningInTime, PausingInTime, EndedInTime

LEMMA UnwantedKeeps == ASSUME TimingInv, NEW result \in Triggers, Unwanted(result) PROVE TimingInv'
<1>1. /\ TypeOK /\ RunningInTime /\ stage = "running" /\ attempt < config.retry.max_attempts
      /\ config.retry.retry_on_result # None
      /\ limit' = 0 /\ path' = "result" /\ notBefore' = clock + Asked(result)
      /\ UNCHANGED <<config, clock>>
  BY DEF TimingInv, Unwanted
<1>2. PICK d \in ResolvedDelays(attempt, result) :
        IF Below(0, d)
        THEN stage' = "sleeping" /\ wait' = d /\ UNCHANGED attempt
        ELSE NextAttempt
  BY DEF Unwanted
<1>3. clock \in Nat /\ limit \in Nat
  BY <1>1 DEF TypeOK
<1>4. /\ Behind \in Nat /\ Leg \in Nat /\ LongestPause(config, attempt) \in Nat
      /\ attempt \in Nat \ {0} /\ LongestDelay(config, attempt) \in Nat /\ SlotWait(config) \in Nat
      /\ Leg = LongestDelay(config, attempt) + SlotWait(config)
  BY <1>1, AttemptFacts
<1>5. KnownHeader(RetryAfterHeader(result))
  BY RetryTimingAssumption
<1>6. /\ Asked(result) \in Int
      /\ \/ /\ d \in Nat /\ d # NaN /\ d <= LongestDelay(config, attempt)
            /\ d >= Asked(result)
         \/ d = NaN /\ Asked(result) = 0
  BY <1>1, <1>4, <1>5, DelayFacts
<1>7. clock <= Behind
  BY <1>1, <1>3, <1>4 DEF RunningInTime
<1>8. clock + Asked(result) \in Int
  BY <1>3, <1>6
<1>9. CASE Below(0, d)
  <2>1. d \in Nat /\ d <= LongestDelay(config, attempt) /\ d >= Asked(result)
    BY <1>6, <1>9 DEF Below
  <2>2. stage' = "sleeping" /\ wait' = d /\ UNCHANGED attempt
    BY <1>2, <1>9
  <2>3. clock + d + SlotWait(config) <= Behind + Leg /\ clock + d >= clock + Asked(result)
    BY <1>3, <1>4, <1>6, <1>7, <2>1
  <2>4. TypeOK'
    BY <1>1, <1>8, <2>1, <2>2 DEF TypeOK
  <2>5. Behind' = Behind /\ AllowedPause' = Leg
    BY <1>1, <2>2, SameAttempt DEF AllowedPause
  <2>6. PausingInTime'
    BY <1>1, <2>2, <2>3, <2>5 DEF PausingInTime
  <2>7. QED BY <2>2, <2>4, <2>6 DEF TimingInv, ReadyInTime, RunningInTime, EndedInTime
<1>10. CASE ~Below(0, d)
  <2>1. NextAttempt
    BY <1>2, <1>10
  <2>2. Asked(result) <= 0
    BY <1>6, <1>10, NaNAssumption DEF Below
  <2>3. clock + Asked(result) <= clock
    BY <1>3, <1>6, <2>2
  <2>4. clock <= Behind + LongestPause(config, attempt)
    BY <1>3, <1>4, <1>7
  <2>5. QED BY <1>1, <1>8, <2>1, <2>3, <2>4, NextAttemptKeeps
<1>11. QED BY <1>9, <1>10

LEMMA RequeueKeeps == ASSUME TimingInv, Requeue PROVE TimingInv'
<1>1. /\ TypeOK /\ PausingInTime /\ stage = "sleeping" /\ wait = 0
      /\ UNCHANGED <<config, path, clock, limit, notBefore>>
  BY DEF TimingInv, Requeue
<1>2. clock \in Nat /\ limit \in Nat /\ notBefore \in Int /\ path \in {"exception", "result"}
  BY <1>1 DEF TypeOK
<1>3. /\ Behind \in Nat /\ SlotWait(config) \in Nat
      /\ AllowedPause \in Nat /\ LongestPause(config, attempt) \in Nat
      /\ AllowedPause <= LongestPause(config, attempt)
  BY <1>1, AttemptFacts
<1>4. /\ attempt < config.retry.max_attempts
      /\ clock + SlotWait(config) <= Behind + AllowedPause
      /\ clock >= notBefore
      /\ path = "result" => config.retry.retry_on_result # None
  BY <1>1, <1>2, <1>3 DEF PausingInTime
<1>5. CASE config.bulkhead = None
  <2>1. NextAttempt
    BY <1>5 DEF Requeue
  <2>2. clock <= Behind + LongestPause(config, attempt)
    BY <1>2, <1>3, <1>4
  <2>3. QED BY <1>1, <1>2, <1>4, <2>1, <2>2, NextAttemptKeeps
<1>6. CASE config.bulkhead # None
  <2>1. stage' = "slot" /\ wait' = SlotWait(config) /\ UNCHANGED attempt
    BY <1>6 DEF Requeue
  <2>2. Behind' = Behind /\ AllowedPause' = AllowedPause
    BY <1>1, <2>1, SameAttempt DEF AllowedPause
  <2>3. TypeOK'
    BY <1>1, <1>3, <2>1 DEF TypeOK
  <2>4. clock + SlotWait(config) >= notBefore
    BY <1>2, <1>3, <1>4
  <2>5. clock + SlotWait(config) + 0 <= Behind + AllowedPause
    BY <1>2, <1>3, <1>4
  <2>6. PausingInTime'
    BY <1>1, <1>4, <1>6, <2>1, <2>2, <2>4, <2>5 DEF PausingInTime
  <2>7. QED BY <2>1, <2>3, <2>6 DEF TimingInv, ReadyInTime, RunningInTime, EndedInTime
<1>7. QED BY <1>5, <1>6

\* Where a wait for a slot stands.
LEMMA SlotFacts ==
  ASSUME TimingInv, stage = "slot"
  PROVE  /\ attempt < config.retry.max_attempts
         /\ clock <= Behind + AllowedPause
         /\ clock <= Behind + LongestPause(config, attempt)
         /\ clock >= notBefore
         /\ path = "result" => Legs(config) = 2 /\ clock <= Behind + Leg
<1>1. TypeOK /\ PausingInTime
  BY DEF TimingInv
<1>2. clock \in Nat /\ wait \in Nat /\ notBefore \in Int
  BY <1>1 DEF TypeOK
<1>3. /\ Behind \in Nat /\ AllowedPause \in Nat /\ LongestPause(config, attempt) \in Nat
      /\ AllowedPause <= LongestPause(config, attempt)
  BY <1>1, AttemptFacts
<1>4. /\ attempt < config.retry.max_attempts
      /\ clock + wait + 0 <= Behind + AllowedPause
      /\ path = "result" => config.retry.retry_on_result # None
      /\ config.bulkhead # None /\ clock >= notBefore
  BY <1>1 DEF PausingInTime
<1>5. clock <= Behind + AllowedPause /\ clock <= Behind + LongestPause(config, attempt)
  BY <1>2, <1>3, <1>4
<1>6. path = "result" => Legs(config) = 2 /\ AllowedPause = Leg
  BY <1>4 DEF Legs, AllowedPause
<1>7. QED BY <1>4, <1>5, <1>6

LEMMA ReadmittedKeeps == ASSUME TimingInv, Readmitted PROVE TimingInv'
<1>1. TypeOK /\ stage = "slot" /\ NextAttempt /\ UNCHANGED <<config, path, clock, limit, notBefore>>
  BY DEF TimingInv, Readmitted
<1>2. limit \in Nat /\ notBefore \in Int /\ path \in {"exception", "result"} /\ clock \in Nat
  BY <1>1 DEF TypeOK
<1>3. /\ attempt < config.retry.max_attempts
      /\ clock <= Behind + LongestPause(config, attempt) /\ clock >= notBefore
  BY <1>1, SlotFacts
<1>4. notBefore' <= clock
  BY <1>1, <1>2, <1>3
<1>5. QED BY <1>1, <1>2, <1>3, <1>4, NextAttemptKeeps

LEMMA RefusedKeeps == ASSUME TimingInv, Refused PROVE TimingInv'
<1>1. TypeOK /\ stage = "slot"
  BY DEF TimingInv, Refused
<1>2. /\ attempt < config.retry.max_attempts
      /\ clock <= Behind + LongestPause(config, attempt)
      /\ path = "result" => Legs(config) = 2 /\ clock <= Behind + Leg
  BY <1>1, SlotFacts
<1>3. CASE path = "exception" /\ stage' = "done"
           /\ UNCHANGED <<config, attempt, path, clock, limit, wait, notBefore>>
  <2>1. TypeOK'
    BY <1>1, <1>3 DEF TypeOK
  <2>2. EndedInTime'
    BY <1>2, <1>3, SameAttempt DEF EndedInTime
  <2>3. QED BY <1>3, <2>1, <2>2 DEF TimingInv, ReadyInTime, RunningInTime, PausingInTime
<1>4. CASE path = "result" /\ Failed(Bare)
  <2>1. KnownHeader(RetryAfterHeader(Bare))
    BY BareHasNoHeader DEF KnownHeader
  <2>2. QED BY <1>2, <1>4, <2>1, FailedKeeps
<1>5. QED BY <1>3, <1>4 DEF Refused

LEMMA RunningIsBehind == ASSUME TimingInv, stage = "running" PROVE clock <= Behind
<1>1. clock \in Nat /\ limit \in Nat /\ Behind \in Nat
  BY AttemptFacts DEF TimingInv, TypeOK
<1>2. clock + limit <= Behind
  BY DEF TimingInv, RunningInTime
<1>3. QED BY <1>1, <1>2

\* Only a deadline for the whole call can have passed before an attempt.
LEMMA TooLateIsBehind == ASSUME TimingInv, stage = "ready" PROVE clock <= Behind
<1>1. TypeOK /\ ReadyInTime
  BY DEF TimingInv
<1>2. clock \in Nat /\ Behind \in Nat
  BY <1>1, AttemptFacts DEF TypeOK
<1>3. QED BY <1>1, <1>2, ShiftFacts DEF ReadyInTime

LEMMA FailuresKeep ==
  ASSUME TimingInv, TooLate \/ TimeOut \/ \E t \in Triggers : Raise(t)
  PROVE  TimingInv'
<1>1. KnownHeader(RetryAfterHeader(Bare))
  BY BareHasNoHeader DEF KnownHeader
<1>2. CASE TooLate
  <2>1. stage = "ready" /\ Failed(Bare)
    BY <1>2 DEF TooLate
  <2>2. QED BY <1>1, <2>1, TooLateIsBehind, FailedKeeps
<1>3. CASE TimeOut
  <2>1. stage = "running" /\ Failed(Bare)
    BY <1>3 DEF TimeOut
  <2>2. QED BY <1>1, <2>1, RunningIsBehind, FailedKeeps
<1>4. ASSUME NEW t \in Triggers, Raise(t) PROVE TimingInv'
  <2>1. stage = "running" /\ Failed(t)
    BY <1>4 DEF Raise
  <2>2. KnownHeader(RetryAfterHeader(t))
    BY RetryTimingAssumption
  <2>3. QED BY <2>1, <2>2, RunningIsBehind, FailedKeeps
<1>5. QED BY <1>2, <1>3, <1>4

LEMMA ReturnKeeps == ASSUME TimingInv, Return PROVE TimingInv'
<1>1. /\ TypeOK /\ stage = "running" /\ stage' = "done" /\ limit' = 0
      /\ UNCHANGED <<config, attempt, path, clock, wait, notBefore>>
  BY DEF TimingInv, Return
<1>2. TypeOK'
  BY <1>1 DEF TypeOK
<1>3. clock \in Nat /\ Behind \in Nat /\ LongestPause(config, attempt) \in Nat /\ clock <= Behind
  BY <1>1, AttemptFacts, RunningIsBehind DEF TypeOK
<1>4. clock <= Behind + (IF attempt < config.retry.max_attempts
                         THEN LongestPause(config, attempt) ELSE 0)
  BY <1>3
<1>5. EndedInTime'
  BY <1>1, <1>4, SameAttempt DEF EndedInTime
<1>6. QED BY <1>1, <1>2, <1>5 DEF TimingInv, ReadyInTime, RunningInTime, PausingInTime

LEMMA AgainKeeps == ASSUME TimingInv, Again PROVE TimingInv'
<1>1. /\ TypeOK /\ stage' = "ready" /\ attempt' = 1 /\ path' = "exception" /\ clock' = 0
      /\ limit' = 0 /\ wait' = 0 /\ notBefore' = 0 /\ UNCHANGED config
  BY DEF TimingInv, Again
<1>2. config \in Configs /\ Accepted(config) /\ config.retry.max_attempts \in Nat \ {0}
  BY <1>1, PolicyFacts DEF TypeOK
<1>3. TypeOK'
  BY <1>1, <1>2 DEF TypeOK
<1>4. TimeFor(config, 0) \in Nat /\ Pauses(config)[0] = 0
  BY <1>2, TimeForFacts, PauseFacts
<1>5. ReadyInTime'
  <2>1. attempt' - 1 = 0
    BY <1>1
  <2>2. 0 <= TimeFor(config, 0) + Pauses(config)[0]
    BY <1>4
  <2>3. QED BY <1>1, <2>1, <2>2 DEF ReadyInTime
<1>6. QED BY <1>1, <1>3, <1>5 DEF TimingInv, RunningInTime, PausingInTime, EndedInTime

LEMMA TickKeeps == ASSUME TimingInv, Tick PROVE TimingInv'
<1>1. /\ TypeOK /\ clock' = clock + 1
      /\ UNCHANGED <<config, stage, attempt, path, notBefore>>
  BY DEF TimingInv, Tick
<1>2. clock \in Nat /\ limit \in Nat /\ wait \in Nat /\ notBefore \in Int
  BY <1>1 DEF TypeOK
<1>3. Behind' = Behind /\ AllowedPause' = AllowedPause
  BY <1>1, SameAttempt DEF AllowedPause
<1>4. CASE stage = "running" /\ limit > 0 /\ limit' = limit - 1 /\ UNCHANGED wait
  <2>1. limit' \in Nat /\ clock' \in Nat /\ clock' + limit' = clock + limit
        /\ (clock >= notBefore => clock' >= notBefore)
    BY <1>1, <1>2, <1>4
  <2>2. TypeOK'
    BY <1>1, <1>4, <2>1 DEF TypeOK
  <2>3. RunningInTime'
    BY <1>1, <1>3, <1>4, <2>1 DEF TimingInv, RunningInTime
  <2>4. QED BY <1>1, <1>4, <2>2, <2>3 DEF TimingInv, ReadyInTime, PausingInTime, EndedInTime
<1>5. CASE stage \in {"sleeping", "slot"} /\ wait > 0 /\ wait' = wait - 1 /\ UNCHANGED limit
  <2>1. wait' \in Nat /\ clock' \in Nat /\ clock' + wait' = clock + wait
        /\ (clock >= notBefore => clock' >= notBefore)
    BY <1>1, <1>2, <1>5
  <2>2. TypeOK'
    BY <1>1, <1>5, <2>1 DEF TypeOK
  <2>3. PausingInTime'
    BY <1>1, <1>3, <1>5, <2>1 DEF TimingInv, PausingInTime
  <2>4. QED BY <1>1, <1>5, <2>2, <2>3 DEF TimingInv, ReadyInTime, RunningInTime, EndedInTime
<1>6. QED BY <1>4, <1>5 DEF Tick

LEMMA TimingInvKept == TimingInv /\ [Next]_vars => TimingInv'
<1> SUFFICES ASSUME TimingInv, [Next]_vars PROVE TimingInv'
  OBVIOUS
<1>1. CASE Begin
  BY <1>1, BeginKeeps
<1>2. CASE TooLate \/ TimeOut \/ \E t \in Triggers : Raise(t)
  BY <1>2, FailuresKeep
<1>3. CASE Return
  BY <1>3, ReturnKeeps
<1>4. ASSUME NEW t \in Triggers, Unwanted(t) PROVE TimingInv'
  BY <1>4, UnwantedKeeps
<1>5. CASE Requeue
  BY <1>5, RequeueKeeps
<1>6. CASE Readmitted
  BY <1>6, ReadmittedKeeps
<1>7. CASE Refused
  BY <1>7, RefusedKeeps
<1>8. CASE Again
  BY <1>8, AgainKeeps
<1>9. CASE Tick
  BY <1>9, TickKeeps
<1>10. CASE UNCHANGED vars
  BY <1>10, SameAttempt DEF vars, TimingInv, TypeOK, ReadyInTime, RunningInTime, PausingInTime,
     EndedInTime, AllowedPause
<1>11. QED
  BY <1>1, <1>2, <1>3, <1>4, <1>5, <1>6, <1>7, <1>8, <1>9, <1>10 DEF Next

-----------------------------------------------------------------------------
(* RetryTiming: theorems. *)

LEMMA TimingInvariance == Spec => []TimingInv
BY TimingInitially, TimingInvKept, PTL DEF Spec

\* The attempt never exceeds max_attempts, and no timer or clock turns negative, under
\* any policy that the classes accept.
THEOREM TimingIsAlwaysTyped == Spec => []TypeOK
BY TimingInvariance, PTL DEF TimingInv

\* Whatever the policy, the trigger and its Retry-After header, and whatever delay_func
\* answers, a call is at every moment within its timeouts and its longest pauses so far
\* (_execute_with_retry, _resolve_delay).
THEOREM WorstCaseAlwaysHolds == Spec => []WorstCase
<1>1. TimingInv => WorstCase
  <2> SUFFICES ASSUME TimingInv PROVE WorstCase
    OBVIOUS
  <2>1. TypeOK /\ ReadyInTime /\ RunningInTime /\ PausingInTime /\ EndedInTime
    BY DEF TimingInv
  <2>2. clock \in Nat /\ limit \in Nat /\ wait \in Nat
    BY <2>1 DEF TypeOK
  <2>3. /\ Behind \in Nat /\ LongestPause(config, attempt) \in Nat /\ SlotWait(config) \in Nat
        /\ AllowedPause \in Nat /\ AllowedPause <= LongestPause(config, attempt)
        /\ attempt \in Nat \ {0} /\ attempt <= config.retry.max_attempts
        /\ config.retry.max_attempts \in Nat
    BY <2>1, AttemptFacts
  <2>4. (IF config.timeout.per_attempt THEN attempt ELSE 1) * config.timeout.seconds
          = TimeFor(config, attempt)
    BY <2>1, ShiftFacts DEF TimeFor
  <2>5. CASE stage \in {"ready", "running"} \/ attempt = config.retry.max_attempts
    <3>1. PausesBegun = attempt - 1
      BY <2>5 DEF PausesBegun
    <3>2. clock <= Behind
      <4>1. CASE stage = "ready"
        BY <4>1, TooLateIsBehind
      <4>2. CASE stage = "running"
        BY <4>2, RunningIsBehind
      <4>3. CASE stage \notin {"ready", "running"} /\ attempt = config.retry.max_attempts
        <5>1. stage = "done"
          BY <2>1, <2>3, <4>3 DEF TypeOK, PausingInTime, EndedInTime
        <5>2. QED BY <2>1, <2>2, <2>3, <4>3, <5>1 DEF EndedInTime
      <4>4. QED BY <2>5, <4>1, <4>2, <4>3
    <3>3. QED BY <2>4, <3>1, <3>2 DEF WorstCase, Behind
  <2>6. CASE ~(stage \in {"ready", "running"} \/ attempt = config.retry.max_attempts)
    <3>1. PausesBegun = attempt /\ attempt < config.retry.max_attempts
      BY <2>3, <2>6 DEF PausesBegun
    <3>2. clock <= Behind + LongestPause(config, attempt)
      <4>1. CASE stage \in {"done", "unsleepable"}
        BY <2>1, <3>1, <4>1 DEF EndedInTime
      <4>2. CASE stage \in {"sleeping", "slot"}
        BY <2>1, <2>2, <2>3, <4>2 DEF PausingInTime
      <4>3. QED BY <2>1, <2>6, <4>1, <4>2 DEF TypeOK
    <3>3. clock <= TimeFor(config, attempt) + Pauses(config)[attempt]
      BY <2>1, <3>2, ShiftFacts
    <3>4. QED BY <2>4, <3>1, <3>3 DEF WorstCase
  <2>7. QED BY <2>5, <2>6
<1>2. QED BY <1>1, TimingInvariance, PTL

\* No attempt runs past a deadline for the whole call (remaining, in
\* _execute_with_retry).
THEOREM AttemptsAlwaysEndInTime == Spec => []RunsBeforeDeadline
<1>1. TimingInv => RunsBeforeDeadline
  BY DEF TimingInv, RunningInTime, RunsBeforeDeadline
<1>2. QED BY <1>1, TimingInvariance, PTL

\* No Retry-After header, NaN included, makes time.sleep raise: only a delay_func of the
\* user's own can (retry_after_delay, _resolve_delay).
THEOREM HeadersNeverRaise == Spec => []SleepNeverRaises
<1>1. TimingInv => SleepNeverRaises
  BY DEF TimingInv, EndedInTime, SleepNeverRaises, AnswersNaN
<1>2. QED BY <1>1, TimingInvariance, PTL

\* Whatever the server puts into Retry-After, the next attempt does not begin before the
\* time it asks for, as far as max_wait and max_delay allow.
THEOREM ServerIsAlwaysLeftAlone == Spec => []ServerIsLeftAlone
<1>1. TimingInv => ServerIsLeftAlone
  BY DEF TimingInv, RunningInTime, ServerIsLeftAlone
<1>2. QED BY <1>1, TimingInvariance, PTL

\* timelimiter.md's count of delays is right for every policy that does not combine
\* retry_on_result with a bulkhead: from a wait for a slot no second sleep follows.
THEOREM OneDelayWithoutResultsToRetry ==
  ASSUME \A c \in Configs : c.retry.retry_on_result = None \/ c.bulkhead = None
  PROVE  Spec => OneDelayPerRetry
<1>1. TimingInv /\ [Next]_vars => [stage = "slot" => stage' # "sleeping"]_vars
  <2> SUFFICES ASSUME TimingInv, Next, stage = "slot" PROVE stage' # "sleeping"
    BY DEF vars
  <2>1. path # "result"
    <3>1. /\ config \in Configs /\ config.bulkhead # None
          /\ path = "result" => config.retry.retry_on_result # None
      BY DEF TimingInv, TypeOK, PausingInTime
    <3>2. QED BY <3>1
  <2>2. Readmitted \/ Refused \/ Tick
    BY DEF Next, Begin, TooLate, Return, TimeOut, Raise, Unwanted, Requeue, Again
  <2>3. QED BY <2>1, <2>2 DEF Readmitted, NextAttempt, Refused, Tick
<1>2. QED BY <1>1, TimingInvariance, PTL DEF Spec, OneDelayPerRetry

\* retry.md is right where delay_func never answers NaN: whatever number it answers, and
\* whatever a Retry-After header says, the sleep does not raise (_resolve_delay).
THEOREM DelaysAreClampedToNumbers ==
  ASSUME \A c \in Configs : ~AnswersNaN(c.retry.delay_func)
  PROVE  Spec => []DelaysClamped
<1>1. TimingInv => DelaysClamped
  BY DEF TimingInv, TypeOK, EndedInTime, DelaysClamped
<1>2. QED BY <1>1, TimingInvariance, PTL

\* timelimiter.md's reading of a deadline for the whole call is right where nothing is
\* retried: the call is over by then.
THEOREM DeadlineHoldsWithoutRetries ==
  ASSUME \A c \in Configs : c.retry.max_attempts = 1
  PROVE  Spec => []EndsByDeadline
<1>1. TimingInv /\ WorstCase => EndsByDeadline
  <2> SUFFICES ASSUME TimingInv, WorstCase, ~config.timeout.per_attempt
               PROVE  clock <= config.timeout.seconds
    BY DEF EndsByDeadline
  <2>1. /\ config \in Configs /\ Accepted(config) /\ attempt \in Nat \ {0}
        /\ attempt <= config.retry.max_attempts /\ clock \in Nat
    BY AttemptFacts DEF TimingInv, TypeOK
  <2>2. attempt = 1 /\ attempt = config.retry.max_attempts
    BY <2>1
  <2>3. PausesBegun = 0
    BY <2>2 DEF PausesBegun
  <2>4. Pauses(config)[0] = 0 /\ config.timeout.seconds \in Nat
    BY <2>1, PauseFacts, PolicyFacts
  <2>5. clock <= 1 * config.timeout.seconds + 0
    BY <2>3, <2>4 DEF WorstCase
  <2>6. QED BY <2>1, <2>4, <2>5
<1>2. QED BY <1>1, TimingInvariance, WorstCaseAlwaysHolds, PTL

=============================================================================
