----------------------------- MODULE TokenBucket -----------------------------
(***************************************************************************)
(* The token bucket of RateLimiter and AsyncRateLimiter (_rate_limiter.py) *)
(* and of RetryBudget (_retry_budget.py), shared by concurrent callers.    *)
(*                                                                         *)
(* The limiter counts in integers: a token is One units, and a refill adds *)
(* elapsed * rate // One units, so the fraction of a unit is lost while    *)
(* the clock of the refill moves on.  (The code's One is 10^9; its ratio   *)
(* to the rate is what matters.)  The budget counts in floats, modelled    *)
(* as exact: there one tick adds Rate units of which One make a token.     *)
(*                                                                         *)
(* Time is counted in ticks since the last refill, saturated where the     *)
(* bucket would be full whatever it held before.                           *)
(***************************************************************************)
EXTENDS Integers, FiniteSetsExt

CONSTANTS
  Callers,     \* the threads or coroutines
  One,         \* units in a token
  Rate,        \* what a tick adds, in units (budget) or 1/One units (limiter)
  Capacity,    \* max_calls or max_retries, in units
  Saturation,  \* ticks that fill an empty bucket
  MaxWait      \* max_wait in ticks

ASSUME TokenBucketAssumption ==
  /\ One \in Nat \ {0} /\ Rate \in Nat \ {0}
  /\ Capacity \in Nat \ {0} /\ One <= Capacity
  /\ MaxWait \in Nat
  /\ Saturation \in Nat /\ (Saturation * Rate) \div One >= Capacity

VARIABLES
  isBudget,   \* RetryBudget rather than a rate limiter: chosen once and for all
  tokens,     \* _tokens_ns or _tokens, in units
  since,      \* ticks since _last_refill, saturated
  waiting,    \* the callers between two polls of acquire
  patience,   \* for each of them, the ticks left until its deadline
  excess      \* history: how far the tokens granted are ahead of the rate

bucketVars == <<isBudget, tokens, since, waiting, patience, excess>>

BucketTypeOK ==
  /\ isBudget \in BOOLEAN
  /\ tokens \in 0..Capacity
  /\ since \in 0..Saturation
  /\ waiting \subseteq Callers
  /\ patience \in [Callers -> 0..MaxWait]
  /\ excess \in Nat

BucketInit ==
  /\ isBudget \in BOOLEAN
  /\ tokens = Capacity
  /\ since = 0
  /\ waiting = {}
  /\ patience = [c \in Callers |-> 0]
  /\ excess = 0

-----------------------------------------------------------------------------
\* Rate is in units a tick for a budget, in 1/One units for a limiter.
Divisor == IF isBudget THEN 1 ELSE One

\* Rounds down (//).
Added(elapsed) == (elapsed * Rate) \div Divisor

\* A budget never waits.
Patience == IF isBudget THEN 0 ELSE MaxWait

-----------------------------------------------------------------------------
(* Faulty variants, used only by mutation runs. *)

RefillForgotten == tokens

RefillKeepsClock == UNCHANGED since

PollsForever(c) == UNCHANGED <<waiting, patience, excess>>

-----------------------------------------------------------------------------
\* _refill: tokens after it
Refilled ==
  IF tokens + Added(since) <= Capacity THEN tokens + Added(since) ELSE Capacity

\* _refill: it moves its clock to now, whatever it added
RefillClock == since' = 0

Enough == Refilled >= One

\* The token is taken; excess counts in 1/Divisor units.
Take ==
  /\ RefillClock
  /\ tokens' = Refilled - One
  /\ excess' = excess + Divisor * One

RefillOnly == RefillClock /\ tokens' = Refilled

\* acquire, first look at the bucket
Ask(c) ==
  /\ c \notin waiting
  /\ \/ /\ Enough
        /\ Take
        /\ UNCHANGED <<waiting, patience>>
     \/ /\ ~Enough
        /\ RefillOnly
        /\ IF Patience = 0
           THEN UNCHANGED <<waiting, patience>>
           ELSE /\ waiting' = waiting \cup {c}
                /\ patience' = [patience EXCEPT ![c] = Patience]
        /\ UNCHANGED excess
  /\ UNCHANGED isBudget

\* acquire with no token found: past the deadline the answer is no
KeepWaiting(c) ==
  /\ waiting' = IF patience[c] = 0 THEN waiting \ {c} ELSE waiting
  /\ UNCHANGED <<patience, excess>>

\* acquire, a later look, after a sleep of 10 ms at most
Poll(c) ==
  /\ c \in waiting
  /\ \/ /\ Enough
        /\ Take
        /\ waiting' = waiting \ {c}
        /\ patience' = [patience EXCEPT ![c] = 0]
     \/ /\ ~Enough
        /\ RefillOnly
        /\ KeepWaiting(c)
  /\ UNCHANGED isBudget

\* The property available of the budget.
ReadAvailable == isBudget /\ RefillOnly /\ UNCHANGED <<isBudget, waiting, patience, excess>>

\* reset: a full bucket; the promise about the rate starts afresh.
Reset ==
  /\ tokens' = Capacity
  /\ since' = 0
  /\ excess' = 0
  /\ UNCHANGED <<isBudget, waiting, patience>>

BucketTick ==
  /\ since' = IF since < Saturation THEN since + 1 ELSE since
  /\ excess' = IF excess > Rate THEN excess - Rate ELSE 0
  /\ patience' = [c \in Callers |-> IF patience[c] > 0 THEN patience[c] - 1 ELSE 0]
  /\ UNCHANGED <<isBudget, tokens, waiting>>

BucketNext ==
  \/ \E c \in Callers : Ask(c) \/ Poll(c)
  \/ ReadAvailable
  \/ Reset
  \/ BucketTick

BucketSpec == BucketInit /\ [][BucketNext]_bucketVars

\* Time passes, someone keeps asking, and whoever sleeps wakes up.
BucketFairSpec ==
  /\ BucketSpec
  /\ WF_bucketVars(BucketTick)
  /\ WF_bucketVars(\E c \in Callers : Ask(c))
  /\ \A c \in Callers : WF_bucketVars(Poll(c))

-----------------------------------------------------------------------------
(* Properties. *)

\* In no interval of any length are more tokens granted than the bucket holds
\* plus what the rate adds in that interval, however calls, polls, readers and
\* refills interleave (acquire and _refill).  excess is the largest surplus over
\* all intervals that end now.
RateNeverExceeded == excess <= Divisor * Capacity

\* No caller waits for a token for ever: by its deadline it has an answer.
WaitsEnd == \A c \in Callers : c \in waiting ~> c \notin waiting

Granted == excess' > excess

\* Whoever keeps asking, and however often, tokens keep being granted.
\* (ratelimiter.md: tokens are refilled continuously at a rate of max_calls/period)
GrantsResume == []<><<Granted>>_bucketVars

=============================================================================
