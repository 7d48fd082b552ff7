--------------------------- MODULE BoundedRetries ---------------------------
(***************************************************************************)
(* What bulkhead and retry together promise: at most MaxConcurrent calls   *)
(* are inside at once, a call that waits to retry gives its place up and   *)
(* has to win one again, and no call gets more than MaxAttempts attempts.  *)
(***************************************************************************)
EXTENDS Integers, FiniteSets

CONSTANTS Calls, MaxConcurrent, MaxAttempts

VARIABLES
  inside,    \* the calls that occupy a place
  resting,   \* the calls between two attempts that gave their place up
  tries      \* the attempts each call has begun

bvars == <<inside, resting, tries>>

BInit ==
  /\ inside = {}
  /\ resting = {}
  /\ tries = [c \in Calls |-> 0]

PlaceFree == Cardinality(inside) < MaxConcurrent

Enter(c) ==
  /\ c \notin inside \cup resting
  /\ PlaceFree
  /\ inside' = inside \cup {c}
  /\ tries' = [tries EXCEPT ![c] = 1]
  /\ UNCHANGED resting

Rest(c) ==
  /\ c \in inside
  /\ inside' = inside \ {c}
  /\ resting' = resting \cup {c}
  /\ UNCHANGED tries

\* Back inside for one more attempt.
Return(c) ==
  /\ c \in resting
  /\ PlaceFree
  /\ tries[c] < MaxAttempts
  /\ inside' = inside \cup {c}
  /\ resting' = resting \ {c}
  /\ tries' = [tries EXCEPT ![c] = @ + 1]

\* One more attempt at once, without leaving.
TryAgain(c) ==
  /\ c \in inside
  /\ tries[c] < MaxAttempts
  /\ tries' = [tries EXCEPT ![c] = @ + 1]
  /\ UNCHANGED <<inside, resting>>

Exit(c) ==
  /\ c \in inside \cup resting
  /\ inside' = inside \ {c}
  /\ resting' = resting \ {c}
  /\ tries' = [tries EXCEPT ![c] = 0]

BNext == \E c \in Calls : Enter(c) \/ Rest(c) \/ Return(c) \/ TryAgain(c) \/ Exit(c)

BSpec == BInit /\ [][BNext]_bvars

=============================================================================
