-------------------------- MODULE ResultCacheProofs --------------------------
(***************************************************************************)
(* Proofs about ResultCache, for any callers and keys:                     *)
(*   - whatever the store holds, a lock is never left behind, and the      *)
(*     value of one key is computed twice at a time only if a lock was     *)
(*     dropped;                                                            *)
(*   - the store keeps its size, and a lock that nobody uses is that of a  *)
(*     cached key or of one whose last computation failed.                 *)
(***************************************************************************)
EXTENDS ResultCache, FiniteSetTheorems, SequenceTheorems, TLAPS

-----------------------------------------------------------------------------
(* The inductive invariant. *)

HoldsLock == {"locked", "computing", "releasing"}

LockTypes ==
  /\ keyLocks \in [Keys -> Locks \cup {None}]
  /\ pc \in [Callers -> {"idle", "missed", "waiting"} \cup HoldsLock]
  /\ key \in [Callers -> Keys]
  /\ lock \in [Callers -> Locks \cup {None}]
  /\ owner \in [Locks -> Callers \cup {None}]

\* By its place a caller has found a lock or not, and holds the one it found or not.
LockInPlace ==
  \A t \in Callers :
    /\ pc[t] \in {"idle", "missed"} <=> lock[t] = None
    /\ pc[t] \in HoldsLock => owner[lock[t]] = t

\* A lock that has not been dropped since is still the one of its key.
FoundIsCurrent ==
  \A t \in Callers \ orphaned : lock[t] # None => keyLocks[key[t]] = lock[t]

IInv == LockTypes /\ LockInPlace /\ LockHeldOnlyInside /\ FoundIsCurrent

LEMMA LocksAreNumbers ==
  /\ Locks \subseteq Nat /\ None \notin Locks /\ None \notin Callers
  /\ IsFiniteSet(Locks) /\ Cardinality(Locks) = Cardinality(Keys) + Cardinality(Callers)
<1>1. Cardinality(Keys) \in Nat /\ Cardinality(Callers) \in Nat
  BY FS_CardinalityType, ResultCacheAssumption
<1> DEFINE n == Cardinality(Keys) + Cardinality(Callers)
<1>2. n \in Nat /\ Locks = 1..n
  BY <1>1 DEF Locks
<1> HIDE DEF n
<1>3. IsFiniteSet(1..n) /\ Cardinality(1..n) = n
  BY <1>2, FS_Interval
<1>4. Locks \subseteq Nat /\ None \notin Locks /\ None \notin Callers
  BY <1>2, ResultCacheAssumption DEF None
<1>5. QED BY <1>2, <1>3, <1>4 DEF n

LEMMA InvariantInitially == Init => IInv
<1> SUFFICES ASSUME Init PROVE IInv
  OBVIOUS
<1>1. (CHOOSE k \in Keys : TRUE) \in Keys
  BY ResultCacheAssumption
<1>2. LockTypes
  BY <1>1 DEF Init, LockTypes
<1>3. LockInPlace /\ LockHeldOnlyInside /\ FoundIsCurrent
  BY DEF Init, LockInPlace, LockHeldOnlyInside, FoundIsCurrent, HoldsLock
<1>4. QED BY <1>2, <1>3 DEF IInv

-----------------------------------------------------------------------------
(* There is always a lock to find. *)

\* As many locks as keys and callers leave one over for a caller without a lock.
LEMMA UnusedLock ==
  ASSUME LockTypes, NEW k \in Keys, keyLocks[k] = None, NEW t \in Callers, lock[t] = None
  PROVE  \E l \in Locks : l \notin InUse
<1> DEFINE ofKeys == {keyLocks[x] : x \in Keys}
           ofCallers == {lock[u] : u \in Callers}
<1>1. IsFiniteSet(ofKeys) /\ Cardinality(ofKeys) <= Cardinality(Keys)
  <2>1. keyLocks \in Surjection(Keys, ofKeys)
    BY DEF LockTypes, Surjection
  <2>2. QED BY <2>1, FS_Surjection, ResultCacheAssumption
<1>2. IsFiniteSet(ofCallers) /\ Cardinality(ofCallers) <= Cardinality(Callers)
  <2>1. lock \in Surjection(Callers, ofCallers)
    BY DEF LockTypes, Surjection
  <2>2. QED BY <2>1, FS_Surjection, ResultCacheAssumption
<1>3. None \in ofKeys \cap ofCallers
  OBVIOUS
<1>4. InUse = ofKeys \cup ofCallers
  BY DEF InUse
<1> HIDE DEF ofKeys, ofCallers
<1>5. Cardinality(ofKeys \cap ofCallers) >= 1 /\ Cardinality(ofKeys \cap ofCallers) \in Nat
  <2>1. IsFiniteSet(ofKeys \cap ofCallers)
    BY <1>1, FS_Subset
  <2>2. Cardinality(ofKeys \cap ofCallers) # 0
    BY <1>3, <2>1, FS_EmptySet
  <2>3. QED BY <2>1, <2>2, FS_CardinalityType
<1>6. IsFiniteSet(InUse) /\ Cardinality(InUse) < Cardinality(Locks)
  <2>1. /\ Cardinality(Keys) \in Nat /\ Cardinality(Callers) \in Nat
        /\ Cardinality(ofKeys) \in Nat /\ Cardinality(ofCallers) \in Nat
    BY <1>1, <1>2, FS_CardinalityType, ResultCacheAssumption
  <2>2. /\ IsFiniteSet(InUse)
        /\ Cardinality(InUse) = Cardinality(ofKeys) + Cardinality(ofCallers)
                                  - Cardinality(ofKeys \cap ofCallers)
    BY <1>1, <1>2, <1>4, FS_Union
  <2>3. QED BY <1>1, <1>2, <1>5, <2>1, <2>2, LocksAreNumbers
<1>7. CASE Locks \subseteq InUse
  <2>1. Cardinality(Locks) <= Cardinality(InUse)
    BY <1>6, <1>7, FS_Subset
  <2>2. Cardinality(Locks) \in Nat /\ Cardinality(InUse) \in Nat
    BY <1>6, LocksAreNumbers, FS_CardinalityType
  <2>3. QED BY <1>6, <2>1, <2>2
<1>8. QED BY <1>7

LEMMA LockForType ==
  ASSUME LockTypes, NEW t \in Callers, lock[t] = None
  PROVE  LockFor(key[t]) \in Locks
<1>1. CASE keyLocks[key[t]] # None
  BY <1>1 DEF LockFor, LockTypes
<1>2. CASE keyLocks[key[t]] = None
  <2>1. \E l \in Locks : l \notin InUse
    BY <1>2, UnusedLock DEF LockTypes
  <2>2. QED BY <1>2, <2>1 DEF LockFor, NewLock
<1>3. QED BY <1>1, <1>2

-----------------------------------------------------------------------------
(* The steps actions share. *)

\* Locks are dropped, if any: whoever found one of them is orphaned.
Drops == (\E ks : DropLocks(ks)) \/ UNCHANGED <<keyLocks, orphaned>>

LEMMA DropKeeps ==
  ASSUME LockTypes, FoundIsCurrent, Drops
  PROVE  /\ keyLocks' \in [Keys -> Locks \cup {None}]
         /\ \A t \in Callers \ orphaned' :
              t \notin orphaned /\ (lock[t] # None => keyLocks'[key[t]] = lock[t])
BY DEF Drops, DropLocks, LockTypes, FoundIsCurrent

\* A caller without a lock moves, or none does, and locks may be dropped.
LEMMA LooksKeeps ==
  ASSUME IInv, Drops, UNCHANGED <<lock, owner>>,
         \/ UNCHANGED <<pc, key>>
         \/ \E t \in Callers, k \in Keys :
              /\ pc[t] = "idle" /\ key' = [key EXCEPT ![t] = k]
              /\ pc' = pc \/ pc' = [pc EXCEPT ![t] = "missed"]
  PROVE  IInv'
<1>1. LockTypes'
  BY DropKeeps DEF IInv, LockTypes
<1>2. LockInPlace' /\ LockHeldOnlyInside'
  BY DEF IInv, LockTypes, LockInPlace, LockHeldOnlyInside, HoldsLock
<1>3. FoundIsCurrent'
  BY DropKeeps DEF IInv, LockTypes, LockInPlace, FoundIsCurrent
<1>4. QED BY <1>1, <1>2, <1>3 DEF IInv

\* A caller that holds its lock goes on with it, and locks may be dropped.
LEMMA StaysInsideKeeps ==
  ASSUME IInv, Drops, UNCHANGED <<key, lock, owner>>, NEW t \in Callers, pc[t] \in HoldsLock,
         NEW place \in HoldsLock, pc' = [pc EXCEPT ![t] = place]
  PROVE  IInv'
<1>1. LockTypes'
  BY DropKeeps DEF IInv, LockTypes
<1>2. LockInPlace' /\ LockHeldOnlyInside'
  BY DEF IInv, LockTypes, LockInPlace, LockHeldOnlyInside, HoldsLock
<1>3. FoundIsCurrent'
  BY DropKeeps DEF IInv, FoundIsCurrent
<1>4. QED BY <1>1, <1>2, <1>3 DEF IInv

\* The finally block: the lock is given back by the caller that holds it.
LEMMA UnlockKeeps ==
  ASSUME IInv, Drops, UNCHANGED key, NEW t \in Callers, pc[t] \in HoldsLock, Unlock(t)
  PROVE  IInv'
<1>1. /\ pc' = [pc EXCEPT ![t] = "idle"] /\ owner' = [owner EXCEPT ![lock[t]] = None]
      /\ lock' = [lock EXCEPT ![t] = None]
  BY DEF Unlock, Goto
<1>2. lock[t] \in Locks /\ owner[lock[t]] = t
  BY DEF IInv, LockTypes, LockInPlace, HoldsLock
<1>3. LockTypes'
  BY <1>1, <1>2, DropKeeps DEF IInv, LockTypes
<1>4. LockInPlace'
  BY <1>1, <1>2, LocksAreNumbers DEF IInv, LockTypes, LockInPlace, HoldsLock
<1>5. LockHeldOnlyInside'
  BY <1>1, <1>2 DEF IInv, LockTypes, LockHeldOnlyInside
<1>6. FoundIsCurrent'
  BY <1>1, DropKeeps DEF IInv, LockTypes, FoundIsCurrent
<1>7. QED BY <1>3, <1>4, <1>5, <1>6 DEF IInv

-----------------------------------------------------------------------------
(* The actions. *)

LEMMA GetsDrop ==
  ASSUME NEW k \in Keys, GetHit(k) \/ GetMiss(k) PROVE Drops
BY DEF GetHit, GetMiss, ForgetLocks, Drops

LEMMA FindLockKeeps == ASSUME IInv, NEW t \in Callers, FindLock(t) PROVE IInv'
<1> DEFINE k == key[t]
           l == LockFor(k)
<1>1. pc[t] = "missed" /\ lock[t] = None /\ k \in Keys
  BY DEF FindLock, IInv, LockInPlace, LockTypes
<1>2. l \in Locks /\ l # None
  BY <1>1, LockForType, LocksAreNumbers DEF IInv
<1>3. keyLocks[k] # None => l = keyLocks[k]
  BY DEF LockFor
<1>4. /\ keyLocks' = [keyLocks EXCEPT ![k] = l] /\ lock' = [lock EXCEPT ![t] = l]
      /\ orphaned' = orphaned \ {t} /\ pc' = [pc EXCEPT ![t] = "waiting"]
      /\ UNCHANGED <<key, owner>>
  BY DEF FindLock, Goto
<1>5. k = key[t]
  OBVIOUS
<1> HIDE DEF k, l
<1>6. LockTypes'
  BY <1>1, <1>2, <1>4 DEF IInv, LockTypes
<1>7. LockInPlace'
  BY <1>1, <1>2, <1>4 DEF IInv, LockTypes, LockInPlace, HoldsLock
<1>8. LockHeldOnlyInside'
  BY <1>1, <1>4 DEF IInv, LockTypes, LockHeldOnlyInside
<1>9. FoundIsCurrent'
  BY <1>1, <1>2, <1>3, <1>4, <1>5 DEF IInv, LockTypes, FoundIsCurrent
<1>10. QED BY <1>6, <1>7, <1>8, <1>9 DEF IInv

LEMMA AcquireKeeps == ASSUME IInv, NEW t \in Callers, Acquire(t) PROVE IInv'
<1>1. /\ pc[t] = "waiting" /\ owner[lock[t]] = None
      /\ owner' = [owner EXCEPT ![lock[t]] = t] /\ pc' = [pc EXCEPT ![t] = "locked"]
      /\ UNCHANGED <<keyLocks, orphaned, key, lock>>
  BY DEF Acquire, Goto, cacheVars
<1>2. lock[t] \in Locks /\ lock[t] # None
  BY <1>1 DEF IInv, LockTypes, LockInPlace
<1>3. LockTypes'
  BY <1>1, <1>2 DEF IInv, LockTypes, HoldsLock
<1>4. LockInPlace'
  BY <1>1, <1>2, LocksAreNumbers DEF IInv, LockTypes, LockInPlace, HoldsLock
<1>5. LockHeldOnlyInside'
  BY <1>1, <1>2 DEF IInv, LockTypes, LockHeldOnlyInside
<1>6. FoundIsCurrent'
  BY <1>1 DEF IInv, FoundIsCurrent
<1>7. QED BY <1>3, <1>4, <1>5, <1>6 DEF IInv

LEMMA GiveUpKeeps == ASSUME IInv, NEW t \in Callers, GiveUpWaiting(t) PROVE IInv'
<1>1. /\ pc[t] = "waiting" /\ pc' = [pc EXCEPT ![t] = "idle"]
      /\ lock' = [lock EXCEPT ![t] = None]
      /\ UNCHANGED <<keyLocks, orphaned, key, owner>>
  BY DEF GiveUpWaiting, Goto
<1>2. LockTypes'
  BY <1>1 DEF IInv, LockTypes
<1>3. LockInPlace'
  BY <1>1 DEF IInv, LockTypes, LockInPlace, HoldsLock
<1>4. LockHeldOnlyInside'
  BY <1>1 DEF IInv, LockTypes, LockHeldOnlyInside
<1>5. FoundIsCurrent'
  BY <1>1 DEF IInv, LockTypes, FoundIsCurrent
<1>6. QED BY <1>2, <1>3, <1>4, <1>5 DEF IInv

LEMMA AdvanceKeeps == ASSUME IInv, NEW t \in Callers, Advance(t) PROVE IInv'
<1>1. key[t] \in Keys
  BY DEF IInv, LockTypes
<1>2. CASE CheckHit(t)
  BY <1>1, <1>2, GetsDrop, UnlockKeeps DEF CheckHit, HoldsLock
<1>3. CASE CheckMiss(t)
  BY <1>1, <1>3, GetsDrop, StaysInsideKeeps DEF CheckMiss, Goto, HoldsLock
<1>4. CASE Fill(t)
  <2>1. Drops
    <3>1. PICK byFallback \in {FALSE, HasFallback} : Put(key[t], byFallback)
      BY <1>4 DEF Fill
    <3>2. DropLocks((Cached \cup {key[t]}) \ ToSet(Inserted(key[t])))
      BY <3>1 DEF Put
    <3>3. QED BY <3>2 DEF Drops
  <2>2. QED BY <1>4, <2>1, StaysInsideKeeps DEF Fill, Goto, HoldsLock
<1>5. CASE Release(t) \/ Raise(t)
  <2>1. Drops /\ Unlock(t) /\ UNCHANGED key /\ pc[t] \in HoldsLock
    BY <1>5 DEF Release, Raise, Drops, cacheVars, HoldsLock
  <2>2. QED BY <2>1, UnlockKeeps
<1>6. QED
  BY <1>2, <1>3, <1>4, <1>5, FindLockKeeps, AcquireKeeps DEF Advance

LEMMA InvariantKept == IInv /\ [Next]_vars => IInv'
<1> SUFFICES ASSUME IInv, [Next]_vars PROVE IInv'
  OBVIOUS
<1>1. ASSUME NEW t \in Callers, Lookup(t) PROVE IInv'
  <2>1. PICK k \in Keys :
          /\ key' = [key EXCEPT ![t] = k]
          /\ GetHit(k) \/ GetMiss(k)
          /\ pc' = pc \/ pc' = [pc EXCEPT ![t] = "missed"]
    BY <1>1 DEF Lookup, Goto
  <2>2. pc[t] = "idle" /\ UNCHANGED <<lock, owner>>
    BY <1>1 DEF Lookup
  <2>3. QED BY <2>1, <2>2, GetsDrop, LooksKeeps
<1>2. ASSUME NEW k \in Keys, Expire(k) \/ Invalidate(k) PROVE IInv'
  <2>1. Drops /\ UNCHANGED callVars
    BY <1>2 DEF Expire, Invalidate, ForgetLocks, Drops
  <2>2. QED BY <2>1, LooksKeeps DEF callVars
<1>3. CASE ClearStore \/ ClearLocks
  <2>1. Drops /\ UNCHANGED callVars
    BY <1>3 DEF ClearStore, ClearLocks, ForgetLocks, Drops
  <2>2. QED BY <2>1, LooksKeeps DEF callVars
<1>4. CASE UNCHANGED vars
  <2>1. Drops /\ UNCHANGED callVars
    BY <1>4 DEF vars, cacheVars, Drops
  <2>2. QED BY <2>1, LooksKeeps DEF callVars
<1>5. QED BY <1>1, <1>2, <1>3, <1>4, AdvanceKeeps, GiveUpKeeps DEF Next

-----------------------------------------------------------------------------
(* What is stored: the types, and the bound of put. *)

StoreInv ==
  /\ store \in Seq(Keys) /\ IsInjective(store) /\ expired \subseteq Cached
  /\ Len(store) <= MaxSize

\* Deleting an entry takes nothing else from the store.
LEMMA WithoutFacts ==
  ASSUME StoreInv, NEW k \in Keys
  PROVE  /\ Without(k) \in Seq(Keys) /\ IsInjective(Without(k))
         /\ ToSet(Without(k)) = Cached \ {k}
         /\ Len(Without(k)) = IF k \in Cached THEN Len(store) - 1 ELSE Len(store)
<1> DEFINE n == Len(store)
           w == Without(k)
<1>1. store \in Seq(Keys) /\ n \in Nat /\ DOMAIN store = 1..n
  BY LenProperties DEF StoreInv
<1>2. \A i, j \in 1..n : store[i] = store[j] => i = j
  BY <1>1 DEF StoreInv, IsInjective
<1>3. Cached = {store[i] : i \in 1..n}
  BY <1>1 DEF Cached, ToSet
<1>4. CASE k \notin Cached
  BY <1>1, <1>4 DEF Without, StoreInv, Cached
<1>5. CASE k \in Cached
  <2> DEFINE p == CHOOSE i \in DOMAIN store : store[i] = k
             a == SubSeq(store, 1, p - 1)
             b == SubSeq(store, p + 1, n)
  <2>1. p \in 1..n /\ store[p] = k
    BY <1>1, <1>3, <1>5
  <2>2. w = a \o b
    BY <1>5 DEF Without, RemoveAt
  <2> HIDE DEF p, w
  <2>3. \A i \in 1..n : store[i] \in Keys
    BY <1>1, ElementOfSeq
  <2>4. a \in Seq(Keys) /\ Len(a) = p - 1 /\ \A i \in 1..(p - 1) : a[i] = store[i]
    <3>1. p - 1 \in Int /\ \A i \in 1..(p - 1) : store[i] \in Keys
      BY <1>1, <2>1, <2>3
    <3>2. /\ a \in Seq(Keys) /\ Len(a) = IF 1 <= p - 1 THEN p - 1 - 1 + 1 ELSE 0
          /\ \A i \in 1..(p - 1 - 1 + 1) : a[i] = store[1 + i - 1]
      BY <3>1, SubSeqProperties
    <3>3. QED BY <1>1, <2>1, <3>2
  <2>5. b \in Seq(Keys) /\ Len(b) = n - p /\ \A i \in 1..(n - p) : b[i] = store[p + i]
    <3>1. p + 1 \in Int /\ \A i \in (p + 1)..n : store[i] \in Keys
      BY <1>1, <2>1, <2>3
    <3>2. /\ b \in Seq(Keys) /\ Len(b) = IF p + 1 <= n THEN n - (p + 1) + 1 ELSE 0
          /\ \A i \in 1..(n - (p + 1) + 1) : b[i] = store[p + 1 + i - 1]
      BY <1>1, <3>1, SubSeqProperties
    <3>3. /\ n - (p + 1) + 1 = n - p
          /\ (IF p + 1 <= n THEN n - (p + 1) + 1 ELSE 0) = n - p
          /\ \A i \in 1..(n - p) : p + 1 + i - 1 = p + i
      <4>1. n \in Nat /\ p \in Nat /\ p <= n
        BY <1>1, <2>1
      <4> HIDE DEF n
      <4>2. n - (p + 1) + 1 = n - p
        BY <4>1
      <4>3. (IF p + 1 <= n THEN n - (p + 1) + 1 ELSE 0) = n - p
        BY <4>1
      <4>4. \A i \in 1..(n - p) : p + 1 + i - 1 = p + i
        BY <4>1
      <4>5. QED BY <4>2, <4>3, <4>4
    <3>4. \A i \in 1..(n - p) : b[i] = store[p + i]
      BY <3>2, <3>3
    <3>5. QED BY <3>2, <3>3, <3>4
  <2> HIDE DEF a, b
  <2>6. /\ w \in Seq(Keys) /\ Len(w) = n - 1 /\ DOMAIN w = 1..(n - 1)
        /\ \A i \in 1..(n - 1) : w[i] = IF i < p THEN store[i] ELSE store[i + 1]
    <3>1. /\ w \in Seq(Keys) /\ Len(w) = Len(a) + Len(b)
          /\ \A i \in 1..(Len(a) + Len(b)) :
               w[i] = IF i <= Len(a) THEN a[i] ELSE b[i - Len(a)]
      BY <2>2, <2>4, <2>5, ConcatProperties
    <3>2. Len(w) = n - 1 /\ DOMAIN w = 1..(n - 1)
      BY <1>1, <2>1, <2>4, <2>5, <3>1, LenProperties
    <3>3. ASSUME NEW i \in 1..(n - 1)
          PROVE  w[i] = IF i < p THEN store[i] ELSE store[i + 1]
      <4>1. w[i] = IF i <= p - 1 THEN a[i] ELSE b[i - (p - 1)]
        BY <1>1, <2>1, <2>4, <2>5, <3>1
      <4>2. CASE i < p
        BY <1>1, <2>1, <2>4, <4>1, <4>2
      <4>3. CASE ~(i < p)
        <5>1. i - (p - 1) \in 1..(n - p) /\ p + (i - (p - 1)) = i + 1 /\ ~(i <= p - 1)
          BY <1>1, <2>1, <4>3
        <5>2. QED BY <2>5, <4>1, <4>3, <5>1
      <4>4. QED BY <4>2, <4>3
    <3>4. QED BY <3>1, <3>2, <3>3
  <2>7. IsInjective(w)
    <3>1. ASSUME NEW i \in 1..(n - 1), NEW j \in 1..(n - 1), w[i] = w[j] PROVE i = j
      BY <1>1, <1>2, <2>1, <2>6, <3>1
    <3>2. QED BY <2>6, <3>1 DEF IsInjective
  <2>8. ToSet(w) = Cached \ {k}
    <3>1. ASSUME NEW i \in 1..(n - 1) PROVE w[i] \in Cached \ {k}
      BY <1>1, <1>2, <1>3, <2>1, <2>6
    <3>2. ASSUME NEW j \in 1..n, store[j] # k PROVE \E i \in 1..(n - 1) : w[i] = store[j]
      <4>1. CASE j < p
        <5>1. j \in 1..(n - 1)
          BY <1>1, <2>1, <4>1
        <5>2. QED BY <2>6, <4>1, <5>1
      <4>2. CASE j > p
        <5>1. j - 1 \in 1..(n - 1) /\ ~(j - 1 < p) /\ (j - 1) + 1 = j
          BY <1>1, <2>1, <4>2
        <5>2. QED BY <2>6, <5>1
      <4>3. QED BY <1>1, <2>1, <3>2, <4>1, <4>2
    <3>3. ToSet(w) = {w[i] : i \in 1..(n - 1)}
      BY <2>6 DEF ToSet
    <3>4. ToSet(w) \subseteq Cached \ {k}
      BY <3>1, <3>3
    <3>5. Cached \ {k} \subseteq ToSet(w)
      BY <1>3, <3>2, <3>3
    <3>6. QED BY <3>4, <3>5
  <2>9. QED BY <1>5, <2>6, <2>7, <2>8 DEF w
<1>6. QED BY <1>4, <1>5

\* The store with k as its most recently used entry.
LEMMA AppendedFacts ==
  ASSUME StoreInv, NEW k \in Keys
  PROVE  /\ Append(Without(k), k) \in Seq(Keys) /\ IsInjective(Append(Without(k), k))
         /\ ToSet(Append(Without(k), k)) = Cached \cup {k}
         /\ Len(Append(Without(k), k)) = IF k \in Cached THEN Len(store) ELSE Len(store) + 1
<1> DEFINE w == Without(k)
           m == Len(Without(k))
           s == Append(Without(k), k)
<1>1. /\ w \in Seq(Keys) /\ IsInjective(w) /\ ToSet(w) = Cached \ {k}
      /\ m = IF k \in Cached THEN Len(store) - 1 ELSE Len(store)
  BY WithoutFacts
<1>2. Len(store) \in Nat /\ m \in Nat /\ DOMAIN w = 1..m
  BY <1>1, LenProperties DEF StoreInv
<1>3. /\ s \in Seq(Keys) /\ Len(s) = m + 1
      /\ \A i \in 1..m : s[i] = w[i]
      /\ s[m + 1] = k
  BY <1>1, AppendProperties
<1> HIDE DEF s, w, m
<1>4. DOMAIN s = 1..(m + 1)
  BY <1>3, LenProperties
<1>5. \A i \in 1..m : w[i] # k
  BY <1>1, <1>2 DEF ToSet
<1>6. \A i \in 1..(m + 1) : i \in 1..m \/ i = m + 1
  BY <1>2
<1>7. \A i, j \in 1..m : w[i] = w[j] => i = j
  BY <1>1, <1>2 DEF IsInjective
<1>8. IsInjective(s)
  <2>1. ASSUME NEW i \in 1..(m + 1), NEW j \in 1..(m + 1), s[i] = s[j] PROVE i = j
    BY <1>3, <1>5, <1>6, <1>7, <2>1
  <2>2. QED BY <1>4, <2>1 DEF IsInjective
<1>9. ToSet(s) = ToSet(w) \cup {k}
  <2>1. \A i \in 1..m : i \in 1..(m + 1)
    BY <1>2
  <2>2. m + 1 \in 1..(m + 1)
    BY <1>2
  <2>3. QED BY <1>2, <1>3, <1>4, <1>6, <2>1, <2>2 DEF ToSet
<1>10. QED BY <1>1, <1>2, <1>3, <1>8, <1>9 DEF s, w, m

\* put leaves no more entries than max_size, all of them stored before or now.
LEMMA InsertedFacts ==
  ASSUME StoreInv, NEW k \in Keys
  PROVE  /\ Inserted(k) \in Seq(Keys) /\ IsInjective(Inserted(k))
         /\ Len(Inserted(k)) <= MaxSize
<1> DEFINE s == Append(Without(k), k)
           n == Len(s)
<1>1. s \in Seq(Keys) /\ IsInjective(s) /\ n \in Nat /\ DOMAIN s = 1..n
  BY AppendedFacts, LenProperties
<1>2. Inserted(k) = IF n > MaxSize THEN SubSeq(s, n - MaxSize + 1, n) ELSE s
  BY DEF Inserted
<1> HIDE DEF s
<1>3. MaxSize \in Nat /\ MaxSize > 0
  BY ResultCacheAssumption
<1>4. CASE n > MaxSize
  <2> DEFINE c == n - MaxSize
             t == SubSeq(s, c + 1, n)
  <2>1. /\ c \in Nat /\ c + 1 \in Int /\ c + 1 <= n
        /\ n - (c + 1) + 1 = MaxSize
        /\ \A i \in 1..MaxSize : c + 1 + i - 1 = c + i /\ c + i \in 1..n
    BY <1>1, <1>3, <1>4
  <2> HIDE DEF c
  <2>2. \A i \in (c + 1)..n : s[i] \in Keys
    BY <1>1, <2>1, ElementOfSeq
  <2>3. /\ t \in Seq(Keys) /\ Len(t) = n - (c + 1) + 1
        /\ \A i \in 1..(n - (c + 1) + 1) : t[i] = s[c + 1 + i - 1]
    BY <1>1, <2>1, <2>2, SubSeqProperties
  <2>4. Len(t) = MaxSize /\ DOMAIN t = 1..MaxSize
    BY <1>1, <1>3, <2>1, <2>3, LenProperties
  <2>5. \A i \in 1..MaxSize : t[i] = s[c + i] /\ c + i \in 1..n
    BY <2>1, <2>3
  <2> HIDE DEF t
  <2>6. ASSUME NEW i \in 1..MaxSize, NEW j \in 1..MaxSize, t[i] = t[j] PROVE i = j
    <3>1. s[c + i] = s[c + j] /\ c + i \in DOMAIN s /\ c + j \in DOMAIN s
      BY <1>1, <2>5, <2>6
    <3>2. c + i = c + j
      BY <1>1, <3>1 DEF IsInjective
    <3>3. QED BY <1>3, <2>1, <3>2
  <2>7. IsInjective(t)
    BY <2>4, <2>6 DEF IsInjective
  <2>8. QED BY <1>2, <1>3, <1>4, <2>3, <2>4, <2>7 DEF t, c
<1>5. CASE ~(n > MaxSize)
  BY <1>1, <1>2, <1>3, <1>5
<1>6. QED BY <1>4, <1>5

-----------------------------------------------------------------------------
(* Which lock is whose, and which keys account for one. *)

\* A lock in the dictionary is that of one key, and whoever found it asks for that key.
LocksAreDistinct ==
  \A k \in Keys : keyLocks[k] # None =>
    /\ \A j \in Keys : keyLocks[j] = keyLocks[k] => j = k
    /\ \A t \in Callers : lock[t] = keyLocks[k] => key[t] = k

\* A lock that at most callers on their way out use is that of a cached key or of one
\* whose last computation failed.
LeavingLocksAreAccountedFor ==
  \A k \in Keys :
    (/\ keyLocks[k] # None /\ ~clearing
     /\ \A t \in Callers : lock[t] = keyLocks[k] => pc[t] = "releasing")
      => k \in Cached \cup failed

RestTyped ==
  /\ isAsync \in BOOLEAN /\ clearing \in BOOLEAN
  /\ replaced \subseteq Keys /\ orphaned \subseteq Callers /\ failed \subseteq Keys

CacheInv ==
  /\ IInv
  /\ StoreInv
  /\ RestTyped
  /\ LocksAreDistinct
  /\ LeavingLocksAreAccountedFor

-----------------------------------------------------------------------------
(* The methods of the cache keep the account. *)

\* A lock stays that of its key as long as it is in the dictionary, and an entry or
\* a failure is forgotten only together with the lock.
EntriesLeaveWithLocks ==
  \A k \in Keys : keyLocks'[k] # None =>
    keyLocks'[k] = keyLocks[k] /\ (k \in Cached \cup failed => k \in Cached' \cup failed')

LEMMA GetKeeps ==
  ASSUME CacheInv, NEW k \in Keys, GetHit(k) \/ GetMiss(k)
  PROVE  /\ StoreInv' /\ EntriesLeaveWithLocks
         /\ failed' \subseteq Keys /\ orphaned' \subseteq Callers
         /\ GetHit(k) => k \in Cached'
<1> USE DEF CacheInv
<1>1. CASE GetHit(k)
  <2>1. /\ k \in Cached /\ store' = Append(Without(k), k)
        /\ UNCHANGED <<expired, keyLocks, orphaned, failed>>
    BY <1>1 DEF GetHit, Fresh
  <2>2. Cached' = Cached
    BY <2>1, AppendedFacts DEF Cached
  <2>3. StoreInv'
    BY <2>1, <2>2, AppendedFacts DEF StoreInv
  <2>4. QED BY <2>1, <2>2, <2>3 DEF EntriesLeaveWithLocks, RestTyped
<1>2. CASE GetMiss(k)
  <2>1. /\ store' = Without(k) /\ expired' = expired \ {k}
        /\ \/ ForgetLocks({k})
           \/ k \notin Cached /\ UNCHANGED <<keyLocks, orphaned, failed>>
    BY <1>2 DEF GetMiss
  <2>2. Cached' = Cached \ {k}
    BY <2>1, WithoutFacts DEF Cached
  <2>3. Len(store') <= MaxSize
    <3>1. Len(store) \in Nat /\ Len(store) <= MaxSize /\ MaxSize \in Nat
      BY ResultCacheAssumption DEF StoreInv
    <3>2. Len(store') = Len(store) \/ Len(store') = Len(store) - 1
      BY <2>1, WithoutFacts
    <3>3. QED BY <3>1, <3>2
  <2>4. StoreInv'
    BY <2>1, <2>2, <2>3, WithoutFacts DEF StoreInv
  <2>5. CASE ForgetLocks({k})
    BY <2>2, <2>4, <2>5, <1>2 DEF ForgetLocks, DropLocks, EntriesLeaveWithLocks, RestTyped,
                                GetHit, GetMiss
  <2>6. CASE k \notin Cached /\ UNCHANGED <<keyLocks, orphaned, failed>>
    BY <2>2, <2>4, <2>6, <1>2 DEF EntriesLeaveWithLocks, RestTyped, GetHit, GetMiss
  <2>7. QED BY <2>1, <2>5, <2>6
<1>3. QED BY <1>1, <1>2

LEMMA PutKeeps ==
  ASSUME CacheInv, NEW k \in Keys, NEW byFallback \in BOOLEAN, Put(k, byFallback)
  PROVE  /\ StoreInv' /\ EntriesLeaveWithLocks
         /\ failed' \subseteq Keys /\ orphaned' \subseteq Callers /\ replaced' \subseteq Keys
         /\ keyLocks'[k] # None => k \in Cached'
<1> DEFINE evicted == (Cached \cup {k}) \ ToSet(Inserted(k))
<1> USE DEF CacheInv
<1>1. /\ store' = Inserted(k) /\ expired' = expired \ (evicted \cup {k})
      /\ DropLocks(evicted) /\ failed' = failed \ (evicted \cup {k})
      /\ replaced' = IF byFallback THEN replaced \cup {k} ELSE replaced \ {k}
  BY DEF Put
<1>2. Cached' = ToSet(Inserted(k))
  BY <1>1 DEF Cached
<1>3. \A j \in Cached \cup {k} : j \in evicted \/ j \in Cached'
  BY <1>2
<1> HIDE DEF evicted
<1>4. StoreInv'
  BY <1>1, <1>3, InsertedFacts DEF StoreInv
<1>5. /\ keyLocks' = [j \in Keys |-> IF j \in evicted THEN None ELSE keyLocks[j]]
      /\ orphaned' \subseteq Callers
  BY <1>1 DEF DropLocks, RestTyped
<1>6. ASSUME NEW j \in Keys, keyLocks'[j] # None
      PROVE  /\ keyLocks'[j] = keyLocks[j]
             /\ j \in Cached \cup failed \cup {k} => j \in Cached' \cup failed'
             /\ j = k => j \in Cached'
  BY <1>1, <1>3, <1>5, <1>6
<1>7. QED BY <1>1, <1>4, <1>5, <1>6 DEF EntriesLeaveWithLocks, RestTyped

\* What an action must show so that the locks stay accounted for: locks are only
\* given up, and whoever gives up the last use of one has left a value or a failure.
LEMMA AccountIsKept ==
  ASSUME CacheInv, EntriesLeaveWithLocks, UNCHANGED clearing,
         \A t \in Callers : lock'[t] = None \/ (lock'[t] = lock[t] /\ key'[t] = key[t]),
         \A t \in Callers, k \in Keys :
           keyLocks'[k] # None /\ lock[t] = keyLocks[k] /\ pc[t] # "releasing" =>
             \/ lock'[t] = lock[t] /\ pc'[t] # "releasing"
             \/ k \in Cached' \cup failed'
  PROVE  LocksAreDistinct' /\ LeavingLocksAreAccountedFor'
<1>1. LocksAreDistinct'
  BY DEF CacheInv, LocksAreDistinct, EntriesLeaveWithLocks
<1>2. ASSUME NEW k \in Keys, keyLocks'[k] # None, ~clearing',
             \A t \in Callers : lock'[t] = keyLocks'[k] => pc'[t] = "releasing"
      PROVE  k \in Cached' \cup failed'
  <2>1. keyLocks'[k] = keyLocks[k]
    BY <1>2 DEF EntriesLeaveWithLocks
  <2>2. CASE \A t \in Callers : lock[t] = keyLocks[k] => pc[t] = "releasing"
    <3>1. k \in Cached \cup failed
      BY <1>2, <2>1, <2>2 DEF CacheInv, LeavingLocksAreAccountedFor
    <3>2. QED BY <1>2, <3>1 DEF EntriesLeaveWithLocks
  <2>3. CASE \E t \in Callers : lock[t] = keyLocks[k] /\ pc[t] # "releasing"
    BY <1>2, <2>1, <2>3
  <2>4. QED BY <2>2, <2>3
<1>3. QED BY <1>1, <1>2 DEF LeavingLocksAreAccountedFor

-----------------------------------------------------------------------------
(* Every action keeps the account. *)

StoreAndAccount == StoreInv /\ RestTyped /\ LocksAreDistinct /\ LeavingLocksAreAccountedFor

\* Nothing moves in the cache and no lock changes hands.
LEMMA StillKeeps ==
  ASSUME CacheInv, UNCHANGED <<store, keyLocks, lock, key, replaced, orphaned, isAsync, clearing>>,
         expired' \subseteq Cached, failed \subseteq failed', failed' \subseteq Keys,
         \A t \in Callers : pc[t] # "releasing" => pc'[t] # "releasing"
  PROVE  StoreAndAccount'
<1>1. Cached' = Cached
  BY DEF Cached
<1>2. StoreInv' /\ RestTyped'
  BY <1>1 DEF CacheInv, StoreInv, RestTyped
<1>3. EntriesLeaveWithLocks
  BY <1>1 DEF EntriesLeaveWithLocks
<1>4. LocksAreDistinct' /\ LeavingLocksAreAccountedFor'
  BY <1>3, AccountIsKept
<1>5. QED BY <1>2, <1>4 DEF StoreAndAccount

LEMMA LookupAccounts == ASSUME CacheInv, NEW t \in Callers, Lookup(t) PROVE StoreAndAccount'
<1>1. PICK k \in Keys :
        /\ key' = [key EXCEPT ![t] = k]
        /\ GetHit(k) \/ GetMiss(k)
        /\ pc' = pc \/ pc' = [pc EXCEPT ![t] = "missed"]
  BY DEF Lookup, Goto
<1>2. pc[t] = "idle" /\ UNCHANGED <<isAsync, replaced, lock, clearing>>
  BY DEF Lookup
<1>3. /\ StoreInv' /\ EntriesLeaveWithLocks
      /\ failed' \subseteq Keys /\ orphaned' \subseteq Callers
  BY <1>1, GetKeeps
<1>4. \A u \in Callers : lock'[u] = None \/ (lock'[u] = lock[u] /\ key'[u] = key[u])
  BY <1>1, <1>2 DEF CacheInv, IInv, LockInPlace, LockTypes
<1>5. \A u \in Callers : lock'[u] = lock[u] /\ (pc[u] # "releasing" => pc'[u] # "releasing")
  BY <1>1, <1>2 DEF CacheInv, IInv, LockTypes
<1>6. LocksAreDistinct' /\ LeavingLocksAreAccountedFor'
  BY <1>2, <1>3, <1>4, <1>5, AccountIsKept
<1>7. RestTyped'
  BY <1>2, <1>3 DEF CacheInv, RestTyped
<1>8. QED BY <1>3, <1>6, <1>7 DEF StoreAndAccount

\* The lock that a caller finds is its key's already, or nobody's.
LEMMA FindLockAccounts == ASSUME CacheInv, NEW t \in Callers, FindLock(t) PROVE StoreAndAccount'
<1> DEFINE k == key[t]
           l == LockFor(k)
<1> USE DEF CacheInv
<1>1. pc[t] = "missed" /\ lock[t] = None /\ k \in Keys
  BY DEF FindLock, IInv, LockInPlace, LockTypes
<1>2. l \in Locks /\ l # None
  BY <1>1, LockForType, LocksAreNumbers DEF IInv
<1>3. \/ keyLocks[k] # None /\ l = keyLocks[k]
      \/ /\ \A j \in Keys : keyLocks[j] # l
         /\ \A u \in Callers : lock[u] # l
  <2>1. CASE keyLocks[k] # None
    BY <2>1 DEF LockFor
  <2>2. CASE keyLocks[k] = None
    <3>1. \E m \in Locks : m \notin InUse
      BY <1>1, <2>2, UnusedLock DEF IInv
    <3>2. l \notin InUse
      BY <2>2, <3>1 DEF LockFor, NewLock
    <3>3. QED BY <3>2 DEF InUse
  <2>3. QED BY <2>1, <2>2
<1>4. /\ keyLocks' = [keyLocks EXCEPT ![k] = l] /\ lock' = [lock EXCEPT ![t] = l]
      /\ orphaned' = orphaned \ {t} /\ pc' = [pc EXCEPT ![t] = "waiting"]
      /\ UNCHANGED <<isAsync, store, expired, replaced, failed, key, clearing>>
  BY DEF FindLock, Goto
<1>5. key[t] = k
  OBVIOUS
<1> HIDE DEF k, l
<1>6. Cached' = Cached
  BY <1>4 DEF Cached
<1>7. StoreInv' /\ RestTyped'
  BY <1>4, <1>6 DEF StoreInv, RestTyped
<1>8. keyLocks'[k] = l /\ \A j \in Keys \ {k} : keyLocks'[j] = keyLocks[j]
  BY <1>1, <1>4 DEF IInv, LockTypes
<1>9. lock'[t] = l /\ \A u \in Callers \ {t} : lock'[u] = lock[u] /\ pc'[u] = pc[u]
  BY <1>4 DEF IInv, LockTypes
<1>10. LocksAreDistinct'
  <2>1. ASSUME NEW j \in Keys, NEW i \in Keys, keyLocks'[i] = keyLocks'[j], keyLocks'[j] # None
        PROVE  i = j
    BY <1>1, <1>3, <1>8, <2>1 DEF LocksAreDistinct
  <2>2. ASSUME NEW j \in Keys, NEW u \in Callers, lock'[u] = keyLocks'[j], keyLocks'[j] # None
        PROVE  key'[u] = j
    <3>1. CASE u = t
      BY <1>1, <1>3, <1>4, <1>5, <1>8, <1>9, <2>2, <3>1 DEF LocksAreDistinct
    <3>2. CASE u # t
      BY <1>1, <1>3, <1>4, <1>8, <1>9, <2>2, <3>2 DEF LocksAreDistinct
    <3>3. QED BY <3>1, <3>2
  <2>3. QED BY <2>1, <2>2 DEF LocksAreDistinct
<1>11. ASSUME NEW j \in Keys, keyLocks'[j] # None, ~clearing',
              \A u \in Callers : lock'[u] = keyLocks'[j] => pc'[u] = "releasing"
       PROVE  j \in Cached' \cup failed'
  <2>1. pc'[t] # "releasing"
    BY <1>4 DEF IInv, LockTypes
  <2>2. j # k
    BY <1>8, <1>9, <1>11, <2>1
  <2>3. keyLocks[j] # None /\ keyLocks'[j] = keyLocks[j]
    BY <1>8, <1>11, <2>2
  <2>4. \A u \in Callers : lock[u] = keyLocks[j] => pc[u] = "releasing"
    BY <1>1, <1>9, <1>11, <2>3
  <2>5. QED BY <1>4, <1>6, <1>11, <2>3, <2>4 DEF LeavingLocksAreAccountedFor
<1>12. QED BY <1>7, <1>10, <1>11 DEF StoreAndAccount, LeavingLocksAreAccountedFor

\* A hit under the lock leaves it to an entry.
LEMMA CheckHitAccounts == ASSUME CacheInv, NEW t \in Callers, CheckHit(t) PROVE StoreAndAccount'
<1>1. key[t] \in Keys
  BY DEF CacheInv, IInv, LockTypes
<1>2. /\ GetHit(key[t]) /\ UNCHANGED <<isAsync, replaced, key, clearing>>
      /\ pc' = [pc EXCEPT ![t] = "idle"] /\ lock' = [lock EXCEPT ![t] = None]
  BY DEF CheckHit, Unlock, Goto
<1>3. /\ StoreInv' /\ EntriesLeaveWithLocks /\ key[t] \in Cached'
      /\ failed' \subseteq Keys /\ orphaned' \subseteq Callers
  BY <1>1, <1>2, GetKeeps
<1>4. \A u \in Callers : lock'[u] = None \/ (lock'[u] = lock[u] /\ key'[u] = key[u])
  BY <1>2 DEF CacheInv, IInv, LockTypes
<1>5. ASSUME NEW u \in Callers, NEW k \in Keys,
             keyLocks'[k] # None, lock[u] = keyLocks[k], pc[u] # "releasing"
      PROVE  (lock'[u] = lock[u] /\ pc'[u] # "releasing") \/ k \in Cached' \cup failed'
  <2>1. CASE u = t
    BY <1>3, <1>5, <2>1 DEF CacheInv, LocksAreDistinct, EntriesLeaveWithLocks
  <2>2. CASE u # t
    BY <1>2, <1>5, <2>2 DEF CacheInv, IInv, LockTypes
  <2>3. QED BY <2>1, <2>2
<1>6. LocksAreDistinct' /\ LeavingLocksAreAccountedFor'
  BY <1>2, <1>3, <1>4, <1>5, AccountIsKept
<1>7. QED BY <1>2, <1>3, <1>6 DEF StoreAndAccount, CacheInv, RestTyped

LEMMA CheckMissAccounts == ASSUME CacheInv, NEW t \in Callers, CheckMiss(t) PROVE StoreAndAccount'
<1>1. key[t] \in Keys
  BY DEF CacheInv, IInv, LockTypes
<1>2. /\ GetMiss(key[t]) /\ UNCHANGED <<isAsync, replaced, key, lock, clearing>>
      /\ pc' = [pc EXCEPT ![t] = "computing"]
  BY DEF CheckMiss, Goto
<1>3. /\ StoreInv' /\ EntriesLeaveWithLocks
      /\ failed' \subseteq Keys /\ orphaned' \subseteq Callers
  BY <1>1, <1>2, GetKeeps
<1>4. \A u \in Callers : pc[u] # "releasing" => pc'[u] # "releasing"
  BY <1>2 DEF CacheInv, IInv, LockTypes
<1>5. LocksAreDistinct' /\ LeavingLocksAreAccountedFor'
  BY <1>2, <1>3, <1>4, AccountIsKept
<1>6. QED BY <1>2, <1>3, <1>5 DEF StoreAndAccount, CacheInv, RestTyped

\* A value that is stored accounts for the lock, unless it took the lock with it.
LEMMA FillAccounts == ASSUME CacheInv, NEW t \in Callers, Fill(t) PROVE StoreAndAccount'
<1>1. key[t] \in Keys
  BY DEF CacheInv, IInv, LockTypes
<1>2. PICK byFallback \in BOOLEAN : Put(key[t], byFallback)
  BY ResultCacheAssumption DEF Fill
<1>3. UNCHANGED <<isAsync, key, lock, clearing>> /\ pc' = [pc EXCEPT ![t] = "releasing"]
  BY DEF Fill, Goto
<1>4. /\ StoreInv' /\ EntriesLeaveWithLocks
      /\ failed' \subseteq Keys /\ orphaned' \subseteq Callers /\ replaced' \subseteq Keys
      /\ keyLocks'[key[t]] # None => key[t] \in Cached'
  BY <1>1, <1>2, PutKeeps
<1>5. ASSUME NEW u \in Callers, NEW k \in Keys,
             keyLocks'[k] # None, lock[u] = keyLocks[k], pc[u] # "releasing"
      PROVE  (lock'[u] = lock[u] /\ pc'[u] # "releasing") \/ k \in Cached' \cup failed'
  <2>1. CASE u = t
    BY <1>4, <1>5, <2>1 DEF CacheInv, LocksAreDistinct, EntriesLeaveWithLocks
  <2>2. CASE u # t
    BY <1>3, <1>5, <2>2 DEF CacheInv, IInv, LockTypes
  <2>3. QED BY <2>1, <2>2
<1>6. LocksAreDistinct' /\ LeavingLocksAreAccountedFor'
  BY <1>3, <1>4, <1>5, AccountIsKept
<1>7. QED BY <1>3, <1>4, <1>6 DEF StoreAndAccount, CacheInv, RestTyped

\* A caller leaves without a value: the failure accounts for its lock.
LEMMA LeavesAccounts ==
  ASSUME CacheInv, NEW t \in Callers, Release(t) \/ Raise(t) \/ GiveUpWaiting(t)
  PROVE  StoreAndAccount'
<1>1. /\ pc' = [pc EXCEPT ![t] = "idle"] /\ lock' = [lock EXCEPT ![t] = None]
      /\ UNCHANGED <<isAsync, store, expired, keyLocks, orphaned, replaced, key, clearing>>
      /\ failed' = IF pc[t] # "releasing" /\ keyLocks[key[t]] = lock[t]
                   THEN failed \cup {key[t]} ELSE failed
  <2>1. CASE Release(t)
    BY <2>1 DEF Release, Unlock, Goto, cacheVars
  <2>2. CASE Raise(t)
    BY <2>2 DEF Raise, Unlock, Goto, LeaveBehind
  <2>3. CASE GiveUpWaiting(t)
    BY <2>3 DEF GiveUpWaiting, Goto, LeaveBehind
  <2>4. QED BY <2>1, <2>2, <2>3
<1>2. key[t] \in Keys /\ Cached' = Cached
  BY <1>1 DEF CacheInv, IInv, LockTypes, Cached
<1>3. failed \subseteq failed' /\ failed' \subseteq Keys
  BY <1>1, <1>2 DEF CacheInv, RestTyped
<1>4. StoreInv' /\ RestTyped' /\ EntriesLeaveWithLocks
  BY <1>1, <1>2, <1>3 DEF CacheInv, StoreInv, RestTyped, EntriesLeaveWithLocks
<1>5. \A u \in Callers : lock'[u] = None \/ (lock'[u] = lock[u] /\ key'[u] = key[u])
  BY <1>1 DEF CacheInv, IInv, LockTypes
<1>6. ASSUME NEW u \in Callers, NEW k \in Keys,
             keyLocks'[k] # None, lock[u] = keyLocks[k], pc[u] # "releasing"
      PROVE  (lock'[u] = lock[u] /\ pc'[u] # "releasing") \/ k \in Cached' \cup failed'
  <2>1. CASE u = t
    <3>1. k = key[t]
      BY <1>1, <1>6, <2>1 DEF CacheInv, LocksAreDistinct
    <3>2. QED BY <1>1, <1>6, <2>1, <3>1
  <2>2. CASE u # t
    BY <1>1, <1>6, <2>2 DEF CacheInv, IInv, LockTypes
  <2>3. QED BY <2>1, <2>2
<1>7. LocksAreDistinct' /\ LeavingLocksAreAccountedFor'
  BY <1>1, <1>4, <1>5, <1>6, AccountIsKept
<1>8. QED BY <1>4, <1>7 DEF StoreAndAccount

\* Time and the application.
LEMMA OutsideAccounts ==
  ASSUME CacheInv, \/ \E k \in Keys : Expire(k) \/ Invalidate(k)
                   \/ ClearStore \/ ClearLocks
  PROVE  StoreAndAccount'
<1> USE DEF CacheInv
<1>1. ASSUME NEW k \in Keys, Expire(k) PROVE StoreAndAccount'
  <2>1. expired' \subseteq Cached
    BY <1>1 DEF Expire, Fresh, StoreInv
  <2>2. QED BY <1>1, <2>1, StillKeeps DEF Expire, callVars, RestTyped
<1>2. ASSUME NEW k \in Keys, Invalidate(k) PROVE StoreAndAccount'
  <2>1. /\ store' = Without(k) /\ expired' = expired \ {k} /\ ForgetLocks({k}) /\ k \in Cached
        /\ UNCHANGED <<isAsync, replaced, pc, key, lock, clearing>>
    BY <1>2 DEF Invalidate, callVars
  <2>2. Cached' = Cached \ {k}
    BY <2>1, WithoutFacts DEF Cached
  <2>3. Len(store') <= MaxSize
    <3>1. Len(store) \in Nat /\ Len(store) <= MaxSize /\ MaxSize \in Nat
      BY ResultCacheAssumption DEF StoreInv
    <3>2. Len(store') = Len(store) - 1
      BY <2>1, WithoutFacts
    <3>3. QED BY <3>1, <3>2
  <2>4. StoreInv'
    BY <2>1, <2>2, <2>3, WithoutFacts DEF StoreInv
  <2>5. RestTyped' /\ EntriesLeaveWithLocks
    BY <2>1, <2>2 DEF ForgetLocks, DropLocks, RestTyped, EntriesLeaveWithLocks
  <2>6. LocksAreDistinct' /\ LeavingLocksAreAccountedFor'
    BY <2>1, <2>5, AccountIsKept
  <2>7. QED BY <2>4, <2>5, <2>6 DEF StoreAndAccount
<1>3. CASE ClearStore
  <2>1. /\ store' = <<>> /\ expired' = {} /\ clearing' = TRUE
        /\ UNCHANGED <<isAsync, keyLocks, orphaned, failed, replaced, pc, key, lock>>
    BY <1>3 DEF ClearStore, callVars
  <2>2. StoreInv'
    BY <2>1, ResultCacheAssumption DEF StoreInv, IsInjective
  <2>3. RestTyped' /\ LocksAreDistinct' /\ LeavingLocksAreAccountedFor'
    BY <2>1 DEF RestTyped, LocksAreDistinct, LeavingLocksAreAccountedFor
  <2>4. QED BY <2>2, <2>3 DEF StoreAndAccount
<1>4. CASE ClearLocks
  <2>1. /\ \A k \in Keys : keyLocks'[k] = None
        /\ orphaned' \subseteq Callers /\ failed' \subseteq Keys /\ clearing' = FALSE
        /\ UNCHANGED <<isAsync, store, expired, replaced>>
    BY <1>4 DEF ClearLocks, ForgetLocks, DropLocks, RestTyped
  <2>2. Cached' = Cached
    BY <2>1 DEF Cached
  <2>3. QED BY <2>1, <2>2 DEF StoreAndAccount, StoreInv, RestTyped, LocksAreDistinct,
                             LeavingLocksAreAccountedFor
<1>5. QED BY <1>1, <1>2, <1>3, <1>4

LEMMA CacheInitially == Init => CacheInv
<1> SUFFICES ASSUME Init PROVE CacheInv
  OBVIOUS
<1>1. IInv
  BY InvariantInitially
<1>2. StoreInv
  BY ResultCacheAssumption DEF Init, StoreInv, IsInjective
<1>3. RestTyped /\ LocksAreDistinct /\ LeavingLocksAreAccountedFor
  BY DEF Init, RestTyped, LocksAreDistinct, LeavingLocksAreAccountedFor
<1>4. QED BY <1>1, <1>2, <1>3 DEF CacheInv

LEMMA CacheInvKept == CacheInv /\ [Next]_vars => CacheInv'
<1> SUFFICES ASSUME CacheInv, [Next]_vars PROVE CacheInv'
  OBVIOUS
<1>1. IInv'
  BY InvariantKept DEF CacheInv
<1>2. ASSUME NEW t \in Callers, Acquire(t) PROVE StoreAndAccount'
  <2>1. /\ pc' = [pc EXCEPT ![t] = "locked"]
        /\ UNCHANGED <<store, expired, failed, keyLocks, lock, key, replaced, orphaned,
                        isAsync, clearing>>
    BY <1>2 DEF Acquire, Goto, cacheVars
  <2>2. QED BY <2>1, StillKeeps DEF CacheInv, StoreInv, RestTyped, IInv, LockTypes
<1>3. ASSUME NEW t \in Callers, Advance(t) PROVE StoreAndAccount'
  BY <1>2, <1>3, FindLockAccounts, CheckHitAccounts, CheckMissAccounts, FillAccounts,
     LeavesAccounts DEF Advance
<1>4. CASE UNCHANGED vars
  <2>1. UNCHANGED <<store, expired, failed, keyLocks, lock, key, pc, replaced, orphaned,
                    isAsync, clearing>>
    BY <1>4 DEF vars, cacheVars, callVars
  <2>2. QED BY <1>1, <2>1, StillKeeps DEF CacheInv, StoreInv, RestTyped, StoreAndAccount
<1>5. QED
  BY <1>1, <1>3, <1>4, LookupAccounts, LeavesAccounts, OutsideAccounts
     DEF Next, CacheInv, StoreAndAccount

LEMMA CacheInvariance == Spec => []CacheInv
BY CacheInitially, CacheInvKept, PTL DEF Spec

-----------------------------------------------------------------------------
(* Theorems. *)

LEMMA Invariance == Spec => []IInv
BY InvariantInitially, InvariantKept, PTL DEF Spec

\* A key's lock is never left behind, whichever of hit, value, exception and
\* cancellation ends the call (_execute_core and its finally blocks).
THEOREM LocksAreNeverLeftBehind == Spec => []LockHeldOnlyInside
BY Invariance, PTL DEF IInv

\* Single flight, as far as it goes: the value of one key is computed twice at a time
\* only if the cache dropped a lock that a caller had found (get_key_lock, get, put).
THEOREM StampedesNeedADroppedLock == Spec => []StampedeNeedsDroppedLock
<1>1. IInv => StampedeNeedsDroppedLock
  <2>1. SUFFICES ASSUME IInv, NEW k \in Keys, NEW t \in Computing(k), NEW u \in Computing(k),
                        t \notin orphaned, u \notin orphaned
                 PROVE  t = u
    BY DEF StampedeNeedsDroppedLock
  <2>2. /\ t \in Callers /\ key[t] = k /\ pc[t] \in HoldsLock
        /\ u \in Callers /\ key[u] = k /\ pc[u] \in HoldsLock
    BY DEF Computing, HoldsLock
  <2>3. lock[t] # None /\ owner[lock[t]] = t /\ lock[u] # None /\ owner[lock[u]] = u
    BY <2>1, <2>2 DEF IInv, LockInPlace, HoldsLock
  <2>4. keyLocks[k] = lock[t] /\ keyLocks[k] = lock[u]
    BY <2>1, <2>2, <2>3 DEF IInv, FoundIsCurrent
  <2>5. QED BY <2>3, <2>4
<1>2. QED BY <1>1, Invariance, PTL

\* The types, among them that every key is stored once (OrderedDict).
THEOREM CacheIsAlwaysTyped == Spec => []TypeOK
<1>1. CacheInv => TypeOK
  BY DEF CacheInv, IInv, LockTypes, HoldsLock, StoreInv, RestTyped, TypeOK, Cached
<1>2. QED BY <1>1, CacheInvariance, PTL

\* However fills, hits and removals interleave, the cache never holds more than
\* max_size entries (put).
THEOREM StoreIsAlwaysBounded == Spec => [](Len(store) <= MaxSize)
<1>1. CacheInv => Len(store) <= MaxSize
  BY DEF CacheInv, StoreInv
<1>2. QED BY <1>1, CacheInvariance, PTL

\* A lock that nobody uses is that of a cached key or of one whose last computation
\* failed, for any callers, keys and sizes (get, put, invalidate, clear and the ends of
\* _execute_core).
THEOREM IdleLocksAreAlwaysAccountedFor == Spec => []IdleLocksAreAccountedFor
<1>1. CacheInv => IdleLocksAreAccountedFor
  BY DEF CacheInv, LeavingLocksAreAccountedFor, IdleLocksAreAccountedFor
<1>2. QED BY <1>1, CacheInvariance, PTL

IdleKeys == {k \in Keys : keyLocks[k] # None /\ \A t \in Callers : lock[t] # keyLocks[k]}

LEMMA CachedIsSmall ==
  ASSUME CacheInv
  PROVE  IsFiniteSet(Cached) /\ Cardinality(Cached) <= MaxSize
<1>1. store \in Seq(Keys) /\ Len(store) \in Nat /\ Len(store) <= MaxSize
  BY DEF CacheInv, StoreInv
<1>2. store \in Surjection(1..Len(store), Cached)
  BY <1>1 DEF Cached, ToSet, Surjection
<1>3. IsFiniteSet(1..Len(store)) /\ Cardinality(1..Len(store)) = Len(store)
  BY <1>1, FS_Interval
<1>4. IsFiniteSet(Cached) /\ Cardinality(Cached) <= Len(store)
  BY <1>2, <1>3, FS_Surjection
<1>5. Cardinality(Cached) \in Nat
  BY <1>4, FS_CardinalityType
<1>6. QED BY <1>1, <1>4, <1>5, ResultCacheAssumption

\* The locks that nobody uses are no more than max_size and one for each key whose last
\* computation failed (get, put, invalidate; between the two halves of clear they may be).
THEOREM FailuresBoundIdleLocks ==
  Spec => [](~clearing => Cardinality(IdleKeys) <= MaxSize + Cardinality(failed))
<1>1. CacheInv /\ IdleLocksAreAccountedFor /\ ~clearing =>
        Cardinality(IdleKeys) <= MaxSize + Cardinality(failed)
  <2> SUFFICES ASSUME CacheInv, IdleLocksAreAccountedFor, ~clearing
               PROVE  Cardinality(IdleKeys) <= MaxSize + Cardinality(failed)
    OBVIOUS
  <2>1. IsFiniteSet(failed) /\ Cardinality(failed) \in Nat
    <3>1. failed \in SUBSET Keys
      BY DEF CacheInv, RestTyped
    <3>2. QED BY <3>1, FS_Subset, FS_CardinalityType, ResultCacheAssumption
  <2>2. IsFiniteSet(Cached) /\ Cardinality(Cached) \in Nat /\ Cardinality(Cached) <= MaxSize
    BY CachedIsSmall, FS_CardinalityType
  <2>3. /\ IsFiniteSet(Cached \cup failed)
        /\ Cardinality(Cached \cup failed) <= Cardinality(Cached) + Cardinality(failed)
    <3>1. /\ IsFiniteSet(Cached \cup failed) /\ IsFiniteSet(Cached \cap failed)
          /\ Cardinality(Cached \cup failed) =
               Cardinality(Cached) + Cardinality(failed) - Cardinality(Cached \cap failed)
      BY <2>1, <2>2, FS_Union, FS_Intersection
    <3>2. Cardinality(Cached \cap failed) \in Nat
      BY <3>1, FS_CardinalityType
    <3>3. QED BY <2>1, <2>2, <3>1, <3>2
  <2>4. IdleKeys \subseteq Cached \cup failed
    BY DEF IdleKeys, IdleLocksAreAccountedFor
  <2>5. /\ Cardinality(IdleKeys) <= Cardinality(Cached \cup failed)
        /\ Cardinality(IdleKeys) \in Nat /\ Cardinality(Cached \cup failed) \in Nat
    BY <2>3, <2>4, FS_Subset, FS_CardinalityType
  <2>6. QED BY <2>1, <2>2, <2>3, <2>5, ResultCacheAssumption
<1>2. QED BY <1>1, CacheInvariance, IdleLocksAreAlwaysAccountedFor, PTL

\* changelog.md is right as long as no computation has failed: the locks that nobody uses
\* are then no more than the cache has entries.
THEOREM IdleLocksAreBoundedWithoutFailures ==
  Spec => [](~clearing /\ failed = {} => IdleLocksBounded)
<1>1. (~clearing => Cardinality(IdleKeys) <= MaxSize + Cardinality(failed))
        => (~clearing /\ failed = {} => IdleLocksBounded)
  BY FS_EmptySet, ResultCacheAssumption DEF IdleKeys, IdleLocksBounded
<1>2. QED BY <1>1, FailuresBoundIdleLocks, PTL

=============================================================================
