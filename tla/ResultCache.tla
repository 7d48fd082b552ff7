----------------------------- MODULE ResultCache -----------------------------
(***************************************************************************)
(* ResultCache and AsyncResultCache of _cache.py with the protocol of      *)
(* _execute_core around them: look up, take the key's lock, look up again, *)
(* compute, store, release.  Locks live in a dictionary from which other   *)
(* operations remove them, so a lock has an identity of its own: two       *)
(* callers of one key exclude each other only if they found the same lock. *)
(*                                                                         *)
(* Every method of the cache is atomic (it runs under _lock, or without an *)
(* await); the calls interleave between methods.  Values are abstracted to *)
(* whether the function produced them or a fallback did, ages to expired   *)
(* or not: an entry may expire at any moment if there is a ttl.            *)
(***************************************************************************)
EXTENDS Integers, Sequences, FiniteSets, SequencesExt

CONSTANTS
  Callers,     \* the threads or coroutines
  Keys,        \* cache keys
  MaxSize,     \* max_size
  HasTtl,      \* ttl > 0
  HasFallback, \* a fallback may produce the value
  MayRemove    \* the application calls invalidate and clear

ASSUME ResultCacheAssumption ==
  /\ IsFiniteSet(Callers) /\ IsFiniteSet(Keys) /\ Keys # {}
  /\ 0 \notin Callers  \* 0 stands for None
  /\ MaxSize \in Nat \ {0}
  /\ {HasTtl, HasFallback, MayRemove} \subseteq BOOLEAN

\* Lock objects.  A lock nobody can reach any more is as good as a new one, so
\* one per key and one per caller are enough.
Locks == 1..(Cardinality(Keys) + Cardinality(Callers))

None == 0

VARIABLES
  isAsync,     \* AsyncResultCache rather than ResultCache: chosen once and for all
  store,       \* _store: the cached keys, least recently used first
  expired,     \* the cached keys whose age exceeds ttl
  replaced,    \* the keys whose value, the last one stored, a fallback produced
  keyLocks,    \* _key_locks or _async_key_locks: a lock or None for each key
  pc,          \* where each caller stands
  key,         \* the key each caller asks for
  lock,        \* the lock each caller found
  owner,       \* the caller that holds each lock
  clearing,    \* clear has emptied the store and not yet the locks
  orphaned,    \* history: the callers whose lock was dropped since they found it
  failed       \* history: the keys whose lock a call that stored nothing has left, and
               \* that has been neither dropped nor followed by a value since

cacheVars == <<store, expired, keyLocks, orphaned, failed>>
callVars == <<pc, key, lock, owner>>
vars == <<isAsync, cacheVars, replaced, callVars, clearing>>

TypeOK ==
  /\ isAsync \in BOOLEAN
  /\ store \in Seq(Keys) /\ IsInjective(store)
  /\ expired \subseteq ToSet(store)
  /\ replaced \subseteq Keys
  /\ keyLocks \in [Keys -> Locks \cup {None}]
  /\ pc \in [Callers -> {"idle", "missed", "waiting", "locked", "computing", "releasing"}]
  /\ key \in [Callers -> Keys]
  /\ lock \in [Callers -> Locks \cup {None}]
  /\ owner \in [Locks -> Callers \cup {None}]
  /\ clearing \in BOOLEAN
  /\ orphaned \subseteq Callers
  /\ failed \subseteq Keys

Init ==
  /\ isAsync \in BOOLEAN
  /\ store = <<>>
  /\ expired = {}
  /\ replaced = {}
  /\ keyLocks = [k \in Keys |-> None]
  /\ pc = [t \in Callers |-> "idle"]
  /\ key = [t \in Callers |-> CHOOSE k \in Keys : TRUE]
  /\ lock = [t \in Callers |-> None]
  /\ owner = [l \in Locks |-> None]
  /\ clearing = FALSE
  /\ orphaned = {}
  /\ failed = {}

-----------------------------------------------------------------------------
Cached == ToSet(store)

Fresh(k) == k \in Cached \ expired

\* The store after its entry for k, if it has one, has been deleted.
Without(k) ==
  IF k \in Cached THEN RemoveAt(store, CHOOSE i \in DOMAIN store : store[i] = k) ELSE store

InUse == {keyLocks[k] : k \in Keys} \cup {lock[t] : t \in Callers}

NewLock == CHOOSE l \in Locks : l \notin InUse

Goto(t, stage) == pc' = [pc EXCEPT ![t] = stage]

-----------------------------------------------------------------------------
(* Faulty variants, used only by mutation runs. *)

AlwaysNewLock(k) == NewLock

HitKeepsLock(t) == Goto(t, "idle") /\ UNCHANGED <<lock, owner>>

KeepLocks(ks) == UNCHANGED <<keyLocks, orphaned>>

-----------------------------------------------------------------------------
(* Methods of the cache. *)

\* Drop the locks of some keys from the dictionary, whoever uses them.
DropLocks(ks) ==
  /\ keyLocks' = [k \in Keys |-> IF k \in ks THEN None ELSE keyLocks[k]]
  /\ orphaned' = orphaned \cup {t \in Callers : lock[t] # None /\ key[t] \in ks}

ForgetLocks(ks) == DropLocks(ks) /\ failed' = failed \ ks

\* t leaves its lock, without a value.
LeaveBehind(t) ==
  failed' = IF keyLocks[key[t]] = lock[t] THEN failed \cup {key[t]} ELSE failed

\* get: a hit makes the entry the most recently used, a miss drops an expired
\* entry together with its lock.  The async get drops the lock on every miss.
GetHit(k) ==
  /\ Fresh(k)
  /\ store' = Append(Without(k), k)
  /\ UNCHANGED <<expired, keyLocks, orphaned, failed>>

GetMiss(k) ==
  /\ ~Fresh(k)
  /\ store' = Without(k)
  /\ expired' = expired \ {k}
  /\ IF isAsync \/ k \in Cached THEN ForgetLocks({k}) ELSE UNCHANGED <<keyLocks, orphaned, failed>>

\* get_key_lock, get_async_key_lock
LockFor(k) == IF keyLocks[k] # None THEN keyLocks[k] ELSE NewLock

\* put evicts from the front while the store is too large.
Inserted(k) ==
  LET all == Append(Without(k), k)
  IN  IF Len(all) > MaxSize THEN SubSeq(all, Len(all) - MaxSize + 1, Len(all)) ELSE all

Put(k, byFallback) ==
  LET evicted == (Cached \cup {k}) \ ToSet(Inserted(k))
  IN  /\ store' = Inserted(k)
      /\ expired' = expired \ (evicted \cup {k})
      /\ replaced' = IF byFallback THEN replaced \cup {k} ELSE replaced \ {k}
      /\ DropLocks(evicted)
      /\ failed' = failed \ (evicted \cup {k})

\* Leave the critical section of the key.
Unlock(t) ==
  /\ Goto(t, "idle")
  /\ owner' = [owner EXCEPT ![lock[t]] = None]
  /\ lock' = [lock EXCEPT ![t] = None]

-----------------------------------------------------------------------------
(* _execute_core. *)

\* A call begins; on a hit it is over at once.
Lookup(t) ==
  /\ pc[t] = "idle"
  /\ \E k \in Keys :
       /\ key' = [key EXCEPT ![t] = k]
       /\ \/ GetHit(k) /\ UNCHANGED pc
          \/ GetMiss(k) /\ Goto(t, "missed")
  /\ UNCHANGED <<isAsync, replaced, lock, owner, clearing>>

FindLock(t) ==
  LET l == LockFor(key[t])
  IN  /\ pc[t] = "missed"
      /\ keyLocks' = [keyLocks EXCEPT ![key[t]] = l]
      /\ lock' = [lock EXCEPT ![t] = l]
      /\ orphaned' = orphaned \ {t}
      /\ Goto(t, "waiting")
      /\ UNCHANGED <<isAsync, store, expired, replaced, failed, key, owner, clearing>>

Acquire(t) ==
  /\ pc[t] = "waiting"
  /\ owner[lock[t]] = None
  /\ owner' = [owner EXCEPT ![lock[t]] = t]
  /\ Goto(t, "locked")
  /\ UNCHANGED <<isAsync, cacheVars, replaced, key, lock, clearing>>

\* The second look, with the lock held.
CheckHit(t) ==
  /\ pc[t] = "locked"
  /\ GetHit(key[t])
  /\ Unlock(t)
  /\ UNCHANGED <<isAsync, replaced, key, clearing>>

CheckMiss(t) ==
  /\ pc[t] = "locked"
  /\ GetMiss(key[t])
  /\ Goto(t, "computing")
  /\ UNCHANGED <<isAsync, replaced, key, lock, owner, clearing>>

\* The rest of the pipeline returned a value: store it, whoever produced it.
Fill(t) ==
  /\ pc[t] = "computing"
  /\ \E byFallback \in {FALSE, HasFallback} : Put(key[t], byFallback)
  /\ Goto(t, "releasing")
  /\ UNCHANGED <<isAsync, key, lock, owner, clearing>>

\* The finally block, after a value was stored.
Release(t) ==
  /\ pc[t] = "releasing"
  /\ Unlock(t)
  /\ UNCHANGED <<isAsync, cacheVars, replaced, key, clearing>>

\* The call raises, or its task is cancelled: nothing is stored.
Raise(t) ==
  /\ pc[t] = "computing"
  /\ Unlock(t)
  /\ LeaveBehind(t)
  /\ UNCHANGED <<isAsync, store, expired, keyLocks, orphaned, replaced, key, clearing>>

\* A task cancelled while it waits for the lock never held it.
GiveUpWaiting(t) ==
  /\ isAsync /\ pc[t] = "waiting"
  /\ Goto(t, "idle")
  /\ lock' = [lock EXCEPT ![t] = None]
  /\ LeaveBehind(t)
  /\ UNCHANGED <<isAsync, store, expired, keyLocks, orphaned, replaced, key, owner, clearing>>

-----------------------------------------------------------------------------
(* Time and the application. *)

Expire(k) ==
  /\ HasTtl /\ Fresh(k)
  /\ expired' = expired \cup {k}
  /\ UNCHANGED <<isAsync, store, keyLocks, orphaned, failed, replaced, callVars, clearing>>

Invalidate(k) ==
  /\ MayRemove /\ k \in Cached
  /\ store' = Without(k)
  /\ expired' = expired \ {k}
  /\ ForgetLocks({k})
  /\ UNCHANGED <<isAsync, replaced, callVars, clearing>>

\* clear empties the store and the locks under two different locks.
ClearStore ==
  /\ MayRemove /\ ~clearing
  /\ store' = <<>> /\ expired' = {}
  /\ clearing' = TRUE
  /\ UNCHANGED <<isAsync, keyLocks, orphaned, failed, replaced, callVars>>

ClearLocks ==
  /\ clearing
  /\ ForgetLocks(Keys)
  /\ clearing' = FALSE
  /\ UNCHANGED <<isAsync, store, expired, replaced, callVars>>

Advance(t) ==
  FindLock(t) \/ Acquire(t) \/ CheckHit(t) \/ CheckMiss(t) \/ Fill(t) \/ Release(t) \/ Raise(t)

Next ==
  \/ \E t \in Callers : Lookup(t) \/ Advance(t) \/ GiveUpWaiting(t)
  \/ \E k \in Keys : Expire(k) \/ Invalidate(k)
  \/ ClearStore \/ ClearLocks

Spec == Init /\ [][Next]_vars

\* Callers keep running, computations end, and a lock that is released again and
\* again reaches each of those that wait for it.
FairSpec ==
  /\ Spec
  /\ \A t \in Callers :
       /\ WF_vars(FindLock(t) \/ CheckHit(t) \/ CheckMiss(t) \/ Fill(t) \/ Release(t) \/ Raise(t))
       /\ SF_vars(Acquire(t))

-----------------------------------------------------------------------------
(* Properties. *)

Computing(k) == {t \in Callers : pc[t] = "computing" /\ key[t] = k}

\* Single flight, as far as it goes: two callers compute the value of one key at
\* the same time only if the cache dropped the lock that one of them found, by an
\* eviction, an expiry, a miss of the async cache, invalidate or clear
\* (get_key_lock, and the second look under the lock in _execute_core).
StampedeNeedsDroppedLock ==
  \A k \in Keys : \A t, u \in Computing(k) : t # u => {t, u} \cap orphaned # {}

\* A lock is never left behind: whoever holds one is still between the second
\* look and the release, whichever of hit, value and exception ends the call.
LockHeldOnlyInside ==
  \A l \in Locks : owner[l] # None =>
    lock[owner[l]] = l /\ pc[owner[l]] \in {"locked", "computing", "releasing"}

\* Locks go with their entries: a lock that nobody uses belongs to a cached key, or to
\* one whose last computation raised or was cancelled, and nothing but a value or the
\* cache dropping it puts an end to that.  No order of evictions, expiries, removals
\* and late fills leaves any other lock behind.
IdleLocksAreAccountedFor ==
  \A k \in Keys :
    (/\ keyLocks[k] # None /\ ~clearing
     /\ \A t \in Callers : lock[t] # keyLocks[k]) => k \in Cached \cup failed

\* Every caller of the cache gets an answer, although locks are dropped from the
\* dictionary while others wait for them.
EveryCallerReturns == \A t \in Callers : pc[t] # "idle" ~> pc[t] = "idle"

-----------------------------------------------------------------------------
(* What the documentation says and the code does not do. *)

\* cache.md: the async cache, too, lets one caller compute a key while the others
\* wait.  Its get drops the key's lock on every miss.
OneComputesPerKey == \A k \in Keys : Cardinality(Computing(k)) <= 1

\* changelog.md: locks are evicted alongside their entries, preventing unbounded
\* lock accumulation.  A key whose computation failed has a lock and no entry.
IdleLocksBounded ==
  Cardinality({k \in Keys : keyLocks[k] # None /\ \A t \in Callers : lock[t] # keyLocks[k]})
    <= MaxSize

\* cache.md: the cache stores successful function results.  A fallback's value is
\* stored like any other.
StoresOnlyFunctionResults == Cached \cap replaced = {}

=============================================================================
