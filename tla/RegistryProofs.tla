--------------------------- MODULE RegistryProofs ---------------------------
(***************************************************************************)
(* Proofs about Registry for any names, configurations and functions, and  *)
(* any order of registrations, decorations and looks at the health: who    *)
(* shares an executor with whom, how old its configuration may be, and     *)
(* what health_check does not miss.                                        *)
(***************************************************************************)
EXTENDS Registry, TLAPS

-----------------------------------------------------------------------------
(* The inductive invariant. *)

\* While its name is not registered anew, a function keeps the cached executor.
PeersKeepCached ==
  \A n \in Names : \A f \in peers[n] :
    nameOf[f] = n /\ executorOf[f] # None /\ executors[n, KindOf(f)] = executorOf[f]

\* A cached executor was built by a function of its name, which has not been
\* decorated before the name was last unregistered.
Current(e, n) == nameOf[e.by] = n /\ executorOf[e.by] = e /\ e.by \notin former

CachedIsCurrent ==
  \A n \in Names, k \in Kinds : executors[n, k] # None => Current(executors[n, k], n)

\* A decorated function has the executor of its builder, and its name and era; without
\* the registry it is the builder itself.
BuilderSharesIt ==
  \A f \in Decorated :
    LET b == executorOf[f].by
    IN  /\ executorOf[f] # None
        /\ nameOf[b] = nameOf[f] /\ executorOf[b] = executorOf[f]
        /\ b \in former <=> f \in former
        /\ nameOf[f] = Nameless => b = f

FormerAreDecorated == \A f \in former : nameOf[f] \in Names

\* The configuration a name has now is one it has had since.
CurrentIsInForce == \A n \in Names : ConfigFor(n) # None => ConfigFor(n) \in inForce[n]

OpenAreGuarded == \A e \in open : e.config \in Guarded

IInv ==
  /\ TypeOK
  /\ PeersKeepCached
  /\ CachedIsCurrent
  /\ BuilderSharesIt
  /\ FormerAreDecorated
  /\ CurrentIsInForce
  /\ StaleWithinItsEra
  /\ OpenAreGuarded

LEMMA NoneIsNoExecutor == None \notin Executors
BY RegistryAssumption

LEMMA ExecutorFields ==
  ASSUME NEW f \in Funcs, NEW config \in Configs
  PROVE  /\ [by |-> f, config |-> config] \in Executors
         /\ [by |-> f, config |-> config].by = f
         /\ [by |-> f, config |-> config].config = config
BY DEF Executors

LEMMA KindOfType == ASSUME NEW f \in Funcs PROVE KindOf(f) \in Kinds
BY DEF KindOf, Kinds

LEMMA ConfigForType == ASSUME TypeOK, NEW n \in Names PROVE ConfigFor(n) \in Configs \cup {None}
BY DEF TypeOK, ConfigFor

LEMMA InvariantInitially == Init => IInv
<1> SUFFICES ASSUME Init PROVE IInv
  OBVIOUS
<1>1. TypeOK
  BY RegistryAssumption DEF Init, TypeOK, Slots
<1>2. \A n \in Names, k \in Kinds : executors[n, k] = None
  BY DEF Init
<1>3. Decorated = {}
  BY DEF Init, Decorated
<1>4. CurrentIsInForce
  BY DEF Init, CurrentIsInForce, ConfigFor
<1>5. QED
  BY <1>1, <1>2, <1>3, <1>4
  DEF Init, IInv, PeersKeepCached, CachedIsCurrent, BuilderSharesIt, FormerAreDecorated,
      StaleWithinItsEra, OpenAreGuarded

-----------------------------------------------------------------------------
(* The registry. *)

\* What the names have had grows by what they come to have.
LEMMA InForceKeeps ==
  ASSUME TypeOK, NEW past \in [Names -> SUBSET Configs],
         configs' \in [Names -> Configs \cup {None}], default' \in Configs \cup {None},
         InForceFrom(past)
  PROVE  /\ inForce' \in [Names -> SUBSET Configs]
         /\ CurrentIsInForce'
         /\ \A n \in Names : past[n] \subseteq inForce'[n]
<1>1. \A n \in Names : ConfigFor(n)' \in Configs \cup {None}
  BY DEF ConfigFor
<1>2. QED BY <1>1 DEF InForceFrom, CurrentIsInForce

LEMMA SetDefaultKeeps ==
  ASSUME IInv, NEW config \in Configs, SetDefault(config),
         UNCHANGED <<decorated, open, check>>, lasting' \subseteq Slots
  PROVE  IInv'
<1>1. /\ inForce' \in [Names -> SUBSET Configs] /\ CurrentIsInForce'
      /\ \A n \in Names : inForce[n] \subseteq inForce'[n]
  BY InForceKeeps DEF SetDefault, IInv, TypeOK
<1>2. UNCHANGED <<configs, executors, nameOf, executorOf, open, unseen, looking, found, peers, former>>
  BY DEF SetDefault, decorated, check
<1>3. TypeOK'
  BY <1>1, <1>2 DEF SetDefault, IInv, TypeOK
<1>4. StaleWithinItsEra'
  BY <1>1, <1>2 DEF IInv, StaleWithinItsEra
<1>5. PeersKeepCached' /\ CachedIsCurrent'
  BY <1>2 DEF IInv, PeersKeepCached, CachedIsCurrent, Current
<1>6. BuilderSharesIt' /\ FormerAreDecorated' /\ OpenAreGuarded'
  BY <1>2 DEF IInv, BuilderSharesIt, Decorated, FormerAreDecorated, OpenAreGuarded
<1>7. QED BY <1>1, <1>3, <1>4, <1>5, <1>6 DEF IInv

LEMMA RegisterKeeps ==
  ASSUME IInv, NEW n \in Names, NEW config \in Configs, Register(n, config),
         UNCHANGED <<decorated, open, check>>, lasting' \subseteq Slots
  PROVE  IInv'
<1>1. configs' \in [Names -> Configs \cup {None}] /\ default' \in Configs \cup {None}
  BY DEF Register, IInv, TypeOK
<1>2. /\ inForce' \in [Names -> SUBSET Configs] /\ CurrentIsInForce'
      /\ \A m \in Names : inForce[m] \subseteq inForce'[m]
  BY <1>1, InForceKeeps DEF Register, IInv, TypeOK
<1>3. UNCHANGED <<default, executors, nameOf, executorOf, open, unseen, looking, found, former>>
  BY DEF Register, decorated, check
<1>4. peers' \in [Names -> SUBSET Funcs] /\ \A m \in Names : peers'[m] \subseteq peers[m]
  BY DEF Register, NewEra, IInv, TypeOK
<1>5. TypeOK'
  BY <1>1, <1>2, <1>3, <1>4 DEF IInv, TypeOK
<1>6. StaleWithinItsEra'
  BY <1>2, <1>3 DEF IInv, StaleWithinItsEra
<1>7. PeersKeepCached'
  BY <1>3, <1>4 DEF IInv, PeersKeepCached
<1>8. QED
  BY <1>2, <1>3, <1>5, <1>6, <1>7
  DEF IInv, CachedIsCurrent, Current, BuilderSharesIt, Decorated, FormerAreDecorated,
      OpenAreGuarded

\* Names lose their executors, and the functions decorated with them become former
\* ones, all at once: this is what unregister does to one name and clear to all.
LEMMA ForgettingKeeps ==
  ASSUME IInv, NEW gone \in SUBSET Names, UNCHANGED <<decorated, open, check>>, lasting' \subseteq Slots,
         executors' = [s \in Names \X Kinds |-> IF s[1] \in gone THEN None ELSE executors[s]],
         former' = former \cup {f \in Funcs : nameOf[f] \in gone},
         \A n \in Names : peers'[n] = IF n \in gone THEN {} ELSE peers[n]
  PROVE  PeersKeepCached' /\ CachedIsCurrent' /\ BuilderSharesIt' /\ FormerAreDecorated' /\ OpenAreGuarded'
<1>1. UNCHANGED <<nameOf, executorOf, open>>
  BY DEF decorated
<1>2. \A n \in Names, k \in Kinds : executors'[n, k] = IF n \in gone THEN None ELSE executors[n, k]
  OBVIOUS
<1>3. PeersKeepCached'
  <2>1. SUFFICES ASSUME NEW n \in Names, NEW f \in peers'[n]
                 PROVE  /\ nameOf'[f] = n /\ executorOf'[f] # None
                        /\ executors'[n, KindOf(f)] = executorOf'[f]
    BY DEF PeersKeepCached
  <2>2. n \notin gone /\ f \in peers[n]
    OBVIOUS
  <2>3. f \in Funcs /\ KindOf(f) \in Kinds
    BY <2>2, KindOfType DEF IInv, TypeOK
  <2>4. executors'[n, KindOf(f)] = executors[n, KindOf(f)]
    BY <1>2, <2>2, <2>3
  <2>5. QED BY <1>1, <2>2, <2>4 DEF IInv, PeersKeepCached
<1>4. CachedIsCurrent'
  <2>1. SUFFICES ASSUME NEW n \in Names, NEW k \in Kinds, NEW e, e = executors'[n, k], e # None
                 PROVE  nameOf'[e.by] = n /\ executorOf'[e.by] = e /\ e.by \notin former'
    BY DEF CachedIsCurrent, Current
  <2>2. n \notin gone /\ e = executors[n, k]
    BY <1>2, <2>1
  <2>3. Current(e, n)
    BY <2>1, <2>2 DEF IInv, CachedIsCurrent
  <2>4. QED BY <1>1, <2>2, <2>3 DEF Current
<1>5. BuilderSharesIt'
  <2>1. SUFFICES ASSUME NEW f \in Decorated
                 PROVE  executorOf[f].by \in former' <=> f \in former'
    BY <1>1 DEF IInv, BuilderSharesIt, Decorated
  <2>2. executorOf[f] \in Executors /\ executorOf[f].by \in Funcs /\ f \in Funcs
    BY DEF IInv, TypeOK, BuilderSharesIt, Decorated, Executors
  <2>3. nameOf[executorOf[f].by] = nameOf[f] /\ (executorOf[f].by \in former <=> f \in former)
    BY DEF IInv, BuilderSharesIt
  <2>4. QED BY <2>2, <2>3
<1>6. FormerAreDecorated'
  BY <1>1 DEF IInv, FormerAreDecorated
<1>7. QED BY <1>1, <1>3, <1>4, <1>5, <1>6 DEF IInv, OpenAreGuarded

LEMMA UnregisterKeeps ==
  ASSUME IInv, NEW n \in Names, Unregister(n), UNCHANGED <<decorated, open, check>>, lasting' \subseteq Slots
  PROVE  IInv'
<1> DEFINE past == [inForce EXCEPT ![n] = {}]
<1>1. configs' \in [Names -> Configs \cup {None}] /\ default' \in Configs \cup {None}
  BY DEF Unregister, IInv, TypeOK
<1>2. past \in [Names -> SUBSET Configs] /\ \A m \in Names \ {n} : past[m] = inForce[m]
  BY DEF IInv, TypeOK
<1>3. InForceFrom(past)
  BY DEF Unregister
<1> HIDE DEF past
<1>4. /\ inForce' \in [Names -> SUBSET Configs] /\ CurrentIsInForce'
      /\ \A m \in Names : past[m] \subseteq inForce'[m]
  BY <1>1, <1>2, <1>3, InForceKeeps DEF IInv
<1>5. executors' = [s \in Names \X Kinds |-> IF s[1] \in {n} THEN None ELSE executors[s]]
  BY DEF Unregister, ForgetExecutors
<1>6. peers' = [peers EXCEPT ![n] = {}] /\ former' = former \cup {f \in Funcs : nameOf[f] \in {n}}
  BY DEF Unregister, NewEra
<1>7. \A m \in Names : peers'[m] = IF m \in {n} THEN {} ELSE peers[m]
  BY <1>6 DEF IInv, TypeOK
<1>8. PeersKeepCached' /\ CachedIsCurrent' /\ BuilderSharesIt' /\ FormerAreDecorated' /\ OpenAreGuarded'
  BY <1>5, <1>6, <1>7, ForgettingKeeps
<1>9. StaleWithinItsEra'
  <2>1. \A m \in Names, k \in Kinds : executors'[m, k] = IF m = n THEN None ELSE executors[m, k]
    BY <1>5
  <2>2. QED BY <1>2, <1>4, <2>1 DEF IInv, StaleWithinItsEra
<1>10. TypeOK'
  <2>1. executors' \in [Names \X Kinds -> Executors \cup {None}]
    BY <1>5 DEF IInv, TypeOK
  <2>2. peers' \in [Names -> SUBSET Funcs] /\ former' \subseteq Funcs
    BY <1>6 DEF IInv, TypeOK
  <2>3. QED BY <1>1, <1>4, <2>1, <2>2 DEF IInv, TypeOK, decorated, check
<1>11. QED BY <1>4, <1>8, <1>9, <1>10 DEF IInv

LEMMA ClearKeeps ==
  ASSUME IInv, Clear, UNCHANGED <<decorated, open, check>>, lasting' \subseteq Slots
  PROVE  IInv'
<1>1. executors' = [s \in Names \X Kinds |-> IF s[1] \in Names THEN None ELSE executors[s]]
  BY DEF Clear
<1>2. former' = former \cup {f \in Funcs : nameOf[f] \in Names}
  BY DEF Clear, IInv, TypeOK, FormerAreDecorated
<1>3. \A n \in Names : peers'[n] = IF n \in Names THEN {} ELSE peers[n]
  BY DEF Clear
<1>4. PeersKeepCached' /\ CachedIsCurrent' /\ BuilderSharesIt' /\ FormerAreDecorated' /\ OpenAreGuarded'
  BY <1>1, <1>2, <1>3, ForgettingKeeps
<1>5. TypeOK'
  BY DEF Clear, IInv, TypeOK, decorated, check
<1>6. StaleWithinItsEra' /\ CurrentIsInForce'
  BY DEF Clear, StaleWithinItsEra, CurrentIsInForce, ConfigFor
<1>7. QED BY <1>4, <1>5, <1>6 DEF IInv

-----------------------------------------------------------------------------
(* Decorators. *)

\* The builder of a decorated function's executor is itself decorated.
LEMMA BuilderType ==
  ASSUME IInv, NEW f \in Decorated
  PROVE  /\ executorOf[f] \in Executors /\ executorOf[f].by \in Decorated
         /\ nameOf[executorOf[f].by] = nameOf[f]
<1>1. executorOf[f] \in Executors
  BY DEF IInv, TypeOK, BuilderSharesIt, Decorated
<1>2. executorOf[f].by \in Funcs /\ nameOf[executorOf[f].by] = nameOf[f]
  BY <1>1 DEF IInv, BuilderSharesIt, Executors
<1>3. QED BY <1>1, <1>2 DEF Decorated

\* A function that is not decorated is nobody's builder, peer or former function.
LEMMA NewcomerIsUnknown ==
  ASSUME IInv, NEW f \in Funcs, nameOf[f] = None
  PROVE  /\ f \notin former
         /\ \A n \in Names, k \in Kinds : executors[n, k] # None => executors[n, k].by # f
         /\ \A g \in Decorated : g # f /\ executorOf[g].by # f
<1>1. f \notin former
  BY RegistryAssumption DEF IInv, FormerAreDecorated
<1>2. ASSUME NEW n \in Names, NEW k \in Kinds, executors[n, k] # None
      PROVE  executors[n, k].by # f
  <2>1. nameOf[executors[n, k].by] = n
    BY <1>2 DEF IInv, CachedIsCurrent, Current
  <2>2. QED BY <2>1, RegistryAssumption
<1>3. \A g \in Decorated : g # f /\ executorOf[g].by # f
  BY BuilderType DEF Decorated
<1>4. QED BY <1>1, <1>2, <1>3

\* The executor a decoration keeps: its builder is the function itself or an
\* earlier one of the same name and era.
LEMMA ExecutorForFacts ==
  ASSUME IInv, NEW f \in Funcs, NEW n \in Names, Decorate(f, n)
  PROVE  LET e == ExecutorFor(f, n, ConfigFor(n))
             cached == executors[n, KindOf(f)]
         IN  /\ e \in Executors /\ e # None /\ e.config \in inForce[n]
             /\ cached = None => e.by = f
             /\ cached # None => e = cached /\ Current(e, n) /\ e.by \in Decorated \ {f}
<1> DEFINE e == ExecutorFor(f, n, ConfigFor(n))
           cached == executors[n, KindOf(f)]
<1>0. /\ e = IF cached # None THEN cached ELSE [by |-> f, config |-> ConfigFor(n)]
      /\ cached = executors[n, KindOf(f)]
      /\ cached # None \/ ConfigFor(n) # None
  BY DEF ExecutorFor, Decorate
<1> HIDE DEF e, cached
<1> SUFFICES /\ e \in Executors /\ e # None /\ e.config \in inForce[n]
             /\ cached = None => e.by = f
             /\ cached # None => e = cached /\ Current(e, n) /\ e.by \in Decorated \ {f}
  BY DEF e, cached
<1>1. KindOf(f) \in Kinds
  BY KindOfType
<1>2. CASE cached = None
  <2>1. ConfigFor(n) # None
    BY <1>0, <1>2
  <2>2. ConfigFor(n) \in Configs /\ ConfigFor(n) \in inForce[n]
    BY <2>1, ConfigForType DEF IInv, CurrentIsInForce
  <2>3. e = [by |-> f, config |-> ConfigFor(n)]
    BY <1>0, <1>2
  <2>4. QED BY <1>2, <2>2, <2>3, ExecutorFields, NoneIsNoExecutor
<1>3. CASE cached # None
  <2>1. e = cached
    BY <1>0, <1>3
  <2>2. e \in Executors /\ e.by \in Funcs
    <3>1. executors[n, KindOf(f)] \in Executors \cup {None}
      BY <1>1 DEF IInv, TypeOK
    <3>2. QED BY <1>0, <1>3, <2>1, <3>1 DEF Executors
  <2>3. Current(e, n)
    BY <1>0, <1>1, <1>3, <2>1 DEF IInv, CachedIsCurrent
  <2>4. e.config \in inForce[n]
    BY <1>0, <1>1, <1>3, <2>1 DEF IInv, StaleWithinItsEra
  <2>5. nameOf[f] = None /\ n # None
    BY RegistryAssumption DEF Decorate
  <2>6. e.by # f /\ e.by \in Decorated
    BY <2>2, <2>3, <2>5 DEF Decorated, Current
  <2>7. QED BY <1>3, <2>1, <2>2, <2>3, <2>4, <2>6, NoneIsNoExecutor
<1>4. QED BY <1>2, <1>3

LEMMA DecorateKeeps ==
  ASSUME IInv, NEW f \in Funcs, NEW n \in Names, Decorate(f, n),
         UNCHANGED <<open, check>>, lasting' \subseteq Slots
  PROVE  IInv'
<1> DEFINE e == ExecutorFor(f, n, ConfigFor(n))
           k == KindOf(f)
           cached == executors[n, k]
<1>1. /\ e \in Executors /\ e # None /\ e.config \in inForce[n]
      /\ cached = None => e.by = f
      /\ cached # None => e = cached /\ Current(e, n) /\ e.by \in Decorated \ {f}
  BY ExecutorForFacts
<1>2. /\ executors' = [executors EXCEPT ![<<n, k>>] = e]
      /\ executorOf' = [executorOf EXCEPT ![f] = e]
      /\ nameOf' = [nameOf EXCEPT ![f] = n]
      /\ peers' = [peers EXCEPT ![n] = peers[n] \cup {f}]
      /\ UNCHANGED <<configs, default, former, inForce>>
  BY DEF Decorate, IInv, TypeOK
<1>3. k \in Kinds /\ <<n, k>> \in Names \X Kinds
  BY KindOfType
<1>4. nameOf[f] = None
  BY DEF Decorate
<1> HIDE DEF e, k, cached
<1>5. TypeOK'
  BY <1>1, <1>2, <1>3 DEF IInv, TypeOK, check
<1>6. /\ executors'[n, k] = e
      /\ \A m \in Names, j \in Kinds : m # n \/ j # k => executors'[m, j] = executors[m, j]
  BY <1>2, <1>3 DEF IInv, TypeOK
<1>7. /\ executorOf'[f] = e /\ nameOf'[f] = n
      /\ \A g \in Funcs \ {f} : executorOf'[g] = executorOf[g] /\ nameOf'[g] = nameOf[g]
  BY <1>2 DEF IInv, TypeOK
<1>8. /\ f \notin former
      /\ \A m \in Names, j \in Kinds : executors[m, j] # None => executors[m, j].by # f
      /\ \A g \in Decorated : g # f /\ executorOf[g].by # f
  BY <1>4, NewcomerIsUnknown
<1>9. Decorated' = Decorated \cup {f}
  BY <1>7, RegistryAssumption DEF Decorated
<1>10. e.by \in Funcs /\ nameOf'[e.by] = n /\ executorOf'[e.by] = e /\ e.by \notin former
  <2>1. e.by \in Funcs
    BY <1>1 DEF Executors
  <2>2. CASE e.by = f
    BY <1>7, <1>8, <2>2
  <2>3. CASE e.by # f
    BY <1>1, <1>7, <2>1, <2>3 DEF Current
  <2>4. QED BY <2>1, <2>2, <2>3
<1>11. PeersKeepCached'
  <2>1. SUFFICES ASSUME NEW m \in Names, NEW g \in peers'[m]
                 PROVE  /\ nameOf'[g] = m /\ executorOf'[g] # None
                        /\ executors'[m, KindOf(g)] = executorOf'[g]
    BY DEF PeersKeepCached
  <2>2. g \in Funcs /\ KindOf(g) \in Kinds
    BY <1>5, KindOfType DEF TypeOK
  <2>3. CASE m = n /\ g = f
    BY <1>1, <1>6, <1>7, <2>3 DEF k
  <2>4. CASE ~(m = n /\ g = f)
    <3>1. g \in peers[m]
      BY <1>2, <2>4 DEF IInv, TypeOK
    <3>2. /\ nameOf[g] = m /\ executorOf[g] # None
          /\ executors[m, KindOf(g)] = executorOf[g]
      BY <3>1 DEF IInv, PeersKeepCached
    <3>3. g # f
      BY <1>4, <3>2, RegistryAssumption
    <3>4. executors'[m, KindOf(g)] = executors[m, KindOf(g)]
      <4>1. CASE m = n /\ KindOf(g) = k
        <5>1. cached # None
          BY <3>2, <4>1 DEF cached
        <5>2. e = cached
          BY <1>1, <5>1
        <5>3. QED BY <1>6, <4>1, <5>2 DEF cached
      <4>2. CASE ~(m = n /\ KindOf(g) = k)
        BY <1>6, <2>2, <4>2
      <4>3. QED BY <4>1, <4>2
    <3>5. QED BY <1>7, <2>2, <3>2, <3>3, <3>4
  <2>5. QED BY <2>3, <2>4
<1>12. CachedIsCurrent'
  <2>1. SUFFICES ASSUME NEW m \in Names, NEW j \in Kinds, NEW x, x = executors'[m, j], x # None
                 PROVE  nameOf'[x.by] = m /\ executorOf'[x.by] = x /\ x.by \notin former'
    BY DEF CachedIsCurrent, Current
  <2>2. CASE m = n /\ j = k
    <3>1. x = e
      BY <1>6, <2>1, <2>2
    <3>2. QED BY <1>2, <1>10, <2>2, <3>1
  <2>3. CASE ~(m = n /\ j = k)
    <3>1. x = executors[m, j]
      BY <1>6, <2>1, <2>3
    <3>2. x \in Executors
      <4>1. executors[m, j] \in Executors \cup {None}
        BY DEF IInv, TypeOK
      <4>2. QED BY <2>1, <3>1, <4>1
    <3>3. x.by \in Funcs \ {f}
      BY <1>8, <2>1, <3>1, <3>2 DEF Executors
    <3>4. nameOf[x.by] = m /\ executorOf[x.by] = x /\ x.by \notin former
      BY <2>1, <3>1 DEF IInv, CachedIsCurrent, Current
    <3>5. QED BY <1>2, <1>7, <3>3, <3>4
  <2>4. QED BY <2>2, <2>3
<1>13. BuilderSharesIt'
  <2>1. SUFFICES ASSUME NEW g \in Decorated', NEW x, x = executorOf'[g]
                 PROVE  /\ x # None
                        /\ nameOf'[x.by] = nameOf'[g] /\ executorOf'[x.by] = x
                        /\ x.by \in former' <=> g \in former'
                        /\ nameOf'[g] = Nameless => x.by = g
    BY DEF BuilderSharesIt
  <2>2. CASE g = f
    <3>1. x = e /\ nameOf'[g] = n /\ n # Nameless /\ g \notin former
      BY <1>7, <1>8, <2>1, <2>2, RegistryAssumption
    <3>2. QED BY <1>1, <1>2, <1>10, <3>1
  <2>3. CASE g # f
    <3>1. g \in Decorated /\ g \in Funcs
      BY <1>9, <2>3 DEF Decorated
    <3>2. x = executorOf[g] /\ nameOf'[g] = nameOf[g]
      BY <1>7, <2>1, <2>3, <3>1
    <3>3. x.by \in Funcs \ {f}
      BY <1>8, <3>1, <3>2, BuilderType DEF Decorated
    <3>4. /\ x # None
          /\ nameOf[x.by] = nameOf[g] /\ executorOf[x.by] = x
          /\ x.by \in former <=> g \in former
          /\ nameOf[g] = Nameless => x.by = g
      BY <3>1, <3>2 DEF IInv, BuilderSharesIt
    <3>5. nameOf'[x.by] = nameOf[x.by] /\ executorOf'[x.by] = executorOf[x.by] /\ former' = former
      BY <1>2, <1>7, <3>3
    <3>6. QED BY <3>2, <3>4, <3>5
  <2>4. QED BY <2>2, <2>3
<1>14. FormerAreDecorated'
  BY <1>2, <1>7, <1>8 DEF IInv, TypeOK, FormerAreDecorated
<1>15. CurrentIsInForce'
  BY <1>2 DEF IInv, CurrentIsInForce, ConfigFor
<1>16. StaleWithinItsEra'
  <2>1. SUFFICES ASSUME NEW m \in Names, NEW j \in Kinds, executors'[m, j] # None
                 PROVE  executors'[m, j].config \in inForce[m]
    BY <1>2 DEF StaleWithinItsEra
  <2>2. CASE m = n /\ j = k
    BY <1>1, <1>6, <2>2
  <2>3. CASE ~(m = n /\ j = k)
    BY <1>6, <2>1, <2>3 DEF IInv, StaleWithinItsEra
  <2>4. QED BY <2>2, <2>3
<1>17. QED
  BY <1>5, <1>11, <1>12, <1>13, <1>14, <1>15, <1>16 DEF IInv, OpenAreGuarded

\* A function decorated without the registry is its own builder and nobody else's.
LEMMA DecorateAloneKeeps ==
  ASSUME IInv, NEW f \in Funcs, NEW config \in Configs, DecorateAlone(f, config),
         UNCHANGED <<registry, history, open, check>>, lasting' \subseteq Slots
  PROVE  IInv'
<1> DEFINE e == [by |-> f, config |-> config]
<1>1. e \in Executors /\ e.by = f /\ e # None
  BY ExecutorFields, NoneIsNoExecutor
<1>2. /\ executorOf' = [executorOf EXCEPT ![f] = e] /\ nameOf' = [nameOf EXCEPT ![f] = Nameless]
      /\ nameOf[f] = None
  BY DEF DecorateAlone
<1> HIDE DEF e
<1>3. UNCHANGED <<configs, default, executors, peers, former, inForce, open, unseen, looking, found>>
  BY DEF registry, history, check
<1>4. TypeOK'
  BY <1>1, <1>2, <1>3 DEF IInv, TypeOK
<1>5. /\ executorOf'[f] = e /\ nameOf'[f] = Nameless
      /\ \A g \in Funcs \ {f} : executorOf'[g] = executorOf[g] /\ nameOf'[g] = nameOf[g]
  BY <1>2 DEF IInv, TypeOK
<1>6. /\ f \notin former
      /\ \A n \in Names, k \in Kinds : executors[n, k] # None => executors[n, k].by # f
      /\ \A g \in Decorated : g # f /\ executorOf[g].by # f
  BY <1>2, NewcomerIsUnknown
<1>7. Decorated' = Decorated \cup {f}
  BY <1>5, RegistryAssumption DEF Decorated
<1>8. PeersKeepCached'
  <2>1. SUFFICES ASSUME NEW n \in Names, NEW g \in peers[n]
                 PROVE  /\ nameOf'[g] = n /\ executorOf'[g] # None
                        /\ executors[n, KindOf(g)] = executorOf'[g]
    BY <1>3 DEF PeersKeepCached
  <2>2. /\ nameOf[g] = n /\ executorOf[g] # None /\ g \in Funcs
        /\ executors[n, KindOf(g)] = executorOf[g]
    BY DEF IInv, TypeOK, PeersKeepCached
  <2>3. g # f
    BY <1>2, <2>2, RegistryAssumption
  <2>4. QED BY <1>5, <2>2, <2>3
<1>9. CachedIsCurrent'
  <2>1. SUFFICES ASSUME NEW n \in Names, NEW k \in Kinds, NEW x, x = executors'[n, k], x # None
                 PROVE  nameOf'[x.by] = n /\ executorOf'[x.by] = x /\ x.by \notin former'
    BY DEF CachedIsCurrent, Current
  <2>2. executors[n, k] \in Executors \cup {None}
    BY DEF IInv, TypeOK
  <2>3. x.by \in Funcs \ {f}
    BY <1>3, <1>6, <2>1, <2>2 DEF Executors
  <2>4. nameOf[x.by] = n /\ executorOf[x.by] = x /\ x.by \notin former
    BY <1>3, <2>1 DEF IInv, CachedIsCurrent, Current
  <2>5. QED BY <1>3, <1>5, <2>3, <2>4
<1>10. BuilderSharesIt'
  <2>1. SUFFICES ASSUME NEW g \in Decorated', NEW x, x = executorOf'[g]
                 PROVE  /\ x # None
                        /\ nameOf'[x.by] = nameOf'[g] /\ executorOf'[x.by] = x
                        /\ x.by \in former <=> g \in former
                        /\ nameOf'[g] = Nameless => x.by = g
    BY <1>3 DEF BuilderSharesIt
  <2>2. CASE g = f
    BY <1>1, <1>5, <2>1, <2>2
  <2>3. CASE g # f
    <3>1. g \in Decorated /\ g \in Funcs
      BY <1>7, <2>3 DEF Decorated
    <3>2. x = executorOf[g] /\ nameOf'[g] = nameOf[g]
      BY <1>5, <2>1, <2>3, <3>1
    <3>3. x.by \in Funcs \ {f}
      BY <1>6, <3>1, <3>2, BuilderType DEF Decorated
    <3>4. /\ x # None
          /\ nameOf[x.by] = nameOf[g] /\ executorOf[x.by] = x
          /\ x.by \in former <=> g \in former
          /\ nameOf[g] = Nameless => x.by = g
      BY <3>1, <3>2 DEF IInv, BuilderSharesIt
    <3>5. nameOf'[x.by] = nameOf[x.by] /\ executorOf'[x.by] = executorOf[x.by]
      BY <1>5, <3>3
    <3>6. QED BY <3>2, <3>4, <3>5
  <2>4. QED BY <2>2, <2>3
<1>11. FormerAreDecorated'
  BY <1>3, <1>5, <1>6 DEF IInv, TypeOK, FormerAreDecorated
<1>12. CurrentIsInForce' /\ StaleWithinItsEra' /\ OpenAreGuarded'
  BY <1>3 DEF IInv, CurrentIsInForce, ConfigFor, StaleWithinItsEra, OpenAreGuarded
<1>13. QED BY <1>4, <1>8, <1>9, <1>10, <1>11, <1>12 DEF IInv

-----------------------------------------------------------------------------
(* Circuits, the health check, and all steps together. *)

\* A step that touches neither registry nor functions.
LEMMA ElsewhereKeeps ==
  ASSUME IInv, UNCHANGED <<registry, decorated, history>>, lasting' \subseteq Slots,
         open' \subseteq Executors, unseen' \subseteq Names, looking' \in Names \cup {None},
         found' \in Executors \cup {None}, OpenAreGuarded'
  PROVE  IInv'
<1>1. UNCHANGED <<configs, default, executors, nameOf, executorOf, peers, former, inForce>>
  BY DEF registry, decorated, history
<1>2. TypeOK'
  BY <1>1 DEF IInv, TypeOK
<1>3. PeersKeepCached' /\ CachedIsCurrent'
  BY <1>1 DEF IInv, PeersKeepCached, CachedIsCurrent, Current
<1>4. BuilderSharesIt' /\ FormerAreDecorated'
  BY <1>1 DEF IInv, BuilderSharesIt, Decorated, FormerAreDecorated
<1>5. CurrentIsInForce' /\ StaleWithinItsEra'
  BY <1>1 DEF IInv, CurrentIsInForce, ConfigFor, StaleWithinItsEra
<1>6. QED BY <1>2, <1>3, <1>4, <1>5 DEF IInv

LEMMA CircuitStepKeeps == ASSUME IInv, CircuitStep, lasting' \subseteq Slots PROVE IInv'
<1>1. PICK f \in Funcs : CircuitOpens(f) \/ CircuitCloses(f)
  BY DEF CircuitStep
<1>2. open' \subseteq Executors /\ OpenAreGuarded'
  BY <1>1 DEF CircuitOpens, CircuitCloses, Breakers, IInv, TypeOK, OpenAreGuarded
<1>3. /\ UNCHANGED <<registry, decorated, history>> /\ unseen' \subseteq Names
      /\ looking' \in Names \cup {None} /\ found' \in Executors \cup {None}
  BY DEF CircuitStep, check, IInv, TypeOK
<1>4. QED BY <1>2, <1>3, ElsewhereKeeps

\* get_executor answers with one of the two executors of the name, if there is any.
LEMMA CachedExecutorFacts ==
  ASSUME NEW n \in Names
  PROVE  LET cached == {executors[n, k] : k \in Kinds} \ {None}
         IN  /\ CachedExecutor(n) # None => CachedExecutor(n) \in cached
             /\ CachedExecutor(n) = None => cached = {}
BY Zenon DEF CachedExecutor, Kinds

LEMMA HealthStepKeeps ==
  ASSUME IInv, HealthStep \/ HealthStart, lasting' \subseteq Slots
  PROVE  IInv'
<1>1. UNCHANGED <<registry, decorated, history>>
  BY DEF HealthStep, HealthStart
<1>2. /\ open' \subseteq open /\ unseen' \subseteq Names
      /\ looking' \in Names \cup {None} /\ found' \in Executors \cup {None}
  <2>1. CASE HealthBegins
    BY <2>1 DEF HealthBegins, IInv, TypeOK
  <2>2. ASSUME NEW n \in Names, HealthLooksUp(n)
        PROVE  /\ open' \subseteq open /\ unseen' \subseteq Names
               /\ looking' \in Names \cup {None} /\ found' \in Executors \cup {None}
    <3>1. CachedExecutor(n) \in Executors \cup {None}
      BY CachedExecutorFacts DEF IInv, TypeOK
    <3>2. QED BY <2>2, <3>1 DEF HealthLooksUp, IInv, TypeOK
  <2>3. ASSUME NEW n \in Names, NEW report \in Reports, HealthFiles(n, report)
        PROVE  /\ open' \subseteq open /\ unseen' \subseteq Names
               /\ looking' \in Names \cup {None} /\ found' \in Executors \cup {None}
    BY <2>3 DEF HealthFiles, ReadsState, IInv, TypeOK
  <2>4. QED BY <2>1, <2>2, <2>3 DEF HealthStep, HealthStart
<1>3. open' \subseteq Executors /\ OpenAreGuarded'
  BY <1>2 DEF IInv, TypeOK, OpenAreGuarded
<1>4. QED BY <1>1, <1>2, <1>3, ElsewhereKeeps

LEMMA LastingType ==
  ASSUME IInv, [Next]_vars
  PROVE  lasting' \subseteq Slots
<1>1. CASE LastingOf(lasting)
  BY <1>1 DEF LastingOf, IInv, TypeOK
<1>2. CASE LastingOf(Slots)
  BY <1>2 DEF LastingOf
<1>3. CASE UNCHANGED vars
  BY <1>3 DEF vars, IInv, TypeOK
<1>4. QED BY <1>1, <1>2, <1>3 DEF Next

LEMMA InvariantKept == IInv /\ [Next]_vars => IInv'
<1> SUFFICES ASSUME IInv, [Next]_vars PROVE IInv'
  OBVIOUS
<1>0. lasting' \subseteq Slots
  BY LastingType
<1>1. CASE RegistryStep
  BY <1>0, <1>1, SetDefaultKeeps, RegisterKeeps, UnregisterKeeps, ClearKeeps DEF RegistryStep
<1>2. CASE DecoratorStep
  BY <1>0, <1>2, DecorateKeeps, DecorateAloneKeeps DEF DecoratorStep
<1>3. CASE CircuitStep
  BY <1>0, <1>3, CircuitStepKeeps
<1>4. CASE HealthStep \/ HealthStart
  BY <1>0, <1>4, HealthStepKeeps
<1>5. CASE UNCHANGED vars
  <2>1. UNCHANGED <<registry, decorated, history, open, check>>
    BY <1>5 DEF vars
  <2>2. /\ open' \subseteq Executors /\ unseen' \subseteq Names /\ OpenAreGuarded'
        /\ looking' \in Names \cup {None} /\ found' \in Executors \cup {None}
    BY <2>1 DEF check, IInv, TypeOK, OpenAreGuarded
  <2>3. QED BY <1>0, <2>1, <2>2, ElsewhereKeeps
<1>6. QED BY <1>1, <1>2, <1>3, <1>4, <1>5 DEF Next

-----------------------------------------------------------------------------
(* Theorems. *)

LEMMA Invariance == Spec => []IInv
BY InvariantInitially, InvariantKept, PTL DEF Spec

\* Registrations, decorations and executors are always well typed.
THEOREM TypeCorrect == Spec => []TypeOK
BY Invariance, PTL DEF IInv

\* Functions of one kind decorated with one name share their executor as long as
\* the name is not registered anew (decorator, _get_executor).
THEOREM PeersAlwaysShare == Spec => []PeersShare
<1>1. IInv => PeersShare
  <2>1. SUFFICES ASSUME IInv, NEW n \in Names, NEW f \in peers[n], NEW g \in peers[n],
                        KindOf(f) = KindOf(g)
                 PROVE  executorOf[f] = executorOf[g]
    BY DEF PeersShare
  <2>2. ASSUME NEW h \in peers[n] PROVE executors[n, KindOf(h)] = executorOf[h]
    BY <2>1, <2>2 DEF IInv, PeersKeepCached
  <2>3. QED BY <2>1, <2>2
<1>2. QED BY <1>1, Invariance, PTL

\* Nobody else shares: not functions of two names, nor two generations of one name,
\* nor anything decorated without the registry (unregister, clear, resilient).
THEOREM OnlyNamesakesEverShare == Spec => []OnlyNamesakesShare
<1>1. IInv => OnlyNamesakesShare
  BY DEF IInv, BuilderSharesIt, OnlyNamesakesShare
<1>2. QED BY <1>1, Invariance, PTL

\* A cached executor may be older than the configuration of its name, but never
\* older than the name's last unregister or clear (register, get_or_default).
THEOREM NeverStalerThanItsEra == Spec => []StaleWithinItsEra
BY Invariance, PTL DEF IInv

\* Where there are functions of one kind only, the docstring of decorator is right: the
\* functions of a name share their executor, and so their circuit breaker.
THEOREM NamesakesOfOneKindShare ==
  ASSUME SyncFuncs = {} \/ AsyncFuncs = {}
  PROVE  Spec => []NamesakesShare
<1>1. \A f, g \in Funcs : KindOf(f) = KindOf(g)
  BY DEF Funcs, KindOf
<1>2. TypeOK /\ PeersShare => NamesakesShare
  BY <1>1 DEF TypeOK, PeersShare, NamesakesShare
<1>3. QED BY <1>2, TypeCorrect, PeersAlwaysShare, PTL

\* An executor is cached under the kind of the function that built it.
KindsApart ==
  \A n \in Names, k \in Kinds : executors[n, k] # None => KindOf(executors[n, k].by) = k

LEMMA KindsInvariance == Spec => []KindsApart
<1>1. Init => KindsApart
  BY DEF Init, KindsApart
<1>2. TypeOK /\ KindsApart /\ [Next]_vars => KindsApart'
  <2> SUFFICES ASSUME TypeOK, KindsApart, [Next]_vars PROVE KindsApart'
    OBVIOUS
  <2>1. ASSUME NEW f \in Funcs, NEW n \in Names, Decorate(f, n) PROVE KindsApart'
    <3> DEFINE e == ExecutorFor(f, n, ConfigFor(n))
    <3>1. executors' = [executors EXCEPT ![<<n, KindOf(f)>>] = e]
      BY <2>1 DEF Decorate
    <3>2. KindOf(f) \in Kinds
      BY KindOfType
    <3>3. KindOf(e.by) = KindOf(f)
      BY <3>2 DEF ExecutorFor, KindsApart
    <3> HIDE DEF e
    <3>4. QED BY <3>1, <3>3 DEF TypeOK, KindsApart
  <2>2. ASSUME NEW n \in Names, Unregister(n) PROVE KindsApart'
    BY <2>2 DEF Unregister, ForgetExecutors, KindsApart
  <2>3. CASE Clear
    BY <2>3 DEF Clear, KindsApart
  <2>4. CASE UNCHANGED executors
    BY <2>4 DEF KindsApart
  <2>5. QED
    BY <2>1, <2>2, <2>3, <2>4
    DEF Next, RegistryStep, DecoratorStep, CircuitStep, HealthStep, HealthStart, SetDefault,
        Register, registry, vars
<1>3. QED BY <1>1, <1>2, TypeCorrect, PTL DEF Spec

-----------------------------------------------------------------------------
(* The health check. *)

\* An executor that lasts is cached and open.
LastingAreOpen == \A n \in Names, k \in Kinds : <<n, k>> \in lasting => executors[n, k] \in open

\* While a circuit of the name looked up lasts, the executor found is still cached for it.
FoundIsCached ==
  \A n \in Names : looking = n /\ (\E k \in Kinds : <<n, k>> \in lasting) =>
    found # None /\ \E k \in Kinds : executors[n, k] = found

HInv == LastingAreOpen /\ FoundIsCached

\* A step of the registry, a decorator or a circuit keeps a cached executor as long as
\* its name lasts: unregister and clear end that for both kinds at once.
LEMMA CachedIsKept ==
  ASSUME RegistryStep \/ DecoratorStep \/ CircuitStep, LastingOf(lasting),
         NEW n \in Names, NEW k \in Kinds, <<n, k>> \in lasting',
         NEW j \in Kinds, executors[n, j] # None, TypeOK
  PROVE  executors'[n, j] = executors[n, j]
<1>1. configs'[n] # None
  BY DEF LastingOf
<1>2. ~Clear
  BY <1>1 DEF Clear
<1>3. ASSUME NEW m \in Names, Unregister(m) PROVE executors'[n, j] = executors[n, j]
  <2>1. m # n
    BY <1>1, <1>3 DEF Unregister, TypeOK
  <2>2. QED BY <1>3, <2>1 DEF Unregister, ForgetExecutors
<1>4. ASSUME NEW f \in Funcs, NEW m \in Names, Decorate(f, m)
      PROVE  executors'[n, j] = executors[n, j]
  <2>1. executors' = [executors EXCEPT ![<<m, KindOf(f)>>] = ExecutorFor(f, m, ConfigFor(m))]
    BY <1>4 DEF Decorate
  <2>2. CASE m = n /\ KindOf(f) = j
    <3>1. ExecutorFor(f, m, ConfigFor(m)) = executors[n, j]
      BY <2>2 DEF ExecutorFor
    <3>2. QED BY <2>1, <2>2, <3>1 DEF TypeOK
  <2>3. CASE ~(m = n /\ KindOf(f) = j)
    BY <2>1, <2>3 DEF TypeOK
  <2>4. QED BY <2>2, <2>3
<1>5. CASE UNCHANGED executors
  BY <1>5
<1>6. QED
  BY <1>2, <1>3, <1>4, <1>5
  DEF RegistryStep, DecoratorStep, CircuitStep, SetDefault, Register, registry

LEMMA LastingKeeps ==
  ASSUME HInv, Next
  PROVE  LastingAreOpen'
<1>1. ASSUME NEW past, LastingOf(past) PROVE LastingAreOpen'
  BY <1>1 DEF LastingOf, LastingAreOpen
<1>2. QED BY <1>1 DEF Next

LEMMA FoundKeeps ==
  ASSUME IInv, HInv, Next, LastingAreOpen', TypeOK'
  PROVE  FoundIsCached'
<1> SUFFICES ASSUME NEW n \in Names, looking' = n, NEW k \in Kinds, <<n, k>> \in lasting'
             PROVE  found' # None /\ \E j \in Kinds : executors'[n, j] = found'
  BY DEF FoundIsCached
<1>1. n # None
  BY RegistryAssumption
<1>2. CASE (RegistryStep \/ DecoratorStep \/ CircuitStep) /\ LastingOf(lasting)
  <2>1. looking = n /\ found' = found
    BY <1>2 DEF RegistryStep, DecoratorStep, CircuitStep, check
  <2>2. <<n, k>> \in lasting
    BY <1>2 DEF LastingOf
  <2>3. PICK j \in Kinds : found # None /\ executors[n, j] = found
    BY <2>1, <2>2 DEF HInv, FoundIsCached
  <2>4. executors'[n, j] = executors[n, j]
    BY <1>2, <2>3, CachedIsKept DEF IInv
  <2>5. QED BY <2>1, <2>3, <2>4
<1>3. CASE \E m \in Names : HealthLooksUp(m) /\ UNCHANGED registry
  <2>1. found' = CachedExecutor(n) /\ executors' = executors
    BY <1>3 DEF HealthLooksUp, registry
  <2>2. executors[n, k] \in open' /\ None \notin open'
    BY <2>1, RegistryAssumption DEF LastingAreOpen, TypeOK
  <2>3. CachedExecutor(n) # None
    BY <2>2, CachedExecutorFacts DEF IInv
  <2>4. QED BY <2>1, <2>3, CachedExecutorFacts DEF IInv
<1>4. CASE \E m \in Names, report \in Reports : HealthFiles(m, report)
  BY <1>1, <1>4 DEF HealthFiles
<1>5. CASE HealthBegins
  BY <1>1, <1>5 DEF HealthBegins
<1>6. QED BY <1>2, <1>3, <1>4, <1>5 DEF Next, HealthStep, HealthStart

LEMMA HealthInvariance == Spec => []HInv
<1>1. Init => HInv
  BY DEF Init, HInv, LastingAreOpen, FoundIsCached
<1>2. IInv /\ IInv' /\ HInv /\ [Next]_vars => HInv'
  <2> SUFFICES ASSUME IInv, IInv', HInv, [Next]_vars PROVE HInv'
    OBVIOUS
  <2>1. CASE Next
    BY <2>1, LastingKeeps, FoundKeeps DEF IInv, HInv
  <2>2. CASE UNCHANGED vars
    BY <2>2 DEF vars, registry, check, HInv, LastingAreOpen, FoundIsCached
  <2>3. QED BY <2>1, <2>2
<1>3. QED BY <1>1, <1>2, Invariance, PTL DEF Spec

\* Of an open circuit the check reports what it should.
LEMMA OpenIsReported ==
  ASSUME IInv, NEW n \in Names, NEW report \in Reports, HealthFiles(n, report), found \in open
  PROVE  Reported(report)
<1>1. found \in Breakers
  BY DEF IInv, TypeOK, OpenAreGuarded, Breakers
<1>2. QED BY <1>1 DEF HealthFiles, ReadsState, Reported

\* health_check never misses that all circuits of a name are open while it runs,
\* whatever happens between the moments at which it takes the registry's lock and the
\* circuit's (health_check, get_executor, unregister).
THEOREM OutagesAreReported == Spec => OutageIsReported
<1>1. ASSUME IInv, HInv, NEW n \in Names, NEW report \in Reports,
             HealthFiles(n, report), LastingOutage(n)
      PROVE  Reported(report)
  <2>1. PICK k \in Kinds : <<n, k>> \in lasting
    BY <1>1 DEF LastingOutage
  <2>2. PICK j \in Kinds : found # None /\ executors[n, j] = found
    BY <1>1, <2>1 DEF HealthFiles, HInv, FoundIsCached
  <2>3. <<n, j>> \in lasting
    BY <1>1, <2>2 DEF LastingOutage
  <2>4. found \in open
    BY <1>1, <2>2, <2>3 DEF HInv, LastingAreOpen
  <2>5. QED BY <1>1, <2>4, OpenIsReported
<1>2. IInv /\ HInv =>
        [ \A n \in Names, report \in Reports :
            HealthFiles(n, report) /\ LastingOutage(n) => Reported(report) ]_vars
  BY <1>1
<1>3. QED BY <1>2, Invariance, HealthInvariance, PTL DEF OutageIsReported

\* Where there are functions of one kind only, observability.md is right as well:
\* health_check reports every circuit that is open all the time while it runs
\* (health_check, get_executor).
THEOREM HealthSeesEveryBreakerOfOneKind ==
  ASSUME SyncFuncs = {} \/ AsyncFuncs = {}
  PROVE  Spec => HealthSeesEveryBreaker
<1>1. ASSUME IInv, HInv, KindsApart, NEW n \in Names, NEW report \in Reports,
             HealthFiles(n, report), NEW k \in Kinds, <<n, k>> \in lasting
      PROVE  Reported(report)
  <2>1. PICK j \in Kinds : found # None /\ executors[n, j] = found
    BY <1>1 DEF HealthFiles, HInv, FoundIsCached
  <2>2. executors[n, k] \in open /\ executors[n, k] # None
    BY <1>1, RegistryAssumption DEF HInv, LastingAreOpen, IInv, TypeOK
  <2>3. j = k
    <3>1. executors[n, j] \in Executors /\ executors[n, k] \in Executors
      BY <1>1, <2>1, <2>2 DEF IInv, TypeOK
    <3>2. executors[n, j].by \in Funcs /\ executors[n, k].by \in Funcs
      BY <3>1 DEF Executors
    <3>3. KindOf(executors[n, j].by) = KindOf(executors[n, k].by)
      BY <3>2 DEF Funcs, KindOf
    <3>4. QED BY <1>1, <2>1, <2>2, <3>3 DEF KindsApart
  <2>4. QED BY <1>1, <2>1, <2>2, <2>3, OpenIsReported
<1>2. IInv /\ HInv /\ KindsApart =>
        [ \A n \in Names, report \in Reports :
            HealthFiles(n, report) /\ (\E k \in Kinds : <<n, k>> \in lasting)
              => Reported(report) ]_vars
  BY <1>1
<1>3. QED BY <1>2, Invariance, HealthInvariance, KindsInvariance, PTL DEF HealthSeesEveryBreaker

=============================================================================
