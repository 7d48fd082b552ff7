------------------------------- MODULE Registry -------------------------------
(***************************************************************************)
(* ResilienceRegistry of _registry.py: named configurations, and one       *)
(* cached executor for each name and kind of function (sync or async),     *)
(* built when the first such function is decorated and kept by every       *)
(* function it decorates.  The executor carries the circuit breaker, the   *)
(* rate limiter and the other components that functions share.             *)
(*                                                                         *)
(* Every method runs under one lock.  An executor is named by the function *)
(* whose decoration built it, and remembers its configuration.             *)
(*                                                                         *)
(* Beside the registry: the decorator resilient (_decorator.py), which     *)
(* gives every function an executor of its own, and health_check           *)
(* (_health.py), which takes the lock anew for the names and for the       *)
(* executor of each of them, and reads the state of its circuit under the  *)
(* circuit's own lock, while everything else goes on between.              *)
(***************************************************************************)
EXTENDS FiniteSets

CONSTANTS
  Names,        \* registered names; none is another one followed by ":sync" or ":async"
  Configs,      \* resilience configurations
  Guarded,      \* those that have a circuit breaker
  SyncFuncs,    \* functions to decorate
  AsyncFuncs,   \* coroutine functions to decorate
  Nameless,     \* stands for the name of functions decorated without the registry
  None

Funcs == SyncFuncs \cup AsyncFuncs

Kinds == {"sync", "async"}

Executors == [by : Funcs, config : Configs]

Breakers == {e \in Executors : e.config \in Guarded}

Slots == Names \X Kinds

ASSUME RegistryAssumption ==
  /\ None \notin Names \cup Configs \cup Executors
  /\ Guarded \subseteq Configs
  /\ Nameless \notin Names \cup {None}
  /\ SyncFuncs \cap AsyncFuncs = {}

VARIABLES
  configs,      \* _configs: a configuration or None for each name
  default,      \* _default_config
  executors,    \* _executors: an executor or None for each name and kind
  nameOf,       \* the name each function was decorated with
  executorOf,   \* the executor each decorated function keeps
  open,         \* the executors whose circuit is open
  unseen,       \* the names health_check has still to look up, in any order
  looking,      \* the name health_check has looked up and not yet filed, or None
  found,        \* the executor it found for it, or None
  peers,        \* history: for each name, the functions decorated with it since it
                \* was last registered, unregistered or cleared
  former,       \* history: the functions decorated before their name was last
                \* unregistered or cleared
  inForce,      \* history: for each name, the configurations it has had since then
  lasting       \* history: names and kinds health_check has still to file whose executor
                \* has been cached, its circuit open, ever since the names were listed

registry == <<configs, default, executors>>

decorated == <<nameOf, executorOf>>

history == <<peers, former, inForce>>

check == <<unseen, looking, found>>

vars == <<registry, decorated, open, check, history, lasting>>

TypeOK ==
  /\ configs \in [Names -> Configs \cup {None}]
  /\ default \in Configs \cup {None}
  /\ executors \in [Names \X Kinds -> Executors \cup {None}]
  /\ nameOf \in [Funcs -> Names \cup {Nameless, None}]
  /\ executorOf \in [Funcs -> Executors \cup {None}]
  /\ open \subseteq Executors
  /\ unseen \subseteq Names
  /\ looking \in Names \cup {None}
  /\ found \in Executors \cup {None}
  /\ peers \in [Names -> SUBSET Funcs]
  /\ former \subseteq Funcs
  /\ inForce \in [Names -> SUBSET Configs]
  /\ lasting \subseteq Slots

Init ==
  /\ configs = [n \in Names |-> None]
  /\ default = None
  /\ executors = [s \in Names \X Kinds |-> None]
  /\ nameOf = [f \in Funcs |-> None]
  /\ executorOf = [f \in Funcs |-> None]
  /\ open = {}
  /\ unseen = {}
  /\ looking = None
  /\ found = None
  /\ peers = [n \in Names |-> {}]
  /\ former = {}
  /\ inForce = [n \in Names |-> {}]
  /\ lasting = {}

KindOf(f) == IF f \in AsyncFuncs THEN "async" ELSE "sync"

-----------------------------------------------------------------------------
(* Faulty variants, used only by mutation runs. *)

ForgetAsyncOnly(n) == executors' = [executors EXCEPT ![<<n, "async">>] = None]

AlwaysBuilds(f, n, config) == [by |-> f, config |-> config]

LooksUpByName(n) == None

-----------------------------------------------------------------------------
\* get_or_default, and the same lookup in _get_executor
ConfigFor(n) == IF configs[n] # None THEN configs[n] ELSE default

\* The executor _get_executor answers with, building it from config if need be
ExecutorFor(f, n, config) ==
  LET cached == executors[n, KindOf(f)]
  IN  IF cached # None THEN cached ELSE [by |-> f, config |-> config]

\* unregister drops the executors of the name, of both kinds
ForgetExecutors(n) ==
  executors' = [s \in Names \X Kinds |-> IF s[1] = n THEN None ELSE executors[s]]

\* get_executor: the plain functions' executor hides the coroutines' one.
CachedExecutor(n) ==
  IF executors[n, "sync"] # None THEN executors[n, "sync"] ELSE executors[n, "async"]

Decorated == {f \in Funcs : nameOf[f] # None}

\* Every circuit of the name is open, and there is one.
Out(n) ==
  LET cached == {executors[n, k] : k \in Kinds} \ {None}
  IN configs[n] # None /\ cached # {} /\ cached \subseteq open

(* History. *)

NewEra(n) == peers' = [peers EXCEPT ![n] = {}]

\* The configurations that the names of ns come to have are added to those they had.
InForceFrom(past) ==
  inForce' = [n \in Names |-> past[n] \cup ({ConfigFor(n)'} \ {None})]

\* Of the slots of past, those still awaiting the health check, registered and open.
LastingOf(past) ==
  lasting' = {s \in past :
    s[1] \in unseen' \cup {looking'} /\ configs'[s[1]] # None /\ executors'[s] \in open'}

-----------------------------------------------------------------------------
(* The registry. *)

SetDefault(config) ==
  /\ default' = config
  /\ UNCHANGED <<configs, executors, peers, former>>
  /\ InForceFrom(inForce)

\* register pops _executors[name], a key under which nothing is cached: the keys are
\* a name followed by the kind.  (It would drop an executor of another name if its own
\* were that name's key; Names has no such names.)
Register(n, config) ==
  /\ configs' = [configs EXCEPT ![n] = config]
  /\ UNCHANGED <<default, executors, former>>
  /\ NewEra(n)
  /\ InForceFrom(inForce)

Unregister(n) ==
  /\ configs' = [configs EXCEPT ![n] = None]
  /\ ForgetExecutors(n)
  /\ UNCHANGED default
  /\ NewEra(n)
  /\ InForceFrom([inForce EXCEPT ![n] = {}])
  /\ former' = former \cup {f \in Funcs : nameOf[f] = n}

Clear ==
  /\ configs' = [n \in Names |-> None]
  /\ executors' = [s \in Names \X Kinds |-> None]
  /\ default' = None
  /\ peers' = [n \in Names |-> {}]
  /\ inForce' = [n \in Names |-> {}]
  /\ former' = {f \in Funcs : nameOf[f] \in Names}

(* Decorators. *)

\* decorator(name)(f); with neither an executor nor a configuration it raises
\* KeyError and f stays as it is.
Decorate(f, n) ==
  LET e == ExecutorFor(f, n, ConfigFor(n))
  IN  /\ nameOf[f] = None
      /\ executors[n, KindOf(f)] # None \/ ConfigFor(n) # None
      /\ executors' = [executors EXCEPT ![<<n, KindOf(f)>>] = e]
      /\ executorOf' = [executorOf EXCEPT ![f] = e]
      /\ nameOf' = [nameOf EXCEPT ![f] = n]
      /\ peers' = [peers EXCEPT ![n] = @ \cup {f}]
      /\ UNCHANGED <<configs, default, former, inForce>>

\* resilient(...)(f): applied to several functions, one decorator builds as many
\* executors.
DecorateAlone(f, config) ==
  /\ nameOf[f] = None
  /\ executorOf' = [executorOf EXCEPT ![f] = [by |-> f, config |-> config]]
  /\ nameOf' = [nameOf EXCEPT ![f] = Nameless]

(* Calls of the decorated functions, and operators, move their circuits. *)

CircuitOpens(f) ==
  /\ executorOf[f] \in Breakers
  /\ open' = open \cup {executorOf[f]}

CircuitCloses(f) ==
  /\ executorOf[f] \in open
  /\ open' = open \ {executorOf[f]}

(* health_check *)

\* registry.names
HealthBegins ==
  /\ unseen = {} /\ looking = None
  /\ unseen' = {n \in Names : configs[n] # None}
  /\ UNCHANGED <<looking, found, open>>

\* registry.get_executor(name)
HealthLooksUp(n) ==
  /\ looking = None /\ n \in unseen
  /\ looking' = n
  /\ found' = CachedExecutor(n)
  /\ unseen' = unseen \ {n}
  /\ UNCHANGED open

Reports == {None, "closed", "open", "half_open"}

\* cb.state: once the recovery time is over, reading makes an open circuit half open.
\* Nothing is reported of an executor without a breaker.
ReadsState(e, report) ==
  \/ e \notin Breakers /\ report = None /\ UNCHANGED open
  \/ e \in Breakers \ open /\ report \in {"closed", "half_open"} /\ UNCHANGED open
  \/ e \in open /\ report = "open" /\ UNCHANGED open
  \/ e \in open /\ report = "half_open" /\ open' = open \ {e}

\* The state goes into the result, for the executor found, whatever has become of the
\* name since.
HealthFiles(n, report) ==
  /\ looking = n
  /\ ReadsState(found, report)
  /\ looking' = None /\ found' = None
  /\ UNCHANGED unseen

RegistryStep ==
  /\ \/ \E config \in Configs : SetDefault(config)
     \/ \E n \in Names : Unregister(n) \/ \E config \in Configs : Register(n, config)
     \/ Clear
  /\ UNCHANGED <<decorated, open, check>>

DecoratorStep ==
  /\ \E f \in Funcs :
       \/ \E n \in Names : Decorate(f, n)
       \/ \E config \in Configs : DecorateAlone(f, config) /\ UNCHANGED <<registry, history>>
  /\ UNCHANGED <<open, check>>

CircuitStep ==
  /\ \E f \in Funcs : CircuitOpens(f) \/ CircuitCloses(f)
  /\ UNCHANGED <<registry, decorated, check, history>>

HealthStep ==
  /\ \E n \in Names : HealthLooksUp(n) \/ \E report \in Reports : HealthFiles(n, report)
  /\ UNCHANGED <<registry, decorated, history>>

HealthStart == HealthBegins /\ UNCHANGED <<registry, decorated, history>>

Next ==
  \/ (RegistryStep \/ DecoratorStep \/ CircuitStep \/ HealthStep) /\ LastingOf(lasting)
  \/ HealthStart /\ LastingOf(Slots)

Spec == Init /\ [][Next]_vars

-----------------------------------------------------------------------------
(* Properties. *)

\* Functions of one kind decorated with one name, with no change of that name's
\* registration between them, share their executor, and so their circuit breaker
\* and limits (decorator, _get_executor).
PeersShare ==
  \A n \in Names : \A f, g \in peers[n] :
    KindOf(f) = KindOf(g) => executorOf[f] = executorOf[g]

\* Functions share an executor only if they were decorated with the same name and
\* that name has not been unregistered between them: an executor dropped by
\* unregister or clear never comes back, and none is ever handed to two names.
OnlyNamesakesShare ==
  \A f, g \in Decorated :
    f # g /\ executorOf[f] = executorOf[g] =>
      /\ nameOf[f] = nameOf[g] /\ nameOf[f] # Nameless
      /\ f \in former <=> g \in former

\* register leaves the executors of the name as they are, so one may be older than the
\* configuration; yet what it carries has been the name's configuration at some time
\* since the name was last unregistered or the registry cleared.
StaleWithinItsEra ==
  \A n \in Names, k \in Kinds :
    executors[n, k] # None => executors[n, k].config \in inForce[n]

\* The state goes into the result as open, or as half open if this very reading of it
\* was what ended the recovery time.
Reported(report) == report = "open" \/ (report = "half_open" /\ found \in open)

\* There is an executor of the name, and every one has had its circuit open ever since
\* health_check listed the names.
LastingOutage(n) ==
  LET cached == {k \in Kinds : executors[n, k] # None}
  IN  cached # {} /\ \A k \in cached : <<n, k>> \in lasting

\* health_check does not miss an outage of a name that lasts while it runs, whatever is
\* registered, unregistered, decorated and called between its listing of the names, its
\* lookup of the executor and its reading of the circuit's state.
OutageIsReported ==
  [][ \A n \in Names, report \in Reports :
        HealthFiles(n, report) /\ LastingOutage(n) => Reported(report) ]_vars

-----------------------------------------------------------------------------
(* What the documentation says and the code does not do. *)

\* The comment in register: the cached executor is cleared, so that it is rebuilt
\* with the new configuration.
BuiltFromCurrentConfig ==
  [][ \A f \in Funcs, n \in Names : Decorate(f, n) /\ configs[n] # None =>
        executorOf'[f].config = configs[n] ]_vars

\* The docstring of decorator: functions decorated with the same name share the
\* same circuit breaker.  A coroutine function and a plain one do not.
NamesakesShare ==
  \A n \in Names : \A f, g \in peers[n] : executorOf[f] = executorOf[g]

\* RetryBudgetConfig: the budget limits the retries of all decorated functions.
\* Every executor makes a budget of its own from the configuration it is given.
BudgetIsGlobal ==
  \A f, g \in Decorated :
    executorOf[f].config = executorOf[g].config => executorOf[f] = executorOf[g]

\* observability.md: health_check returns the state of all registered functions.  The
\* executor of the plain functions hides a coroutine one, even if its circuit has been
\* open all the time.
HealthSeesEveryBreaker ==
  [][ \A n \in Names, report \in Reports :
        HealthFiles(n, report) /\ (\E k \in Kinds : <<n, k>> \in lasting) => Reported(report) ]_vars

\* What is filed is the state of the name as it is then.  Between lookup and reading the
\* name can lose the executor looked up, and get another one whose circuit opens.
ReportIsCurrent ==
  [][ \A n \in Names, report \in Reports :
        HealthFiles(n, report) /\ Out(n) => Reported(report) ]_vars

=============================================================================
