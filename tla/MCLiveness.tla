----------------------------- MODULE MCLiveness -----------------------------
(* What must happen at last, in the pass loop and the services that recover *)
(* from failures, each on a small instance of its own (see MCServices).  The*)
(* fairness is that of the modules: code that has been started goes on, and *)
(* timers fire.                                                             *)
EXTENDS Integers, Sequences, TLC

CONSTANTS NoState, Invalid, NoBlock

VARIABLES component, x1, x2, x3, x4, x5, x6, x7, x8, x9, x10, x11, x12, x13

FetchedKinds == [p \in {"a"} |-> "v3"]

PassLoop == INSTANCE PassLoop WITH
  Pools <- {"p1", "p2"}, Checks <- {}, RebuildInterval <- 1, MaxReorgs <- 0,
  MaxFailures <- 0,
  pools <- x1, passes <- x2, tier <- x3, paused <- x4, st <- x5, hf <- x6, lf <- x7,
  enum <- x8, check <- x9, quarantine <- x10, reorgs <- x11, failures <- x12

Routing == INSTANCE PassLoop WITH
  Pools <- {"p1", "p2"}, Checks <- {}, RebuildInterval <- 2, MaxReorgs <- 0,
  MaxFailures <- 1,
  pools <- x1, passes <- x2, tier <- x3, paused <- x4, st <- x5, hf <- x6, lf <- x7,
  enum <- x8, check <- x9, quarantine <- x10, reorgs <- x11, failures <- x12

ReorgDetector == INSTANCE ReorgDetector WITH
  MaxHeight <- 2, MaxForks <- 1, MaxErrors <- 1, MaxTracked <- 2, checkDepth <- 2,
  CheckSlots <- {"c1", "c2"},
  chain <- x1, forks <- x2, announced <- x3, trackedBlocks <- x4, checks <- x5,
  errors <- x6, reported <- x7, replaced <- x8

PoolStateFetch == INSTANCE PoolStateFetch WITH
  PoolOrder <- <<"a">>, KindOf <- FetchedKinds, CyclePools <- {"a"}, Heads <- {"h"},
  Others <- {"o"}, InvalidAfter <- 2, SkipAfter <- 1, MaxPrice <- 1, MaxFaults <- 2,
  price <- x1, stateCache <- x2, failedPools <- x3, recent <- x4, graphState <- x5,
  tasks <- x6, tickTask <- x7, faults <- x8

HyperIndexer == INSTANCE HyperIndexer WITH
  HealthChecks <- {"c1", "c2"}, MainTask <- "main", MaxSpawns <- 3, MaxStall <- 1,
  Graceful <- TRUE,
  child <- x1, bound <- x2, proc <- x3, weStarted <- x4, gentok <- x5, managing <- x6,
  restarting <- x7, healthy <- x8, timerOn <- x9, progressed <- x10, quiet <- x11,
  overlapped <- x12, task <- x13

CircuitBreaker == INSTANCE CircuitBreaker WITH
  Calls <- {"c1", "c2"}, failureThreshold <- 2, cooldown <- 2,
  halfOpenMaxSuccesses <- 2, MaxCount <- 4,
  state <- x1, failureCount <- x2, sinceFailure <- x3, consecutiveSuccesses <- x4,
  call <- x5, backendUp <- x6, hasuraOpen <- x7, indexerHealthy <- x8, current <- x9

-----------------------------------------------------------------------------
(* The variables a component has no use for.                                *)
Unused13 == x13 = 0
Unused12 == x12 = 0 /\ Unused13
Unused11 == x11 = 0 /\ Unused12
Unused10 == x10 = 0 /\ Unused11
Unused9 == x9 = 0 /\ Unused10

Kept13 == UNCHANGED x13
Kept12 == UNCHANGED <<x12, x13>>
Kept11 == UNCHANGED <<x11, x12, x13>>
Kept10 == UNCHANGED <<x10, x11, x12, x13>>
Kept9 == UNCHANGED <<x9, x10, x11, x12, x13>>

-----------------------------------------------------------------------------
(* The pass loop is taken twice: as "PassLoop" every pool passes the routing*)
(* filter; as "Routing" one of the two may fail it, no route fails, nobody  *)
(* pauses and the RPC stays healthy.                                        *)
AllPass == x2 = [p \in {"p1", "p2"} |-> "always"]
OtherPasses == x2["p2"] = "always"

Init ==
  \/ component = "PassLoop" /\ PassLoop!Init /\ AllPass /\ Unused13
  \/ component = "Routing" /\ Routing!Init /\ OtherPasses /\ Unused13
  \/ component = "ReorgDetector" /\ ReorgDetector!ReorgDetectorInit /\ Unused9
  \/ component = "PoolStateFetch" /\ PoolStateFetch!PoolStateFetchInit /\ Unused9
  \/ component = "HyperIndexer" /\ HyperIndexer!HyperIndexerInit
  \/ component = "CircuitBreaker" /\ CircuitBreaker!Init /\ Unused10

Next ==
  /\ UNCHANGED component
  /\ \/ component = "PassLoop" /\ PassLoop!Next /\ UNCHANGED x2 /\ Kept13
     \/ component = "Routing" /\ Routing!Next /\ UNCHANGED <<x3, x4, x10>> /\ OtherPasses' /\ Kept13
     \/ component = "ReorgDetector" /\ ReorgDetector!ReorgDetectorNext /\ Kept9
     \/ component = "PoolStateFetch" /\ PoolStateFetch!PoolStateFetchNext /\ Kept9
     \/ component = "HyperIndexer" /\ HyperIndexer!HyperIndexerNext
     \/ component = "CircuitBreaker" /\ CircuitBreaker!Next /\ Kept10

vars == <<component, x1, x2, x3, x4, x5, x6, x7, x8, x9, x10, x11, x12, x13>>
Spec == Init /\ [][Next]_vars

-----------------------------------------------------------------------------
(* The fairness of the modules, each for the behaviours of its component: a *)
(* property is of those that are fair to its component.                     *)
PassLoopFair ==
  /\ WF_(PassLoop!vars)(component = "PassLoop" /\ PassLoop!Iterate)
  /\ WF_(PassLoop!vars)(component = "PassLoop" /\ PassLoop!HfTickEnds)
  /\ WF_(PassLoop!vars)(component = "PassLoop" /\ PassLoop!LfSteps)
  /\ WF_(PassLoop!vars)(component = "PassLoop" /\ PassLoop!EnumSteps)
  /\ WF_(PassLoop!vars)(component = "PassLoop" /\ PassLoop!LfIntervalElapses)
  /\ WF_(PassLoop!vars)(component = "PassLoop" /\ PassLoop!EnumIntervalElapses)

RoutingFair ==
  /\ WF_(Routing!vars)(component = "Routing" /\ Routing!Iterate)
  /\ WF_(Routing!vars)(component = "Routing" /\ Routing!HfTickEnds)
  /\ WF_(Routing!vars)(component = "Routing" /\ Routing!LfSteps)
  /\ WF_(Routing!vars)(component = "Routing" /\ Routing!EnumSteps)
  /\ WF_(Routing!vars)(component = "Routing" /\ Routing!LfIntervalElapses)
  /\ WF_(Routing!vars)(component = "Routing" /\ Routing!EnumIntervalElapses)

ReorgDetectorFair ==
  /\ WF_(ReorgDetector!reorgVars)(component = "ReorgDetector"
       /\ \E c \in {"c1", "c2"} : ReorgDetector!CheckStart(c))
  /\ \A c \in {"c1", "c2"} :
       WF_(ReorgDetector!reorgVars)(component = "ReorgDetector" /\ ReorgDetector!CheckStep(c))

PoolStateFetchFair ==
  /\ WF_(PoolStateFetch!fetchVars)(component = "PoolStateFetch" /\ PoolStateFetch!FetchForCycles)
  /\ WF_(PoolStateFetch!fetchVars)(component = "PoolStateFetch" /\ PoolStateFetch!FetchEnds("lf"))
  /\ WF_(PoolStateFetch!fetchVars)(component = "PoolStateFetch" /\ PoolStateFetch!FailureExpires("a"))
  /\ WF_(PoolStateFetch!fetchVars)(component = "PoolStateFetch" /\ PoolStateFetch!Stales("a"))

HyperIndexerFair ==
  /\ \A t \in {"main", "c1", "c2"} :
       WF_(HyperIndexer!hyperIndexerVars)(component = "HyperIndexer" /\ HyperIndexer!TaskRuns(t))
  /\ \A c \in {"c1", "c2"} :
       WF_(HyperIndexer!hyperIndexerVars)(component = "HyperIndexer" /\ HyperIndexer!CheckRuns(c))
  /\ WF_(HyperIndexer!hyperIndexerVars)(component = "HyperIndexer" /\ HyperIndexer!CheckBegins)
  /\ \A k \in 1..3 :
       WF_(HyperIndexer!hyperIndexerVars)(component = "HyperIndexer" /\ HyperIndexer!SignalledExits(k))

CircuitBreakerFair ==
  /\ \A c \in {"c1", "c2"} :
       WF_(CircuitBreaker!vars)(component = "CircuitBreaker" /\ CircuitBreaker!Execute(c))
  /\ \A c \in {"c1", "c2"} :
       WF_(CircuitBreaker!vars)(component = "CircuitBreaker" /\ CircuitBreaker!Succeeds(c))
  /\ \A c \in {"c1", "c2"} :
       WF_(CircuitBreaker!vars)(component = "CircuitBreaker" /\ CircuitBreaker!FallbackAnswers(c))
  /\ WF_(CircuitBreaker!vars)(component = "CircuitBreaker" /\ CircuitBreaker!Tick)

-----------------------------------------------------------------------------
(* An indexer that died is started again by a later check, unless the       *)
(* program shuts down or a stop hangs because the child exited by itself.   *)
CrashRecovered ==
  HyperIndexerFair =>
    component = "HyperIndexer" /\ HyperIndexer!Crashed
      ~> component = "HyperIndexer" /\ HyperIndexer!Recovered

(* The breaker of the Hasura queries closes again once the backend works    *)
(* for good, whatever late answers did to its counters.                     *)
BreakerCloses ==
  CircuitBreakerFair /\ <>[](component = "CircuitBreaker" /\ CircuitBreaker!BackendUp)
    => []<>(component = "CircuitBreaker" /\ CircuitBreaker!Closed)

(* The pools of cycles get a usable, current state after every failure.     *)
CyclePoolsUsable ==
  PoolStateFetchFair /\ component = "PoolStateFetch"
    => []<>(component = "PoolStateFetch" /\ PoolStateFetch!UpToDate("a"))

(* A discovered pool that passes the routing filter comes into the graph of *)
(* an enumeration, unless the loop is paused or the RPC is gone.            *)
PoolsEnumerated ==
  RoutingFair =>
    component = "Routing" /\ Routing!Discovered("p1")
      ~> component = "Routing" /\ Routing!EnumeratedOrStopped("p1")

(* A route whose quarantine has run out is asked for again, as long as it   *)
(* is cached and the loop simulates.                                        *)
ExpiredLifted ==
  PassLoopFair =>
    component = "PassLoop" /\ PassLoop!Expired("p1")
      ~> component = "PassLoop" /\ PassLoop!LiftedOrStopped("p1")

(* A replaced block that the reorg checks can reach does not stay tracked.  *)
StaleUntracked ==
  ReorgDetectorFair =>
    \A n \in 1..2 :
      component = "ReorgDetector" /\ ReorgDetector!StaleInWindow(n)
        ~> component = "ReorgDetector" /\ ~ReorgDetector!StaleInWindow(n)
=============================================================================
