--------------------------- MODULE CircuitBreaker ---------------------------
(***************************************************************************)
(* The circuit breaker (src/src/infra/resilience/circuit_breaker.ts) with   *)
(* calls in flight at once, and the tier that TierManager derives from two  *)
(* breakers and the indexer's health                                        *)
(* (src/src/infra/resilience/tier_manager.ts).                              *)
(***************************************************************************)
EXTENDS Naturals, FiniteSetsExt

CONSTANTS
  Calls,             \* bound: calls in flight
  failureThreshold,  \* 3 in the code
  cooldown,          \* cooldownMs, in time steps
  halfOpenMaxSuccesses,  \* 2 in the code
  MaxCount           \* bound: failures above it are not told apart

(* What is assumed of them. *)
CircuitBreakerConstants ==
  /\ {failureThreshold, halfOpenMaxSuccesses} \subseteq Nat \ {0} /\ cooldown \in Nat
  /\ MaxCount \in Nat /\ failureThreshold < MaxCount

VARIABLES
  state,          \* "closed", "open" or "half-open"
  failureCount,
  sinceFailure,   \* time since lastFailureTime, up to the cooldown
  consecutiveSuccesses,
  call,           \* [Calls -> "idle", "running" or "fallback"]
  backendUp,      \* whether calls succeed
  hasuraOpen,     \* whether the other breaker is open
  indexerHealthy, \* HyperIndexMonitor.isHealthy
  current         \* TierManager.current

breakerVars == <<state, failureCount, sinceFailure, consecutiveSuccesses>>
worldVars   == <<backendUp, hasuraOpen, indexerHealthy>>
vars == <<breakerVars, call, worldVars, current>>

Tiers == {"green", "yellow", "orange", "red", "black"}

Init ==
  /\ state = "closed" /\ failureCount = 0 /\ consecutiveSuccesses = 0
  /\ sinceFailure = cooldown
  /\ call = [c \in Calls |-> "idle"]
  /\ backendUp = TRUE /\ hasuraOpen = FALSE /\ indexerHealthy = TRUE
  /\ current = "green"

CooldownExpired == sinceFailure = cooldown
isHealthy == state # "open" \/ CooldownExpired

-----------------------------------------------------------------------------
(* execute up to its await.  An open breaker that cools down answers from   *)
(* the fallback; after that the first call makes it half-open.              *)
ExecuteRefused(c) ==
  /\ call[c] = "idle" /\ state = "open" /\ ~CooldownExpired
  /\ call' = [call EXCEPT ![c] = "fallback"]
  /\ UNCHANGED <<breakerVars, worldVars, current>>

Execute(c) ==
  /\ call[c] = "idle" /\ (state # "open" \/ CooldownExpired)
  /\ call' = [call EXCEPT ![c] = "running"]
  /\ IF state = "open"
     THEN /\ state' = "half-open" /\ consecutiveSuccesses' = 0
          /\ UNCHANGED <<failureCount, sinceFailure>>
     ELSE UNCHANGED breakerVars
  /\ UNCHANGED <<worldVars, current>>

Reset ==
  /\ state' = "closed" /\ failureCount' = 0 /\ consecutiveSuccesses' = 0
  /\ sinceFailure' = cooldown

(* Mutation: A success resets the failures, never the state.                *)
OnSuccessNeverCloses ==
  failureCount' = 0 /\ UNCHANGED <<state, consecutiveSuccesses, sinceFailure>>

(* onSuccess: counted while half-open; in any other state, an open one      *)
(* included, the failures are forgotten.                                    *)
OnSuccess ==
  IF state = "half-open"
  THEN IF consecutiveSuccesses + 1 >= halfOpenMaxSuccesses
       THEN Reset
       ELSE /\ consecutiveSuccesses' = consecutiveSuccesses + 1
            /\ UNCHANGED <<state, failureCount, sinceFailure>>
  ELSE failureCount' = 0 /\ UNCHANGED <<state, consecutiveSuccesses, sinceFailure>>

(* onFailure.                                                               *)
OnFailure ==
  /\ failureCount' = Min({failureCount + 1, MaxCount})
  /\ sinceFailure' = 0 /\ consecutiveSuccesses' = 0
  /\ state' = IF failureCount + 1 >= failureThreshold THEN "open" ELSE state

Succeeds(c) ==
  /\ call[c] = "running" /\ backendUp /\ OnSuccess
  /\ call' = [call EXCEPT ![c] = "idle"]
  /\ UNCHANGED <<worldVars, current>>

(* The caller gets the fallback's answer, where it gave one.                *)
Fails(c) ==
  /\ call[c] = "running" /\ ~backendUp /\ OnFailure
  /\ call' = [call EXCEPT ![c] = "fallback"]
  /\ UNCHANGED <<worldVars, current>>

FallbackAnswers(c) ==
  /\ call[c] = "fallback" /\ call' = [call EXCEPT ![c] = "idle"]
  /\ UNCHANGED <<breakerVars, worldVars, current>>

-----------------------------------------------------------------------------
(* assess.                                                                  *)
Tier ==
  CASE ~isHealthy                                -> "black"
    [] isHealthy /\ hasuraOpen /\ ~indexerHealthy -> "red"
    [] isHealthy /\ hasuraOpen /\ indexerHealthy  -> "orange"
    [] isHealthy /\ ~hasuraOpen /\ ~indexerHealthy -> "yellow"
    [] OTHER                                     -> "green"

Assess == current' = Tier /\ UNCHANGED <<breakerVars, call, worldVars>>

shouldDiscover  == current \in {"green", "yellow"}
shouldExecute   == current \in {"green", "yellow"}
shouldEnumerate == current # "black"
shouldSimulate  == current \notin {"black", "red"}
shouldPollState == current # "black"

-----------------------------------------------------------------------------
Tick ==
  /\ sinceFailure < cooldown /\ sinceFailure' = sinceFailure + 1
  /\ UNCHANGED <<state, failureCount, consecutiveSuccesses, call, worldVars, current>>

WorldChanges ==
  /\ backendUp' \in BOOLEAN /\ hasuraOpen' \in BOOLEAN /\ indexerHealthy' \in BOOLEAN
  /\ UNCHANGED <<breakerVars, call, current>>

CallStep(c) == Execute(c) \/ Succeeds(c) \/ Fails(c)
Next ==
  \/ \E c \in Calls : CallStep(c) \/ ExecuteRefused(c) \/ FallbackAnswers(c)
  \/ Assess \/ Tick \/ WorldChanges

Spec == Init /\ [][Next]_vars

(* Callers go on calling, calls and fallbacks end, time passes.             *)
Fairness ==
  /\ \A c \in Calls : WF_vars(Execute(c)) /\ WF_vars(Succeeds(c)) /\ WF_vars(FallbackAnswers(c))
  /\ WF_vars(Tick)

-----------------------------------------------------------------------------
(* Properties.                                                              *)

CircuitBreakerTypeOK ==
  /\ state \in {"closed", "open", "half-open"} /\ failureCount \in 0..MaxCount
  /\ sinceFailure \in 0..cooldown /\ consecutiveSuccesses \in 0..halfOpenMaxSuccesses
  /\ call \in [Calls -> {"idle", "running", "fallback"}]
  /\ {backendUp, hasuraOpen, indexerHealthy} \subseteq BOOLEAN /\ current \in Tiers

BackendUp == backendUp
Closed == state = "closed"

(* A breaker recovers: once the backend works for good and nothing fails,   *)
(* it ends up closed, whatever late calls did to its counters.              *)
BreakerCloses == <>[]BackendUp => []<>Closed
=============================================================================
