------------------------- MODULE MCProvedComponents -------------------------
(***************************************************************************)
(* The components that stand alone and have a proof: their properties are  *)
(* checked here as they are stated in the theorems.  The components share  *)
(* no state: Init chooses the one that takes its steps, and the variables  *)
(* of the others keep their initial values.                                *)
(*                                                                         *)
(* NonceManager: two concurrent recoveries, three nonces and a stale set   *)
(* of two are enough for a resync that hands out again a nonce still held  *)
(* from before, a late confirmation that jumps over unsettled nonces and   *)
(* an eviction during a recovery.                                          *)
(***************************************************************************)
EXTENDS NonceManager, Discovery, HyperIndexer, GarbageTracker, RequestScheduler, Streams,
  IndexerOutput, GasOracle, PoolStateFetch, TLC

VARIABLE component

(* The pages of pools that the clean-up of the garbage tracker reads.       *)
ScannedPages == <<{"a"}, {}, {"a", "b"}>>

(* One critical request and two of a lower priority.                        *)
Priorities == <<0, 1, 1>>

(* One pool, with ticks.                                                    *)
FetchedPools == <<"a">>
FetchedKinds == [p \in {"a"} |-> "v3"]

ASSUME ProvedComponentsAssumption ==
  /\ DiscoveryConstants
  /\ HyperIndexerConstants
  /\ GarbageTrackerConstants
  /\ RequestSchedulerConstants
  /\ ProgressFeedConstants
  /\ WebSocketSubscriberConstants
  /\ IndexerOutputConstants
  /\ GasOracleConstants
  /\ PoolStateFetchConstants
  /\ FeeMarginConstants

ProvedInit ==
  /\ component \in {"NonceManager", "Discovery", "HyperIndexer", "GarbageTracker",
                    "RequestScheduler", "ProgressFeed", "WebSocketSubscriber",
                    "IndexerOutput", "GasOracle", "PoolStateFetch"}
  /\ Init
  /\ DiscoveryInit
  /\ HyperIndexerInit
  /\ GarbageTrackerInit
  /\ RequestSchedulerInit
  /\ ProgressFeedInit
  /\ WebSocketSubscriberInit
  /\ IndexerOutputInit
  /\ GasOracleInit
  /\ PoolStateFetchInit

ProvedNext ==
  /\ UNCHANGED component
  /\ \/ component = "NonceManager" /\ Next
     \/ component = "Discovery" /\ DiscoveryNext
     \/ component = "HyperIndexer" /\ HyperIndexerNext
     \/ component = "GarbageTracker" /\ GarbageTrackerNext
     \/ component = "RequestScheduler" /\ RequestSchedulerNext
     \/ component = "ProgressFeed" /\ ProgressFeedNext
     \/ component = "WebSocketSubscriber" /\ WebSocketSubscriberNext
     \/ component = "IndexerOutput" /\ IndexerOutputNext
     \/ component = "GasOracle" /\ GasOracleNext
     \/ component = "PoolStateFetch" /\ PoolStateFetchNext
  /\ component # "NonceManager" => UNCHANGED vars
  /\ component # "Discovery" => UNCHANGED discoveryVars
  /\ component # "HyperIndexer" => UNCHANGED hyperIndexerVars
  /\ component # "GarbageTracker" => UNCHANGED garbageVars
  /\ component # "RequestScheduler" => UNCHANGED schedulerVars
  /\ component # "ProgressFeed" => UNCHANGED feedVars
  /\ component # "WebSocketSubscriber" => UNCHANGED subscriberVars
  /\ component # "IndexerOutput" => UNCHANGED outputVars
  /\ component # "GasOracle" => UNCHANGED oracleVars
  /\ component # "PoolStateFetch" => UNCHANGED fetchVars

provedVars ==
  <<component, vars, discoveryVars, hyperIndexerVars, garbageVars, schedulerVars,
    feedVars, subscriberVars, outputVars, oracleVars, fetchVars>>
ProvedSpec == ProvedInit /\ [][ProvedNext]_provedVars

(* The recoveries are interchangeable; nothing checked here names one.      *)
Symmetry == Permutations(Tasks)
=============================================================================
