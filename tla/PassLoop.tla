------------------------------ MODULE PassLoop ------------------------------
(***************************************************************************)
(* The orchestrator's pass loop (src/src/orchestrator): one JavaScript     *)
(* process in which the high-frequency (HF) tick of runPassLoop runs next  *)
(* to a background low-frequency (LF) tick, a background cycle enumeration *)
(* that outlives the LF tick that started it, background reorg checks, the *)
(* newHead handler and the mempool signals, all of them reading and        *)
(* writing one PassLoopState between their awaits.                         *)
(*                                                                         *)
(* Data.  A route is named after the pool it needs, so a set of cached     *)
(* cycles is a set of pools; a pools fingerprint is the pool set itself.   *)
(* A timestamp is kept as whether its interval has elapsed, so that        *)
(* `lastRefreshTime = 0' is lfDue and `lastEnumerationTime = 0' is         *)
(* enumDue.  The revision of the quarantine and the generation of the      *)
(* snapshot are only ever compared for equality with the values the HF     *)
(* filter was computed at: filter.valid stands for both being equal.       *)
(***************************************************************************)
EXTENDS Integers, FiniteSets

CONSTANTS Pools,        \* the pools the indexer can ever report
          Checks,       \* bound: reorg checks that may be in flight at once;
                        \* empty when no reorg detector is configured
          RebuildInterval,  \* INCREMENTAL_FULL_REBUILD_INTERVAL, shortened
          MaxReorgs,    \* bound: reorgs the detector reports
          MaxFailures   \* bound: LF ticks and enumerations that throw

(* What is assumed of them. *)
PassLoopConstants ==
  /\ IsFiniteSet(Checks)
  /\ RebuildInterval \in Nat \ {0}
  /\ MaxReorgs \in Nat
  /\ MaxFailures \in Nat

Tiers == {"full", "red", "black"}

VARIABLES
  pools,        \* StateRefreshService.Pools
  passes,       \* what filterPoolsForRouting says of a pool, see FilterTurns
  tier,         \* TierManager.current; green, yellow and orange are "full"
  paused,       \* isPaused, toggled by the TUI
  st,           \* the PassLoopState fields the ticks share
  hf,           \* the HF tick: [pc, selected]
  lf,           \* the background LF tick: [pc, pools]
  enum,         \* the background enumeration: [pc, pools, filtered, graph, built]
  check,        \* the background reorg checks, by slot
  quarantine,   \* QuarantineManager.entries: "none", "held" or "expired"
  reorgs,       \* bound: reorgs reported so far
  failures      \* bound: failures so far

vars == <<pools, passes, tier, paused, st, hf, lf, enum, check, quarantine, reorgs,
          failures>>

shouldEnumerate == tier # "black"
shouldSimulate  == tier = "full"

(* A tick without pools returns early, so the empty pool set serves as the *)
(* empty fingerprint.  The graph that is null was never built; one whose   *)
(* pools were all turned away is a graph.                                  *)
NoPools == {}
NoGraph == [pools |-> NoPools, built |-> -1]

(* The pools filterPoolsForRouting lets through by now.                    *)
Routable(ps) == {p \in ps : passes[p] # "no"}

-----------------------------------------------------------------------------
(* The helpers the handlers share, on the PassLoopState record.  The field *)
(* `invalidations' is history: how often the routing state was dropped.    *)

(* Mutation: Publishing keeps the generation, so the HF filter stays       *)
(* current.                                                                *)
publishSameGeneration(s) ==
  [s EXCEPT !.snapshot = [routes |-> s.cachedCycles, built |-> s.built]]

(* publishHfSnapshot: a new generation, so the cached filter no longer     *)
(* matches.                                                                *)
publishHfSnapshot(s) ==
  [s EXCEPT !.snapshot = [routes |-> s.cachedCycles, built |-> s.built],
            !.filter.valid = FALSE]

(* invalidateRoutingOnReorg.                                               *)
invalidateRoutingOnReorg(s) ==
  publishHfSnapshot(
    [s EXCEPT !.cachedCycles = {},
              !.built = s.invalidations + 1,
              !.cachedRoutingGraph = NoGraph,
              !.rebuildCount = 0,
              !.enumDue = TRUE,
              !.lastPoolsFingerprint = NoPools,
              !.lfDue = TRUE,
              !.filter = [valid |-> FALSE, routes |-> {}],
              !.invalidations = s.invalidations + 1])

(* Mutation: add and recordSuccess forget to bump the revision.            *)
bumpRevisionNot(s) == s

(* Any quarantine mutation bumps the revision the filter was computed at.  *)
bumpRevision(s) == [s EXCEPT !.filter.valid = FALSE]

(* isQuarantined, asked of every route of a set: an entry whose retry time *)
(* has come is deleted by the question.                                    *)
Lifted(routes) == {r \in routes : quarantine[r] = "expired"}
Held(routes)   == {r \in routes : quarantine[r] = "held"}

-----------------------------------------------------------------------------
Init ==
  /\ pools = {}
  /\ passes \in [Pools -> {"always", "no"}]
  /\ tier = "full"
  /\ paused = FALSE
  /\ st = [cachedCycles |-> {}, built |-> 0, cachedRoutingGraph |-> NoGraph,
           rebuildCount |-> 0, enumDue |-> FALSE,
           lastPoolsFingerprint |-> NoPools, lfDue |-> TRUE,
           snapshot |-> [routes |-> {}, built |-> 0],
           filter |-> [valid |-> FALSE, routes |-> {}],
           invalidations |-> 0]
  /\ hf = [pc |-> "sleep", selected |-> {}]
  /\ lf = [pc |-> "idle", pools |-> {}]
  /\ enum = [pc |-> "idle", pools |-> {}, filtered |-> {}, graph |-> NoGraph,
             built |-> 0]
  /\ check = [c \in Checks |-> "idle"]
  /\ quarantine = [r \in Pools |-> "none"]
  /\ reorgs = 0
  /\ failures = 0

-----------------------------------------------------------------------------
(* The HF loop.                                                            *)

(* getActiveCycleIndices at the start of a tick: the cached selection when *)
(* neither the snapshot nor the quarantine has changed, a new one          *)
(* otherwise.  Asking lifts the expired entries, which bumps the revision  *)
(* before it is stored with the new selection.                             *)
getActiveCycleIndices(s) ==
  IF s.filter.valid
  THEN /\ hf' = [pc |-> "simulate", selected |-> s.filter.routes]
       /\ st' = s
       /\ UNCHANGED quarantine
  ELSE LET routes == s.snapshot.routes \ Held(s.snapshot.routes)
       IN  /\ hf' = [pc |-> "simulate", selected |-> routes]
           /\ st' = [s EXCEPT !.filter = [valid |-> TRUE, routes |-> routes]]
           /\ quarantine' = [r \in Pools |->
                IF r \in Lifted(s.snapshot.routes) THEN "none"
                                                   ELSE quarantine[r]]

(* The top of an iteration starts the LF tick when it is due and none is   *)
(* in flight; its body runs only after the synchronous start of the HF     *)
(* tick.                                                                   *)
StartLfTick ==
  IF st.lfDue /\ lf.pc = "idle"
  THEN lf' = [pc |-> "refresh", pools |-> {}]
  ELSE UNCHANGED lf

LfStarted == [st EXCEPT !.lfDue = IF lf.pc = "idle" THEN FALSE ELSE st.lfDue]

(* One iteration up to the first await of runHfTick.  The black and red    *)
(* tiers return before the filter is looked at.                            *)
Iterate ==
  /\ hf.pc = "sleep" /\ ~paused
  /\ StartLfTick
  /\ IF shouldSimulate
     THEN getActiveCycleIndices(LfStarted)
     ELSE /\ st' = LfStarted
          /\ UNCHANGED <<hf, quarantine>>
  /\ UNCHANGED <<pools, passes, tier, paused, enum, check, reorgs, failures>>

(* The rest of the tick: the selected routes are simulated and the best of *)
(* them executed; ExecutionService quarantines the routes that fail and    *)
(* clears the entry of those that succeed.                                 *)
FinishHfTick(failed, succeeded) ==
  /\ hf.pc = "simulate"
  /\ quarantine' = [r \in Pools |-> IF r \in failed THEN "held"
                                    ELSE IF r \in succeeded THEN "none"
                                    ELSE quarantine[r]]
  /\ st' = IF failed # {} \/ \E r \in succeeded : quarantine[r] # "none"
           THEN bumpRevision(st) ELSE st
  /\ hf' = [pc |-> "sleep", selected |-> {}]
  /\ UNCHANGED <<pools, passes, tier, paused, lf, enum, check, reorgs, failures>>

HfTickEnds == \E failed \in SUBSET hf.selected :
                \E succeeded \in SUBSET (hf.selected \ failed) :
                  FinishHfTick(failed, succeeded)

-----------------------------------------------------------------------------
(* The LF tick.                                                            *)

(* runLfStateRefresh has returned: the tick takes the pool list, and with  *)
(* pools to work on forks a reorg check if the last one is old enough.     *)
LfRefreshed ==
  /\ lf.pc = "refresh"
  /\ st' = [st EXCEPT !.lfDue = FALSE]
  /\ IF pools = {}
     THEN /\ lf' = [pc |-> "idle", pools |-> {}]
          /\ UNCHANGED check
     ELSE /\ lf' = [pc |-> "rates", pools |-> pools]
          /\ \/ \E c \in Checks : /\ check[c] = "idle"
                                  /\ check' = [check EXCEPT ![c] = "tip"]
             \/ UNCHANGED check
  /\ UNCHANGED <<pools, passes, tier, paused, hf, enum, quarantine, reorgs, failures>>

(* An enumeration is due when the pool set differs from the last one       *)
(* enumerated, the interval has elapsed, or the state cache grew.          *)
EnumStale(stateCacheGrew) ==
  lf.pools # st.lastPoolsFingerprint \/ stateCacheGrew \/ st.enumDue

(* The rates are in: publish, and start an enumeration that is due unless  *)
(* one is in flight; it filters its pools at once.  The growth of the      *)
(* state cache only counts while no cycles are cached.                     *)
LfPublished(stateCacheGrew) ==
  /\ lf.pc = "rates"
  /\ stateCacheGrew => st.cachedCycles = {}
  /\ st' = publishHfSnapshot(st)
  /\ lf' = [pc |-> "idle", pools |-> {}]
  /\ enum' = IF enum.pc = "idle" /\ EnumStale(stateCacheGrew) /\ shouldEnumerate
             THEN [enum EXCEPT !.pc = "prefetch", !.pools = lf.pools,
                               !.filtered = Routable(lf.pools)]
             ELSE enum
  /\ UNCHANGED <<pools, passes, tier, paused, hf, check, quarantine, reorgs, failures>>

(* An await of the tick rejects (the oracle, say): no publication.         *)
LfFailed ==
  /\ lf.pc = "rates" /\ failures < MaxFailures
  /\ lf' = [pc |-> "idle", pools |-> {}]
  /\ failures' = failures + 1
  /\ UNCHANGED <<pools, passes, tier, paused, st, hf, enum, check, quarantine, reorgs>>

-----------------------------------------------------------------------------
(* The background enumeration.                                             *)

(* shouldFullRebuild counts the question, modulo the interval: the answer   *)
(* is yes when the count is back at zero.                                   *)
RebuildCounted ==
  IF st.rebuildCount + 1 = RebuildInterval THEN 0 ELSE st.rebuildCount + 1

poolSetStable == enum.pools = st.lastPoolsFingerprint

(* It is asked only when the pool set, of all pools and not of those that   *)
(* pass the filter, is the one last enumerated and there is a graph.        *)
RebuildAsked == poolSetStable /\ st.cachedRoutingGraph # NoGraph

(* Mutation: no full rebuild while the pool set stays the same.             *)
UseIncrementalGraphAlways == RebuildAsked

UseIncrementalGraph == RebuildAsked /\ RebuildCounted # 0

(* After the prefetch: patch the cached graph in place, which refreshes the *)
(* state of its pools and neither adds nor removes one, or build a new one  *)
(* of the pools that had passed the filter.  buildGraph leaves out those    *)
(* that were marked as garbage meanwhile.                                   *)
EnumGraph(garbage) ==
  /\ enum.pc = "prefetch"
  /\ garbage \subseteq Pools \ Routable(Pools)
  /\ LET graph == IF UseIncrementalGraph
                  THEN st.cachedRoutingGraph
                  ELSE [pools |-> enum.filtered \ garbage, built |-> st.invalidations]
         count == IF RebuildAsked THEN RebuildCounted
                  ELSE IF poolSetStable THEN st.rebuildCount ELSE 0
     IN  /\ st' = [st EXCEPT !.cachedRoutingGraph = graph, !.rebuildCount = count]
         /\ enum' = [enum EXCEPT !.pc = "search", !.filtered = {}, !.graph = graph,
                                 !.built = st.invalidations]
  /\ UNCHANGED <<pools, passes, tier, paused, hf, lf, check, quarantine, reorgs,
                 failures>>

(* Mutation: The fingerprint recorded is that of the pools known by now.   *)
EnumSearchedCurrentPools(found) ==
  /\ enum.pc = "search"
  /\ found \subseteq enum.graph.pools
  /\ st' = publishHfSnapshot(
              [st EXCEPT !.cachedCycles = found, !.built = enum.built,
                         !.lastPoolsFingerprint = pools, !.enumDue = FALSE,
                         !.cachedRoutingGraph = enum.graph])
  /\ enum' = [enum EXCEPT !.pc = IF found = {} THEN "idle" ELSE "fetch"]
  /\ UNCHANGED <<pools, passes, tier, paused, hf, lf, check, quarantine, reorgs,
                 failures>>

(* The search has answered: install the cycles, publish, and record what   *)
(* was enumerated and when.  Only with cycles is there state to fetch.     *)
Enumerated(found) ==
  publishHfSnapshot([st EXCEPT !.cachedCycles = found, !.built = enum.built])

EnumSearched(found) ==
  /\ enum.pc = "search"
  /\ found \subseteq enum.graph.pools
  /\ st' = [Enumerated(found) EXCEPT !.lastPoolsFingerprint = enum.pools,
                                     !.enumDue = FALSE,
                                     !.cachedRoutingGraph = enum.graph]
  /\ enum' = [enum EXCEPT !.pc = IF found = {} THEN "idle" ELSE "fetch"]
  /\ UNCHANGED <<pools, passes, tier, paused, hf, lf, check, quarantine, reorgs,
                 failures>>

(* The state of the cycles' pools has been fetched, or could not be.       *)
EnumFetched ==
  /\ enum.pc = "fetch"
  /\ enum' = [enum EXCEPT !.pc = "idle"]
  /\ UNCHANGED <<pools, passes, tier, paused, st, hf, lf, check, quarantine, reorgs,
                 failures>>

(* The search throws: the finally block still clears the in-flight flag.   *)
EnumFailed ==
  /\ enum.pc = "search" /\ failures < MaxFailures
  /\ enum' = [enum EXCEPT !.pc = "idle"]
  /\ failures' = failures + 1
  /\ UNCHANGED <<pools, passes, tier, paused, st, hf, lf, check, quarantine, reorgs>>

-----------------------------------------------------------------------------
(* Reorgs.                                                                 *)

(* checkReorg has answered.  A reported reorg clears the pool state, then   *)
(* awaits trackBlock before the routing state is dropped; anything else,    *)
(* an error included, ends the check.  What ReorgDetector.tla shows of the  *)
(* detector (one reorganisation may be reported several times, by the       *)
(* handler of newHead and by overlapping checks) makes a report possible    *)
(* at any time.                                                             *)
CheckAnswered(c) ==
  /\ check[c] = "tip"
  /\ \/ /\ reorgs < MaxReorgs
        /\ check' = [check EXCEPT ![c] = "track"]
        /\ reorgs' = reorgs + 1
     \/ /\ check' = [check EXCEPT ![c] = "idle"]
        /\ UNCHANGED reorgs
  /\ UNCHANGED <<pools, passes, tier, paused, st, hf, lf, enum, quarantine, failures>>

(* Mutation: what a check found is not forgotten once it was acted on.      *)
CheckInvalidatesAgain(c) ==
  /\ check[c] = "track"
  /\ st' = invalidateRoutingOnReorg(st)
  /\ UNCHANGED <<pools, passes, tier, paused, hf, lf, enum, check, quarantine, reorgs,
                 failures>>

CheckInvalidates(c) ==
  /\ check[c] = "track"
  /\ check' = [check EXCEPT ![c] = "idle"]
  /\ st' = invalidateRoutingOnReorg(st)
  /\ UNCHANGED <<pools, passes, tier, paused, hf, lf, enum, quarantine, reorgs, failures>>

(* A newHead whose parent is not the block tracked at that height.          *)
NewHeadMismatch ==
  /\ reorgs < MaxReorgs
  /\ reorgs' = reorgs + 1
  /\ st' = invalidateRoutingOnReorg(st)
  /\ UNCHANGED <<pools, passes, tier, paused, hf, lf, enum, check, quarantine, failures>>

-----------------------------------------------------------------------------
(* The other sources of events.                                            *)

(* A mempool signal (new_pool_pending, large_swap).                        *)
Signal ==
  /\ st' = [st EXCEPT !.lfDue = TRUE, !.enumDue = TRUE]
  /\ UNCHANGED <<pools, passes, tier, paused, hf, lf, enum, check, quarantine, reorgs,
                 failures>>

(* runPoolDiscovery appends the pools the indexer reports.                 *)
Discover(p) ==
  /\ p \notin pools
  /\ pools' = pools \cup {p}
  /\ UNCHANGED <<passes, tier, paused, st, hf, lf, enum, check, quarantine, reorgs,
                 failures>>

AssessTier(t) ==
  /\ hf.pc = "sleep" /\ t # tier
  /\ tier' = t
  /\ UNCHANGED <<pools, passes, paused, st, hf, lf, enum, check, quarantine, reorgs,
                 failures>>

TogglePause ==
  /\ paused' = ~paused
  /\ UNCHANGED <<pools, passes, tier, st, hf, lf, enum, check, quarantine, reorgs, failures>>

(* What the filter says of a pool changes with its state and the list of   *)
(* garbage: liquidity falls below the minimum and rises again, a V3 pool   *)
(* without state passes until its state arrives.  A pool it has turned     *)
(* away before passes "again", which only the properties tell from        *)
(* "always".                                                              *)
FilterTurns(p) ==
  /\ passes' = [passes EXCEPT ![p] = IF @ = "no" THEN "again" ELSE "no"]
  /\ UNCHANGED <<pools, tier, paused, st, hf, lf, enum, check, quarantine, reorgs,
                 failures>>

LfIntervalElapses ==
  /\ ~st.lfDue
  /\ st' = [st EXCEPT !.lfDue = TRUE]
  /\ UNCHANGED <<pools, passes, tier, paused, hf, lf, enum, check, quarantine, reorgs,
                 failures>>

EnumIntervalElapses ==
  /\ ~st.enumDue
  /\ st' = [st EXCEPT !.enumDue = TRUE]
  /\ UNCHANGED <<pools, passes, tier, paused, hf, lf, enum, check, quarantine, reorgs,
                 failures>>

RetryTimeComes(r) ==
  /\ quarantine[r] = "held"
  /\ quarantine' = [quarantine EXCEPT ![r] = "expired"]
  /\ UNCHANGED <<pools, passes, tier, paused, st, hf, lf, enum, check, reorgs, failures>>

-----------------------------------------------------------------------------
LfSteps   == \/ LfRefreshed
             \/ \E grew \in BOOLEAN : LfPublished(grew)
             \/ LfFailed
EnumSteps == \/ \E garbage \in SUBSET Pools : EnumGraph(garbage)
             \/ \E found \in SUBSET Pools : EnumSearched(found)
             \/ EnumFetched
             \/ EnumFailed
CheckSteps(c) == CheckAnswered(c) \/ CheckInvalidates(c)

Next ==
  \/ Iterate \/ HfTickEnds \/ LfSteps \/ EnumSteps
  \/ \E c \in Checks : CheckSteps(c)
  \/ NewHeadMismatch \/ Signal
  \/ \E p \in Pools : Discover(p) \/ FilterTurns(p)
  \/ \E t \in Tiers : AssessTier(t)
  \/ TogglePause \/ LfIntervalElapses \/ EnumIntervalElapses
  \/ \E r \in Pools : RetryTimeComes(r)

Spec == Init /\ [][Next]_vars

(* Every await of the loop and of the background tasks returns, and time   *)
(* passes.  Nothing is assumed of signals, heads, reorgs or discovery.     *)
Fairness ==
  /\ WF_vars(Iterate) /\ WF_vars(HfTickEnds)
  /\ WF_vars(LfSteps) /\ WF_vars(EnumSteps)
  /\ \A c \in Checks : WF_vars(CheckSteps(c))
  /\ WF_vars(LfIntervalElapses) /\ WF_vars(EnumIntervalElapses)

FairSpec == Spec /\ Fairness
-----------------------------------------------------------------------------
(* Properties.                                                             *)

Graphs == [pools : SUBSET Pools, built : -1..MaxReorgs]
Views  == [routes : SUBSET Pools, built : 0..MaxReorgs]

PassLoopState ==
  [cachedCycles : SUBSET Pools, built : 0..MaxReorgs,
   cachedRoutingGraph : Graphs, rebuildCount : 0..RebuildInterval - 1,
   enumDue : BOOLEAN,
   lastPoolsFingerprint : SUBSET Pools, lfDue : BOOLEAN,
   snapshot : Views, filter : [valid : BOOLEAN, routes : SUBSET Pools],
   invalidations : 0..MaxReorgs]

(* Every variable has its type; the routing state is dropped at most once   *)
(* per report of the detector, which the bound on the reports shows.        *)
TypeOK ==
  /\ pools \subseteq Pools /\ passes \in [Pools -> {"always", "no", "again"}]
  /\ tier \in Tiers /\ paused \in BOOLEAN
  /\ st \in PassLoopState
  /\ hf \in [pc : {"sleep", "simulate"}, selected : SUBSET Pools]
  /\ lf \in [pc : {"idle", "refresh", "rates"}, pools : SUBSET Pools]
  /\ enum \in [pc : {"idle", "prefetch", "search", "fetch"},
               pools : SUBSET Pools, filtered : SUBSET Pools, graph : Graphs,
               built : 0..MaxReorgs]
  /\ check \in [Checks -> {"idle", "tip", "track"}]
  /\ quarantine \in [Pools -> {"none", "held", "expired"}]
  /\ reorgs \in 0..MaxReorgs /\ failures \in 0..MaxFailures

(* A cycle filter the next HF tick would reuse holds exactly the routes of *)
(* the current snapshot without a quarantine entry: no LF publication,     *)
(* reorg or quarantine mutation between two ticks leaves a stale one       *)
(* behind that looks current.                                              *)
FilterExact ==
  st.filter.valid =>
    st.filter.routes = {r \in st.snapshot.routes : quarantine[r] = "none"}

(* The pools of a set the filter never turned away.                        *)
NeverTurnedAway(ps) == {p \in ps : passes[p] = "always"}

(* An enumeration that is going to patch the cached graph in place finds a *)
(* graph of pools it was started for, short of none but those the routing  *)
(* filter has turned away at some time: comparing the fingerprints of all  *)
(* pools suffices for the others, whatever was discovered, rebuilt,        *)
(* dropped or failed since.  And the cached cycles only use pools of the   *)
(* recorded fingerprint.                                                   *)
IncrementalGraphMatchesPools ==
  /\ enum.pc = "prefetch" /\ UseIncrementalGraph =>
       /\ st.cachedRoutingGraph.pools \subseteq enum.pools
       /\ NeverTurnedAway(enum.pools) \subseteq st.cachedRoutingGraph.pools
  /\ st.cachedCycles \subseteq st.lastPoolsFingerprint

Discovered(p) == p \in pools
InGraph(p)    == p \in st.lastPoolsFingerprint /\ p \in st.cachedRoutingGraph.pools
EnumeratedOrStopped(p) ==
  InGraph(p) \/ passes[p] = "no" \/ paused \/ tier = "black"

(* A discovered pool that passes the routing filter is eventually in the   *)
(* graph and among the pools of an enumeration that completed, unless it   *)
(* fails the filter again, the loop is paused or the RPC is gone.          *)
(* Discovery during a running enumeration is not lost when that one        *)
(* records what it has enumerated; and a pool that passes only later, of   *)
(* which neither the fingerprint nor the patched graph takes notice, comes *)
(* in with the next full rebuild.                                          *)
PoolsEnumerated ==
  \A p \in Pools : Discovered(p) ~> EnumeratedOrStopped(p)

Expired(r) == quarantine[r] = "expired" /\ r \in st.snapshot.routes
LiftedOrStopped(r) == ~Expired(r) \/ paused \/ ~shouldSimulate

(* A route whose quarantine has run out is eventually asked for again,     *)
(* although nothing prunes the quarantine and the HF tick reuses its       *)
(* filter: the entry goes, unless the route is no longer cached or the     *)
(* loop does not simulate.                                                 *)
ExpiredLifted ==
  \A r \in Pools : Expired(r) ~> LiftedOrStopped(r)

(* "Drop cached routes and force LF re-enumeration after a chain reorg."   *)
(* (pass_reorg.ts:44): the routes the HF tick sees were enumerated after   *)
(* the last invalidation.                                                  *)
DroppedRoutesStayDropped ==
  st.snapshot.routes # {} => st.snapshot.built = st.invalidations
=============================================================================
