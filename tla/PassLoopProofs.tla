--------------------------- MODULE PassLoopProofs ---------------------------
(***************************************************************************)
(* For every set of pools, every finite set of check slots and every       *)
(* bound: the type invariant of PassLoop, that a cycle filter the HF tick  *)
(* reuses is exact, and that the graph patched in place has the pools      *)
(* being enumerated but for those the routing filter turned away.  And for *)
(* every depth, limit of the list and number of checks, heads and          *)
(* reorganisations: the types of ReorgDetector, whose reports the loop     *)
(* takes, and that it reports a reorg only where the chain has replaced a  *)
(* block.                                                                  *)
(***************************************************************************)
EXTENDS PassLoop, ReorgDetector, ListProofs

Tracking == {c \in Checks : check[c] = "track"}

\* Every report of a reorg is held by the one check that made it, or has dropped
\* the routing state once. This bounds the history counter, which the types rest
\* on.
ReorgsCounted == st.invalidations + Cardinality(Tracking) = reorgs

\* Pools are only added, so what was enumerated, is enumerated and will be
\* enumerated next are a chain of sets; a graph has no pools from outside.
PoolOrder ==
    /\ enum.pools \subseteq pools
    /\ lf.pc = "rates" => enum.pools \subseteq lf.pools /\ lf.pools \subseteq pools
    /\ st.lastPoolsFingerprint \subseteq enum.pools
    /\ st.cachedRoutingGraph.pools \subseteq enum.pools
    /\ enum.pc = "search" => enum.graph.pools \subseteq enum.pools
    /\ st.cachedCycles \subseteq st.lastPoolsFingerprint

\* The filter, the graph being searched and a cached graph lack no pool of
\* their fingerprint but those turned away by now.
PoolsKept ==
    /\ st.cachedRoutingGraph # NoGraph =>
         NeverTurnedAway(st.lastPoolsFingerprint) \subseteq st.cachedRoutingGraph.pools
    /\ enum.pc = "prefetch" =>
         /\ enum.filtered \subseteq enum.pools
         /\ NeverTurnedAway(enum.pools) \subseteq enum.filtered
    /\ enum.pc = "search" => NeverTurnedAway(enum.pools) \subseteq enum.graph.pools

IInv == TypeOK /\ ReorgsCounted /\ FilterExact /\ PoolOrder /\ PoolsKept

-----------------------------------------------------------------------------
(* Lemmas about the helpers. *)

\* Publishing keeps the types and touches only the snapshot and the validity
\* of the filter.
LEMMA PublishFacts ==
    ASSUME NEW s \in PassLoopState, NEW r, r = publishHfSnapshot(s)
    PROVE  /\ r \in PassLoopState
           /\ r.filter.valid = FALSE
           /\ r.invalidations = s.invalidations
           /\ r.cachedCycles = s.cachedCycles
           /\ r.lastPoolsFingerprint = s.lastPoolsFingerprint
           /\ r.cachedRoutingGraph = s.cachedRoutingGraph
BY DEF publishHfSnapshot, PassLoopState, Views

\* A reorg drops the routing state, and the types leave room for counting it.
LEMMA InvalidateFacts ==
    ASSUME PassLoopConstants, NEW s \in PassLoopState, s.invalidations + 1 \in 0..MaxReorgs,
           NEW r, r = invalidateRoutingOnReorg(s)
    PROVE  /\ r \in PassLoopState
           /\ r.filter.valid = FALSE
           /\ r.invalidations = s.invalidations + 1
           /\ r.cachedCycles = {}
           /\ r.lastPoolsFingerprint = {}
           /\ r.cachedRoutingGraph = NoGraph
<1> DEFINE count == s.invalidations + 1
           dropped == [s EXCEPT !.cachedCycles = {},
                                !.built = count,
                                !.cachedRoutingGraph = NoGraph,
                                !.rebuildCount = 0,
                                !.enumDue = TRUE,
                                !.lastPoolsFingerprint = NoPools,
                                !.lfDue = TRUE,
                                !.filter = [valid |-> FALSE, routes |-> {}],
                                !.invalidations = count]
<1>1. count \in 0..MaxReorgs
  OBVIOUS
<1>2. r = publishHfSnapshot(dropped)
  BY DEF invalidateRoutingOnReorg
<1> HIDE DEF count
<1>3. NoGraph \in Graphs
  BY DEF NoGraph, NoPools, Graphs, PassLoopConstants
<1>4. /\ dropped \in PassLoopState
      /\ dropped.invalidations = count
      /\ dropped.cachedCycles = {}
      /\ dropped.lastPoolsFingerprint = {}
      /\ dropped.cachedRoutingGraph = NoGraph
  <2>1. 0 \in 0..RebuildInterval - 1
    BY DEF PassLoopConstants
  <2> QED
    BY <1>1, <1>3, <2>1 DEF PassLoopState, NoPools
<1> HIDE DEF dropped
<1>5. QED
  BY <1>2, <1>4, PublishFacts DEF count

\* What the enumerations leave behind, and the history, are the same in r as
\* in s; and so are what the HF ticks look at.
SameGraphs(r, s) ==
    /\ r.cachedCycles = s.cachedCycles
    /\ r.lastPoolsFingerprint = s.lastPoolsFingerprint
    /\ r.cachedRoutingGraph = s.cachedRoutingGraph
    /\ r.invalidations = s.invalidations

SameFilter(r, s) == r.snapshot = s.snapshot /\ r.filter = s.filter

\* The timers are only timers.
LEMMA TimerFacts ==
    ASSUME NEW s \in PassLoopState, NEW due \in BOOLEAN, NEW r,
           \/ r = [s EXCEPT !.lfDue = due]
           \/ r = [s EXCEPT !.enumDue = due]
           \/ r = [s EXCEPT !.lfDue = due, !.enumDue = due]
    PROVE  r \in PassLoopState /\ SameGraphs(r, s) /\ SameFilter(r, s)
BY DEF PassLoopState, SameGraphs, SameFilter

\* A completed enumeration installs the cycles it found, its graph and its
\* pools.
LEMMA InstallFacts ==
    ASSUME TypeOK, NEW found \in SUBSET Pools, EnumSearched(found)
    PROVE  /\ st' \in PassLoopState
           /\ st'.filter.valid = FALSE
           /\ st'.invalidations = st.invalidations
           /\ st'.cachedCycles = found
           /\ st'.lastPoolsFingerprint = enum.pools
           /\ st'.cachedRoutingGraph = enum.graph
<1> DEFINE installed == [st EXCEPT !.cachedCycles = found, !.built = enum.built]
           published == publishHfSnapshot(installed)
<1>1. /\ st \in PassLoopState /\ enum.pools \in SUBSET Pools
      /\ enum.graph \in Graphs /\ enum.built \in 0..MaxReorgs
  BY DEF TypeOK
<1>2. /\ installed \in PassLoopState
      /\ installed.invalidations = st.invalidations
      /\ installed.cachedCycles = found
  BY <1>1 DEF PassLoopState
<1>3. st' = [published EXCEPT !.lastPoolsFingerprint = enum.pools,
                              !.enumDue = FALSE,
                              !.cachedRoutingGraph = enum.graph]
  BY DEF EnumSearched, Enumerated
<1> HIDE DEF installed
<1>4. /\ published \in PassLoopState
      /\ published.filter.valid = FALSE
      /\ published.invalidations = st.invalidations
      /\ published.cachedCycles = found
  BY <1>2, PublishFacts
<1> HIDE DEF published
<1> QED
  BY <1>1, <1>3, <1>4 DEF PassLoopState

-----------------------------------------------------------------------------
(* The reports add up. *)

\* The checks are finitely many, so those tracking a reorg can be counted.
LEMMA TrackingFinite ==
    ASSUME PassLoopConstants
    PROVE  /\ IsFiniteSet(Tracking)
           /\ Cardinality(Tracking) \in Nat
<1>1. IsFiniteSet(Checks) /\ Tracking \in SUBSET Checks
  BY DEF Tracking, PassLoopConstants
<1> QED
  BY <1>1, FS_Subset, FS_CardinalityType

\* While a report is held by a check, or another may be made, there is room to
\* count it.
LEMMA RoomToCount ==
    ASSUME PassLoopConstants, TypeOK, ReorgsCounted, reorgs < MaxReorgs \/ Tracking # {}
    PROVE  st.invalidations + 1 \in 0..MaxReorgs
<1>1. /\ st.invalidations \in Nat
      /\ reorgs \in Nat /\ reorgs <= MaxReorgs
      /\ Cardinality(Tracking) \in Nat
  BY TrackingFinite DEF TypeOK, PassLoopState, PassLoopConstants
<1>2. Tracking # {} => Cardinality(Tracking) # 0
  BY TrackingFinite, FS_EmptySet
<1> QED
  BY <1>1, <1>2 DEF ReorgsCounted, PassLoopConstants

\* An action that neither reports a reorg nor invalidates keeps the count.
LEMMA SameCount ==
    ASSUME ReorgsCounted, st.invalidations' = st.invalidations,
           Tracking' = Tracking, UNCHANGED reorgs
    PROVE  ReorgsCounted'
BY DEF ReorgsCounted

-----------------------------------------------------------------------------
(* The inductive invariant. *)

LEMMA InitIInv ==
    ASSUME PassLoopConstants
    PROVE  Init => IInv
<1> SUFFICES ASSUME Init PROVE IInv
  OBVIOUS
<1> USE DEF PassLoopConstants
<1>1. TypeOK
  <2>1. NoGraph \in Graphs
    BY DEF NoGraph, NoPools, Graphs
  <2>2. st \in PassLoopState
    BY <2>1 DEF Init, PassLoopState, Views, NoPools
  <2>3. enum \in [pc : {"idle", "prefetch", "search", "fetch"},
                  pools : SUBSET Pools, filtered : SUBSET Pools, graph : Graphs,
                  built : 0..MaxReorgs]
    BY <2>1 DEF Init
  <2>4. /\ hf \in [pc : {"sleep", "simulate"}, selected : SUBSET Pools]
        /\ lf \in [pc : {"idle", "refresh", "rates"}, pools : SUBSET Pools]
    BY DEF Init
  <2>5. /\ check \in [Checks -> {"idle", "tip", "track"}]
        /\ quarantine \in [Pools -> {"none", "held", "expired"}]
    BY DEF Init
  <2>6. /\ pools \subseteq Pools /\ tier \in Tiers
        /\ reorgs \in 0..MaxReorgs /\ failures \in 0..MaxFailures
    BY DEF Init, Tiers
  <2>7. paused \in BOOLEAN /\ passes \in [Pools -> {"always", "no", "again"}]
    BY DEF Init
  <2> QED
    BY <2>2, <2>3, <2>4, <2>5, <2>6, <2>7 DEF TypeOK
<1>2. ReorgsCounted
  <2>1. Tracking = {}
    BY DEF Init, Tracking
  <2>2. st.invalidations = 0 /\ reorgs = 0
    BY DEF Init
  <2> QED
    BY <2>1, <2>2, FS_EmptySet DEF ReorgsCounted
<1>3. FilterExact /\ PoolOrder /\ PoolsKept
  BY DEF Init, FilterExact, PoolOrder, PoolsKept, NoGraph, NoPools
<1> QED
  BY <1>1, <1>2, <1>3 DEF IInv

LEMMA NextIInv ==
    ASSUME PassLoopConstants
    PROVE  IInv /\ [Next]_vars => IInv'
<1> SUFFICES ASSUME IInv, [Next]_vars PROVE IInv'
  OBVIOUS
<1> USE DEF IInv, PassLoopConstants
<1>1. ASSUME Iterate
      PROVE  IInv'
  <2>1. LfStarted \in PassLoopState /\ SameGraphs(LfStarted, st) /\ SameFilter(LfStarted, st)
    <3>1. st \in PassLoopState /\ st.lfDue \in BOOLEAN
      BY DEF TypeOK, PassLoopState
    <3>2. PICK due \in BOOLEAN : LfStarted = [st EXCEPT !.lfDue = due]
      BY <3>1 DEF LfStarted
    <3> QED
      BY <3>1, <3>2, TimerFacts
  <2>2. /\ st' \in PassLoopState /\ SameGraphs(st', st)
       /\ st'.snapshot = st.snapshot
       /\ hf' \in [pc : {"sleep", "simulate"}, selected : SUBSET Pools]
       /\ quarantine' \in [Pools -> {"none", "held", "expired"}]
       /\ FilterExact'
    <3>1. CASE ~shouldSimulate
      BY <1>1, <2>1, <3>1 DEF Iterate, SameFilter, FilterExact, TypeOK
    <3>2. CASE shouldSimulate /\ LfStarted.filter.valid
      <4>1. st' = LfStarted /\ UNCHANGED quarantine
        BY <1>1, <3>2 DEF Iterate, getActiveCycleIndices
      <4>2. hf' = [pc |-> "simulate", selected |-> LfStarted.filter.routes]
        BY <1>1, <3>2 DEF Iterate, getActiveCycleIndices
      <4>3. LfStarted.filter.routes \in SUBSET Pools
        BY <2>1 DEF PassLoopState
      <4> QED
        BY <2>1, <4>1, <4>2, <4>3 DEF SameFilter, FilterExact, TypeOK
    <3>3. CASE shouldSimulate /\ ~LfStarted.filter.valid
      <4> DEFINE cycles == LfStarted.snapshot.routes
                 routes == cycles \ Held(cycles)
      <4>1. /\ hf' = [pc |-> "simulate", selected |-> routes]
            /\ st' = [LfStarted EXCEPT !.filter = [valid |-> TRUE, routes |-> routes]]
            /\ quarantine' = [r \in Pools |-> IF r \in Lifted(cycles) THEN "none"
                                                                     ELSE quarantine[r]]
        BY <1>1, <3>3 DEF Iterate, getActiveCycleIndices
      <4>2. cycles \in SUBSET Pools /\ routes \in SUBSET Pools
        BY <2>1 DEF PassLoopState, Views
      <4>3. routes = {r \in cycles : quarantine'[r] = "none"}
        BY <4>1, <4>2 DEF Lifted, Held, TypeOK
      <4>4. quarantine' \in [Pools -> {"none", "held", "expired"}]
        BY <4>1 DEF TypeOK
      <4>5. cycles = st.snapshot.routes
        BY <2>1 DEF SameFilter
      <4> HIDE DEF routes, cycles
      <4>6. /\ st' \in PassLoopState /\ SameGraphs(st', LfStarted)
            /\ st'.snapshot = LfStarted.snapshot
            /\ st'.filter = [valid |-> TRUE, routes |-> routes]
        BY <2>1, <4>1, <4>2 DEF PassLoopState, SameGraphs
      <4>7. st'.snapshot = st.snapshot
        BY <2>1, <4>6 DEF SameFilter
      <4>8. FilterExact'
        BY <4>3, <4>5, <4>6, <4>7 DEF FilterExact
      <4> QED
        BY <2>1, <4>1, <4>2, <4>4, <4>6, <4>7, <4>8 DEF SameGraphs
    <3> QED
      BY <3>1, <3>2, <3>3
  <2>3. lf' = lf \/ lf' = [pc |-> "refresh", pools |-> {}]
    BY <1>1 DEF Iterate, StartLfTick
  <2>4. TypeOK'
    BY <1>1, <2>2, <2>3 DEF Iterate, TypeOK
  <2>5. ReorgsCounted'
    BY <1>1, <2>2, SameCount DEF Iterate, SameGraphs, Tracking
  <2>6. PoolOrder' /\ PoolsKept'
    BY <1>1, <2>2, <2>3 DEF Iterate, SameGraphs, PoolOrder, PoolsKept, NeverTurnedAway
  <2>7. FilterExact'
    BY <2>2
  <2> QED
    BY <2>1, <2>2, <2>3, <2>4, <2>5, <2>6, <2>7 DEF IInv
<1>2. ASSUME NEW failed \in SUBSET hf.selected,
             NEW succeeded \in SUBSET (hf.selected \ failed),
             FinishHfTick(failed, succeeded)
      PROVE  IInv'
  <2>1. TypeOK'
    BY <1>2 DEF FinishHfTick, bumpRevision, TypeOK, PassLoopState, Graphs, Views
  <2>2. ReorgsCounted'
    BY <1>2, SameCount DEF FinishHfTick, bumpRevision, Tracking
  <2>3. FilterExact'
    BY <1>2 DEF FinishHfTick, bumpRevision, FilterExact, TypeOK, PassLoopState, Graphs, Views
  <2>4. PoolOrder' /\ PoolsKept'
    BY <1>2 DEF FinishHfTick, bumpRevision, PoolOrder, PoolsKept, NeverTurnedAway, TypeOK, PassLoopState, Graphs, Views
  <2> QED
    BY <2>1, <2>2, <2>3, <2>4 DEF IInv
<1>3. ASSUME LfRefreshed
      PROVE  IInv'
  <2>1. st' \in PassLoopState /\ SameGraphs(st', st) /\ SameFilter(st', st)
    BY <1>3, TimerFacts DEF LfRefreshed, TypeOK
  <2>2. TypeOK'
    BY <1>3, <2>1 DEF LfRefreshed, TypeOK
  <2>3. Tracking' = Tracking
    BY <1>3 DEF LfRefreshed, Tracking, TypeOK
  <2>4. ReorgsCounted'
    BY <1>3, <2>1, <2>3, SameCount DEF LfRefreshed, SameGraphs
  <2>5. FilterExact'
    BY <1>3, <2>1 DEF LfRefreshed, SameFilter, FilterExact
  <2>6. PoolOrder' /\ PoolsKept'
    BY <1>3, <2>1 DEF LfRefreshed, SameGraphs, PoolOrder, PoolsKept, NeverTurnedAway, TypeOK
  <2> QED
    BY <2>1, <2>2, <2>3, <2>4, <2>5, <2>6 DEF IInv
<1>4. ASSUME NEW grew \in BOOLEAN, LfPublished(grew)
      PROVE  IInv'
  <2>1. st' \in PassLoopState /\ SameGraphs(st', st) /\ st'.filter.valid = FALSE
    BY <1>4, PublishFacts DEF LfPublished, SameGraphs, TypeOK
  <2>2. /\ enum' \in [pc : {"idle", "prefetch", "search", "fetch"},
                  pools : SUBSET Pools, filtered : SUBSET Pools, graph : Graphs,
                  built : 0..MaxReorgs]
       /\ \/ enum' = enum
          \/ /\ enum'.pc = "prefetch" /\ enum'.pools = lf.pools
             /\ enum'.filtered = Routable(lf.pools)
    BY <1>4 DEF LfPublished, TypeOK, Routable
  <2>3. lf' = [pc |-> "idle", pools |-> {}] /\ lf.pc = "rates"
    BY <1>4 DEF LfPublished
  <2>4. TypeOK'
    BY <1>4, <2>1, <2>2, <2>3 DEF LfPublished, TypeOK
  <2>5. ReorgsCounted'
    BY <1>4, <2>1, SameCount DEF LfPublished, SameGraphs, Tracking
  <2>6. FilterExact'
    BY <2>1 DEF FilterExact
  <2>7. PoolOrder' /\ PoolsKept'
    <3>1. PoolOrder'
      BY <1>4, <2>1, <2>2, <2>3 DEF LfPublished, SameGraphs, PoolOrder
    <3>2. NeverTurnedAway(lf.pools) \subseteq Routable(lf.pools)
          /\ Routable(lf.pools) \subseteq lf.pools
      BY DEF NeverTurnedAway, Routable
    <3>3. UNCHANGED passes
      BY <1>4 DEF LfPublished
    <3>4. CASE enum' = enum
      BY <2>1, <3>1, <3>3, <3>4 DEF SameGraphs, PoolsKept, NeverTurnedAway
    <3>5. CASE /\ enum'.pc = "prefetch" /\ enum'.pools = lf.pools
               /\ enum'.filtered = Routable(lf.pools)
      BY <2>1, <3>1, <3>2, <3>3, <3>5 DEF SameGraphs, PoolsKept, NeverTurnedAway
    <3> QED
      BY <2>2, <3>1, <3>4, <3>5
  <2> QED
    BY <2>1, <2>2, <2>3, <2>4, <2>5, <2>6, <2>7 DEF IInv
<1>5. ASSUME LfFailed \/ EnumFailed \/ EnumFetched
      PROVE  IInv'
  <2>1. TypeOK'
    BY <1>5 DEF LfFailed, EnumFailed, EnumFetched, TypeOK, PassLoopState, Graphs, Views
  <2>2. ReorgsCounted'
    BY <1>5, SameCount DEF LfFailed, EnumFailed, EnumFetched, Tracking
  <2>3. FilterExact'
    BY <1>5 DEF LfFailed, EnumFailed, EnumFetched, FilterExact, TypeOK, PassLoopState, Graphs, Views
  <2>4. PoolOrder' /\ PoolsKept'
    BY <1>5 DEF LfFailed, EnumFailed, EnumFetched, PoolOrder, PoolsKept, NeverTurnedAway, TypeOK, PassLoopState, Graphs, Views
  <2> QED
    BY <2>1, <2>2, <2>3, <2>4 DEF IInv
<1>6. ASSUME NEW garbage \in SUBSET Pools, EnumGraph(garbage)
      PROVE  IInv'
  <2> DEFINE graph == IF UseIncrementalGraph THEN st.cachedRoutingGraph
                      ELSE [pools |-> enum.filtered \ garbage, built |-> st.invalidations]
             count == IF RebuildAsked THEN RebuildCounted
                      ELSE IF poolSetStable THEN st.rebuildCount ELSE 0
  <2>1. /\ enum.pc = "prefetch"
        /\ garbage \subseteq Pools \ Routable(Pools)
        /\ st' = [st EXCEPT !.cachedRoutingGraph = graph, !.rebuildCount = count]
        /\ enum' = [enum EXCEPT !.pc = "search", !.filtered = {}, !.graph = graph,
                                !.built = st.invalidations]
        /\ UNCHANGED <<pools, passes, tier, paused, hf, lf, check, quarantine, reorgs,
                       failures>>
    BY <1>6 DEF EnumGraph
  <2>2. graph \in Graphs /\ graph # NoGraph
    BY DEF UseIncrementalGraph, RebuildAsked, TypeOK, PassLoopState, Graphs, NoGraph, NoPools
  <2>3. count \in 0..RebuildInterval - 1
    BY DEF RebuildCounted, TypeOK, PassLoopState
  <2>4. graph.pools \subseteq enum.pools /\ NeverTurnedAway(enum.pools) \subseteq graph.pools
    <3>1. CASE UseIncrementalGraph
      <4>1. enum.pools = st.lastPoolsFingerprint /\ st.cachedRoutingGraph # NoGraph
        BY <3>1 DEF UseIncrementalGraph, RebuildAsked, poolSetStable
      <4> QED
        BY <3>1, <4>1 DEF PoolOrder, PoolsKept
    <3>2. CASE ~UseIncrementalGraph
      <4>1. \A p \in NeverTurnedAway(enum.pools) : p \notin garbage
        BY <2>1 DEF NeverTurnedAway, Routable, TypeOK
      <4>2. /\ enum.filtered \subseteq enum.pools
            /\ NeverTurnedAway(enum.pools) \subseteq enum.filtered
        BY <2>1 DEF PoolsKept
      <4> QED
        BY <3>2, <4>1, <4>2
    <3> QED
      BY <3>1, <3>2
  <2> HIDE DEF graph, count
  <2>5. /\ st' \in PassLoopState /\ SameFilter(st', st)
        /\ st'.cachedCycles = st.cachedCycles
        /\ st'.lastPoolsFingerprint = st.lastPoolsFingerprint
        /\ st'.cachedRoutingGraph = graph
        /\ st'.invalidations = st.invalidations
    BY <2>1, <2>2, <2>3 DEF SameFilter, TypeOK, PassLoopState
  <2>6. /\ enum' \in [pc : {"idle", "prefetch", "search", "fetch"},
                       pools : SUBSET Pools, filtered : SUBSET Pools, graph : Graphs,
                       built : 0..MaxReorgs]
        /\ enum'.pc = "search" /\ enum'.pools = enum.pools /\ enum'.graph = graph
    BY <2>1, <2>2 DEF TypeOK, PassLoopState
  <2>7. TypeOK'
    BY <2>1, <2>5, <2>6 DEF TypeOK
  <2>8. ReorgsCounted'
    BY <2>1, <2>5, SameCount DEF Tracking
  <2>9. FilterExact'
    BY <2>1, <2>5 DEF SameFilter, FilterExact
  <2>10. PoolOrder'
    BY <2>1, <2>4, <2>5, <2>6 DEF PoolOrder
  <2>11. PoolsKept'
    <3>1. /\ NeverTurnedAway(enum.pools)' = NeverTurnedAway(enum.pools)
          /\ NeverTurnedAway(st.lastPoolsFingerprint)' \subseteq NeverTurnedAway(enum.pools)
      BY <2>1, <2>5, <2>6 DEF NeverTurnedAway, PoolOrder
    <3> QED
      BY <2>4, <2>5, <2>6, <3>1 DEF PoolsKept
  <2> QED
    BY <2>7, <2>8, <2>9, <2>10, <2>11 DEF IInv
<1>7. ASSUME NEW found \in SUBSET Pools, EnumSearched(found)
      PROVE  IInv'
  <2>1. /\ st' \in PassLoopState
       /\ st'.filter.valid = FALSE
       /\ st'.invalidations = st.invalidations
       /\ st'.cachedCycles = found
       /\ st'.lastPoolsFingerprint = enum.pools
       /\ st'.cachedRoutingGraph = enum.graph
    BY <1>7, InstallFacts
  <2>2. TypeOK'
    BY <1>7, <2>1 DEF EnumSearched, TypeOK
  <2>3. ReorgsCounted'
    BY <1>7, <2>1, SameCount DEF EnumSearched, Tracking
  <2>4. FilterExact'
    BY <2>1 DEF FilterExact
  <2>5. /\ enum'.pools = enum.pools /\ enum'.pc # "search"
       /\ enum.graph.pools \subseteq enum.pools /\ found \subseteq enum.pools
       /\ NeverTurnedAway(enum.pools) \subseteq enum.graph.pools
       /\ enum'.pc # "prefetch"
    BY <1>7 DEF EnumSearched, TypeOK, PoolOrder, PoolsKept
  <2>6. PoolOrder' /\ PoolsKept'
    BY <1>7, <2>1, <2>5 DEF EnumSearched, PoolOrder, PoolsKept, NeverTurnedAway
  <2> QED
    BY <2>1, <2>2, <2>3, <2>4, <2>5, <2>6 DEF IInv
<1>8. ASSUME NEW c \in Checks, CheckAnswered(c)
      PROVE  IInv'
  <2>1. TypeOK'
    BY <1>8 DEF CheckAnswered, TypeOK
  <2>2. ReorgsCounted'
    <3>1. CASE UNCHANGED reorgs /\ check' = [check EXCEPT ![c] = "idle"]
      <4>1. Tracking' = Tracking
        BY <1>8, <3>1 DEF CheckAnswered, Tracking, TypeOK
      <4> QED
        BY <1>8, <3>1, <4>1, SameCount DEF CheckAnswered
    <3>2. CASE reorgs' = reorgs + 1 /\ check' = [check EXCEPT ![c] = "track"]
      <4> DEFINE tracked == Cardinality(Tracking)
                 dropped == st.invalidations
      <4>1. Tracking' = Tracking \cup {c} /\ c \notin Tracking
        BY <1>8, <3>2 DEF CheckAnswered, Tracking, TypeOK
      <4>2. tracked' = tracked + 1
        BY <4>1, TrackingFinite, FS_AddElement
      <4>3. dropped' = dropped
        BY <1>8 DEF CheckAnswered
      <4>4. tracked \in Nat /\ dropped \in Nat
        BY TrackingFinite DEF TypeOK, PassLoopState
      <4>5. dropped + tracked = reorgs
        BY DEF ReorgsCounted
      <4> HIDE DEF tracked, dropped
      <4>6. dropped' + tracked' = reorgs'
        BY <3>2, <4>2, <4>3, <4>4, <4>5
      <4> QED
        BY <4>6 DEF ReorgsCounted, tracked, dropped
    <3> QED
      BY <1>8, <3>1, <3>2 DEF CheckAnswered
  <2>3. FilterExact'
    BY <1>8 DEF CheckAnswered, FilterExact
  <2>4. PoolOrder' /\ PoolsKept'
    BY <1>8 DEF CheckAnswered, PoolOrder, PoolsKept, NeverTurnedAway
  <2> QED
    BY <2>1, <2>2, <2>3, <2>4 DEF IInv
<1>9. ASSUME NEW c \in Checks, CheckInvalidates(c)
      PROVE  IInv'
  <2>1. c \in Tracking
    BY <1>9 DEF CheckInvalidates, Tracking
  <2>2. /\ st' \in PassLoopState
       /\ st'.filter.valid = FALSE
       /\ st'.invalidations = st.invalidations + 1
       /\ st'.cachedCycles = {}
       /\ st'.lastPoolsFingerprint = {}
       /\ st'.cachedRoutingGraph = NoGraph
    BY <1>9, <2>1, RoomToCount, InvalidateFacts DEF CheckInvalidates, TypeOK
  <2>3. TypeOK'
    BY <1>9, <2>2 DEF CheckInvalidates, TypeOK
  <2>4. ReorgsCounted'
    <3> DEFINE tracked == Cardinality(Tracking)
               dropped == st.invalidations
    <3>1. Tracking' = Tracking \ {c}
      BY <1>9 DEF CheckInvalidates, Tracking, TypeOK
    <3>2. tracked' = tracked - 1
      BY <2>1, <3>1, TrackingFinite, FS_RemoveElement
    <3>3. dropped' = dropped + 1 /\ reorgs' = reorgs
      BY <1>9, <2>2 DEF CheckInvalidates
    <3>4. tracked \in Nat /\ dropped \in Nat
      BY TrackingFinite DEF TypeOK, PassLoopState
    <3>5. dropped + tracked = reorgs
      BY DEF ReorgsCounted
    <3> HIDE DEF tracked, dropped
    <3>6. dropped' + tracked' = reorgs'
      BY <3>2, <3>3, <3>4, <3>5
    <3> QED
      BY <3>6 DEF ReorgsCounted, tracked, dropped
  <2>5. FilterExact'
    BY <2>2 DEF FilterExact
  <2>6. PoolOrder' /\ PoolsKept'
    BY <1>9, <2>2 DEF CheckInvalidates, PoolOrder, PoolsKept, NeverTurnedAway, NoGraph, NoPools
  <2> QED
    BY <2>1, <2>2, <2>3, <2>4, <2>5, <2>6 DEF IInv
<1>10. ASSUME NewHeadMismatch
      PROVE  IInv'
  <2>1. /\ st' \in PassLoopState
       /\ st'.filter.valid = FALSE
       /\ st'.invalidations = st.invalidations + 1
       /\ st'.cachedCycles = {}
       /\ st'.lastPoolsFingerprint = {}
       /\ st'.cachedRoutingGraph = NoGraph
    BY <1>10, RoomToCount, InvalidateFacts DEF NewHeadMismatch, TypeOK
  <2>2. TypeOK'
    BY <1>10, <2>1 DEF NewHeadMismatch, TypeOK
  <2>3. ReorgsCounted'
    <3> DEFINE tracked == Cardinality(Tracking)
               dropped == st.invalidations
    <3>1. tracked' = tracked /\ reorgs' = reorgs + 1
      BY <1>10 DEF NewHeadMismatch, Tracking
    <3>2. dropped' = dropped + 1
      BY <2>1
    <3>3. tracked \in Nat /\ dropped \in Nat
      BY TrackingFinite DEF TypeOK, PassLoopState
    <3>4. dropped + tracked = reorgs
      BY DEF ReorgsCounted
    <3> HIDE DEF tracked, dropped
    <3>5. dropped' + tracked' = reorgs'
      BY <3>1, <3>2, <3>3, <3>4
    <3> QED
      BY <3>5 DEF ReorgsCounted, tracked, dropped
  <2>4. FilterExact'
    BY <2>1 DEF FilterExact
  <2>5. PoolOrder' /\ PoolsKept'
    BY <1>10, <2>1 DEF NewHeadMismatch, PoolOrder, PoolsKept, NeverTurnedAway, NoGraph, NoPools
  <2> QED
    BY <2>1, <2>2, <2>3, <2>4, <2>5 DEF IInv
<1>11. ASSUME Signal \/ LfIntervalElapses \/ EnumIntervalElapses
      PROVE  IInv'
  <2>1. st' \in PassLoopState /\ SameGraphs(st', st) /\ SameFilter(st', st)
    BY <1>11, TimerFacts DEF Signal, LfIntervalElapses, EnumIntervalElapses, TypeOK
  <2>2. TypeOK'
    BY <1>11, <2>1 DEF Signal, LfIntervalElapses, EnumIntervalElapses, TypeOK
  <2>3. Tracking' = Tracking
    BY <1>11 DEF Signal, LfIntervalElapses, EnumIntervalElapses, Tracking, TypeOK
  <2>4. ReorgsCounted'
    BY <1>11, <2>1, <2>3, SameCount DEF Signal, LfIntervalElapses, EnumIntervalElapses, SameGraphs
  <2>5. FilterExact'
    BY <1>11, <2>1 DEF Signal, LfIntervalElapses, EnumIntervalElapses, SameFilter, FilterExact
  <2>6. PoolOrder' /\ PoolsKept'
    BY <1>11, <2>1 DEF Signal, LfIntervalElapses, EnumIntervalElapses, SameGraphs, PoolOrder, PoolsKept, NeverTurnedAway
  <2> QED
    BY <2>1, <2>2, <2>3, <2>4, <2>5, <2>6 DEF IInv
<1>12. ASSUME NEW p \in Pools, Discover(p)
      PROVE  IInv'
  <2>1. TypeOK'
    BY <1>12 DEF Discover, TypeOK, PassLoopState, Graphs, Views
  <2>2. ReorgsCounted'
    BY <1>12, SameCount DEF Discover, Tracking
  <2>3. FilterExact'
    BY <1>12 DEF Discover, FilterExact, TypeOK, PassLoopState, Graphs, Views
  <2>4. PoolOrder' /\ PoolsKept'
    BY <1>12 DEF Discover, PoolOrder, PoolsKept, NeverTurnedAway, TypeOK, PassLoopState, Graphs, Views
  <2> QED
    BY <2>1, <2>2, <2>3, <2>4 DEF IInv
<1>13. ASSUME NEW p \in Pools, FilterTurns(p)
       PROVE  IInv'
  <2>1. /\ passes' \in [Pools -> {"always", "no", "again"}]
        /\ \A q \in Pools : passes'[q] = "always" => passes[q] = "always"
        /\ UNCHANGED <<pools, tier, paused, st, hf, lf, enum, check, quarantine, reorgs,
                       failures>>
    BY <1>13 DEF FilterTurns, TypeOK
  <2>2. TypeOK'
    BY <2>1 DEF TypeOK, PassLoopState, Graphs, Views
  <2>3. ReorgsCounted'
    BY <2>1, SameCount DEF Tracking
  <2>4. FilterExact' /\ PoolOrder'
    BY <2>1 DEF FilterExact, PoolOrder
  <2>5. PoolsKept'
    <3>1. st.lastPoolsFingerprint \in SUBSET Pools /\ enum.pools \in SUBSET Pools
      BY DEF TypeOK, PassLoopState
    <3>2. /\ NeverTurnedAway(st.lastPoolsFingerprint)'
               \subseteq NeverTurnedAway(st.lastPoolsFingerprint)
          /\ NeverTurnedAway(enum.pools)' \subseteq NeverTurnedAway(enum.pools)
      BY <2>1, <3>1 DEF NeverTurnedAway
    <3> QED
      BY <2>1, <3>2 DEF PoolsKept
  <2> QED
    BY <2>2, <2>3, <2>4, <2>5 DEF IInv
<1>14. ASSUME TogglePause \/ \E t \in Tiers : AssessTier(t)
      PROVE  IInv'
  <2>1. TypeOK'
    <3>1. CASE TogglePause
      <4>1. paused' \in BOOLEAN
        BY <3>1 DEF TogglePause, TypeOK
      <4> QED
        BY <3>1, <4>1 DEF TogglePause, TypeOK, PassLoopState, Graphs, Views
    <3>2. CASE \E t \in Tiers : AssessTier(t)
      BY <3>2 DEF AssessTier, TypeOK, PassLoopState, Graphs, Views
    <3> QED
      BY <1>14, <3>1, <3>2
  <2>2. ReorgsCounted'
    BY <1>14, SameCount DEF TogglePause, AssessTier, Tracking
  <2>3. FilterExact'
    BY <1>14 DEF TogglePause, AssessTier, FilterExact, TypeOK, PassLoopState, Graphs, Views
  <2>4. PoolOrder' /\ PoolsKept'
    BY <1>14 DEF TogglePause, AssessTier, PoolOrder, PoolsKept, NeverTurnedAway, TypeOK, PassLoopState, Graphs, Views
  <2> QED
    BY <2>1, <2>2, <2>3, <2>4 DEF IInv
<1>15. ASSUME NEW r \in Pools, RetryTimeComes(r)
      PROVE  IInv'
  <2>1. TypeOK'
    BY <1>15 DEF RetryTimeComes, TypeOK, PassLoopState, Graphs, Views
  <2>2. ReorgsCounted'
    BY <1>15, SameCount DEF RetryTimeComes, Tracking
  <2>3. FilterExact'
    BY <1>15 DEF RetryTimeComes, FilterExact, TypeOK, PassLoopState, Graphs, Views
  <2>4. PoolOrder' /\ PoolsKept'
    BY <1>15 DEF RetryTimeComes, PoolOrder, PoolsKept, NeverTurnedAway, TypeOK, PassLoopState, Graphs, Views
  <2> QED
    BY <2>1, <2>2, <2>3, <2>4 DEF IInv
<1>16. ASSUME UNCHANGED vars
      PROVE  IInv'
  <2>1. TypeOK'
    BY <1>16 DEF vars, TypeOK, PassLoopState, Graphs, Views
  <2>2. ReorgsCounted'
    BY <1>16, SameCount DEF vars, Tracking
  <2>3. FilterExact'
    BY <1>16 DEF vars, FilterExact, TypeOK, PassLoopState, Graphs, Views
  <2>4. PoolOrder' /\ PoolsKept'
    BY <1>16 DEF vars, PoolOrder, PoolsKept, NeverTurnedAway, TypeOK, PassLoopState, Graphs, Views
  <2> QED
    BY <2>1, <2>2, <2>3, <2>4 DEF IInv
<1> QED
  BY <1>1, <1>2, <1>3, <1>4, <1>5, <1>6, <1>7, <1>8, <1>9, <1>10, <1>11,
     <1>12, <1>13, <1>14, <1>15, <1>16
     DEF Next, HfTickEnds, LfSteps, EnumSteps, CheckSteps

-----------------------------------------------------------------------------
(* The theorems. *)

\* The strengthened invariant holds in every state.
THEOREM PassLoopInvariant ==
    ASSUME PassLoopConstants
    PROVE  Spec => []IInv
BY InitIInv, NextIInv, PTL DEF Spec

\* The shared state keeps its types, and the routing state is dropped at most
\* once per report of the detector, however many checks overlap (pass_reorg.ts).
THEOREM PassLoopTypeCorrect ==
    ASSUME PassLoopConstants
    PROVE  Spec => []TypeOK
<1>1. IInv => TypeOK
  BY DEF IInv
<1> QED
  BY <1>1, PassLoopInvariant, PTL

\* A filter that getActiveCycleIndices would reuse is the one it would compute.
THEOREM FilterAlwaysExact ==
    ASSUME PassLoopConstants
    PROVE  Spec => []FilterExact
<1>1. IInv => FilterExact
  BY DEF IInv
<1> QED
  BY <1>1, PassLoopInvariant, PTL

\* The graph the enumeration patches in place has pools of its own only, and
\* misses none of them but those filterPoolsForRouting has turned away at some
\* time (pass_lf.ts); and the cached cycles lie within the recorded fingerprint.
THEOREM IncrementalGraphSound ==
    ASSUME PassLoopConstants
    PROVE  Spec => []IncrementalGraphMatchesPools
<1>1. IInv => IncrementalGraphMatchesPools
  BY DEF IInv, PoolOrder, PoolsKept, IncrementalGraphMatchesPools,
         UseIncrementalGraph, RebuildAsked, poolSetStable
<1> QED
  BY <1>1, PassLoopInvariant, PTL

-----------------------------------------------------------------------------
(* The reorg detector.  A list of tracked blocks: within its limit, with one entry per height.     *)
GoodList(tb) ==
  /\ tb \in Seq(Blocks) /\ Len(tb) <= MaxTracked
  /\ \A i, j \in 1..Len(tb) : tb[i].number = tb[j].number => i = j

(* A block that the chain has, or had where it has replaced one.              *)
OnChain(b) ==
  /\ b \in Blocks /\ b.number <= Len(chain)
  /\ chain[b.number] = b.fork \/ b.number \in replaced
OnChainList(tb) == \A i \in 1..Len(tb) : OnChain(tb[i])

(* What a check holds of blocks; an answer is of the height asked for.        *)
CheckHeld(c) ==
  /\ checks[c].tip # NoBlock => OnChain(checks[c].tip)
  /\ checks[c].tracked # NoBlock => OnChain(checks[c].tracked)
  /\ checks[c].answer # NoBlock => OnChain(checks[c].answer)
  /\ checks[c].pc \in {"walk", "walkRead"} => checks[c].tracked # NoBlock
  /\ checks[c].pc = "walkRead" /\ checks[c].answer # NoBlock
       => checks[c].answer.number = checks[c].tracked.number
  /\ checks[c].pc = "parent" => checks[c].tip # NoBlock

ReorgInv ==
  /\ ReorgDetectorTypeOK
  /\ OnChainList(trackedBlocks)
  /\ \A c \in CheckSlots : CheckHeld(c)
  /\ ReportsReal

-----------------------------------------------------------------------------
(* Lists.                                                                     *)

(* Some entries of a good list are a good list of those entries.              *)
LEMMA KeptGood ==
  ASSUME ReorgDetectorConstants, NEW tb, GoodList(tb), NEW places \in SUBSET (1..Len(tb))
  PROVE  /\ GoodList(Kept(tb, places))
         /\ \A k \in 1..Len(Kept(tb, places)) :
              \E i \in 1..Len(tb) : Kept(tb, places)[k] = tb[i]
<1> DEFINE kept == Kept(tb, places)
<1>1. /\ tb \in Seq(Blocks) /\ Len(tb) \in Nat /\ Len(tb) <= MaxTracked
      /\ \A i, j \in 1..Len(tb) : tb[i].number = tb[j].number => i = j
  BY DEF GoodList
<1>2. kept \in Seq(Blocks) /\ Len(kept) <= Len(tb)
  BY <1>1, KeptEntries
<1>3. PICK at \in [1..Len(kept) -> places] :
        /\ \A k \in 1..Len(kept) : kept[k] = tb[at[k]]
        /\ \A k, m \in 1..Len(kept) : at[k] = at[m] => k = m
  BY <1>1, KeptEntries
<1> HIDE DEF kept
<1>4. \A k \in 1..Len(kept) : at[k] \in 1..Len(tb)
  BY <1>3
<1>5. \A k, m \in 1..Len(kept) : kept[k].number = kept[m].number => k = m
  BY <1>1, <1>3, <1>4
<1>6. Len(kept) <= MaxTracked
  BY <1>1, <1>2 DEF ReorgDetectorConstants
<1>7. GoodList(kept)
  BY <1>2, <1>5, <1>6 DEF GoodList
<1> QED
  BY <1>3, <1>4, <1>7 DEF kept

(* What is pruned is a good list of entries there were.                       *)
LEMMA PrunedGood ==
  ASSUME ReorgDetectorConstants, NEW tb, GoodList(tb), OnChainList(tb), NEW n
  PROVE  GoodList(PrunedFrom(tb, n)) /\ OnChainList(PrunedFrom(tb, n))
<1> DEFINE places == {i \in 1..Len(tb) : tb[i].number < n}
<1>1. places \in SUBSET (1..Len(tb)) /\ PrunedFrom(tb, n) = Kept(tb, places)
  BY DEF PrunedFrom
<1> HIDE DEF places
<1> QED
  BY <1>1, KeptGood DEF OnChainList

(* A list with a block tracked is a good list of what there was and of it.    *)
LEMMA TrackedGood ==
  ASSUME ReorgDetectorConstants, NEW tb, GoodList(tb), OnChainList(tb),
         NEW b \in Blocks, OnChain(b)
  PROVE  GoodList(TrackedWith(tb, b)) /\ OnChainList(TrackedWith(tb, b))
<1>1. /\ tb \in Seq(Blocks) /\ Len(tb) \in Nat /\ Len(tb) <= MaxTracked
      /\ \A i, j \in 1..Len(tb) : tb[i].number = tb[j].number => i = j
      /\ MaxTracked \in Nat \ {0}
  BY DEF GoodList, ReorgDetectorConstants
<1>2. CASE TrackedAt(tb, b.number) # {}
  <2>1. TrackedWith(tb, b) = [i \in 1..Len(tb) |-> IF tb[i].number = b.number THEN b ELSE tb[i]]
    BY <1>2 DEF TrackedWith
  <2>2. TrackedWith(tb, b) \in Seq(Blocks) /\ Len(TrackedWith(tb, b)) = Len(tb)
    BY <1>1, <2>1
  <2>3. \A i \in 1..Len(tb) : /\ TrackedWith(tb, b)[i].number = tb[i].number
                              /\ TrackedWith(tb, b)[i] \in {b, tb[i]}
    BY <2>1
  <2> QED
    BY <1>1, <2>2, <2>3 DEF GoodList, OnChainList
<1>3. CASE TrackedAt(tb, b.number) = {}
  <2>1. \A i \in 1..Len(tb) : tb[i].number # b.number
    BY <1>3 DEF TrackedAt, Entries
  <2>2. CASE Len(tb) = MaxTracked
    <3> DEFINE new == Append(Tail(tb), b)
    <3>1. TrackedWith(tb, b) = new
      BY <1>3, <2>2 DEF TrackedWith
    <3>2. /\ new \in Seq(Blocks) /\ Len(new) = Len(tb)
          /\ \A i \in 1..(Len(tb) - 1) : new[i] = tb[i + 1]
          /\ new[Len(tb)] = b
      BY <1>1, <2>2
    <3> HIDE DEF new
    <3>3. \A i \in 1..Len(tb) : i # Len(tb) => i \in 1..(Len(tb) - 1) /\ i + 1 \in 1..Len(tb)
      BY <1>1
    <3>4. \A i, j \in 1..Len(tb) : new[i].number = new[j].number => i = j
      <4> SUFFICES ASSUME NEW i \in 1..Len(tb), NEW j \in 1..Len(tb),
                          new[i].number = new[j].number
                   PROVE  i = j
        OBVIOUS
      <4>1. CASE i # Len(tb) /\ j # Len(tb)
        BY <1>1, <3>2, <3>3, <4>1
      <4>2. CASE i = Len(tb) \/ j = Len(tb)
        BY <2>1, <3>2, <3>3, <4>2
      <4> QED
        BY <4>1, <4>2
    <3>5. \A i \in 1..Len(tb) : OnChain(new[i])
      BY <3>2, <3>3 DEF OnChainList
    <3> QED
      BY <1>1, <3>1, <3>2, <3>4, <3>5 DEF GoodList, OnChainList
  <2>3. CASE Len(tb) # MaxTracked
    <3> DEFINE new == Append(tb, b)
    <3>1. TrackedWith(tb, b) = new
      BY <1>3, <2>3 DEF TrackedWith
    <3>2. /\ new \in Seq(Blocks) /\ Len(new) = Len(tb) + 1
          /\ \A i \in 1..Len(tb) : new[i] = tb[i]
          /\ new[Len(tb) + 1] = b
      BY <1>1
    <3> HIDE DEF new
    <3>3. \A i \in 1..(Len(tb) + 1) : i # Len(tb) + 1 => i \in 1..Len(tb)
      BY <1>1
    <3>4. \A i, j \in 1..(Len(tb) + 1) : new[i].number = new[j].number => i = j
      BY <1>1, <2>1, <3>2, <3>3
    <3>5. \A i \in 1..(Len(tb) + 1) : OnChain(new[i])
      BY <3>2, <3>3 DEF OnChainList
    <3>6. Len(tb) + 1 <= MaxTracked
      BY <1>1, <2>3
    <3> QED
      BY <3>1, <3>2, <3>4, <3>5, <3>6 DEF GoodList, OnChainList
  <2> QED
    BY <2>2, <2>3
<1> QED
  BY <1>2, <1>3

-----------------------------------------------------------------------------
(* The invariant.                                                             *)

(* It holds at the start.                                                     *)
LEMMA InitKeeps ==
  ASSUME ReorgDetectorConstants, ReorgDetectorInit
  PROVE  ReorgInv
<1> USE DEF ReorgDetectorInit, Idle
<1>1. ReorgDetectorTypeOK
  <2>1. chain \in Seq(0..MaxForks) /\ Len(chain) \in 1..MaxHeight
    BY DEF ReorgDetectorConstants
  <2>2. /\ forks \in 0..MaxForks /\ errors \in 0..MaxErrors /\ announced \in 0..Len(chain)
        /\ reported \subseteq 1..MaxHeight /\ replaced \subseteq 1..MaxHeight
    BY DEF ReorgDetectorConstants
  <2>3. trackedBlocks \in Seq(Blocks) /\ Len(trackedBlocks) = 0
    OBVIOUS
  <2>4. checks \in [CheckSlots -> CheckState]
    BY DEF CheckState, ReorgDetectorConstants
  <2> QED
    BY <2>1, <2>2, <2>3, <2>4 DEF ReorgDetectorTypeOK, ReorgDetectorConstants
<1>2. OnChainList(trackedBlocks)
  BY DEF OnChainList
<1>3. \A c \in CheckSlots : CheckHeld(c)
  BY DEF CheckHeld
<1> QED
  BY <1>1, <1>2, <1>3 DEF ReorgInv, ReportsReal

(* What is held does not change as long as the chain does not.                *)
LEMMA OnChainStays ==
  ASSUME NEW b, UNCHANGED <<chain, replaced>>
  PROVE  OnChain(b)' <=> OnChain(b)
BY DEF OnChain, Blocks

(* What the types say of lists and blocks.                                    *)
LEMMA ReorgTypes ==
  ASSUME ReorgDetectorConstants, ReorgInv
  PROVE  /\ GoodList(trackedBlocks) /\ OnChainList(trackedBlocks)
         /\ \A b : OnChain(b) => b \in Blocks
         /\ \A n \in 1..Len(chain) : Block(n) \in Blocks /\ OnChain(Block(n)) /\ Block(n).number = n
         /\ NoBlock \notin Blocks
         /\ chain \in Seq(0..MaxForks) /\ Len(chain) \in 1..MaxHeight /\ MaxHeight \in Nat
         /\ \A n \in 1..Len(chain) : chain[n] \in 0..MaxForks
<1>1. ReorgDetectorTypeOK
  BY DEF ReorgInv
<1>2. GoodList(trackedBlocks) /\ OnChainList(trackedBlocks)
  BY <1>1 DEF GoodList, ReorgInv, ReorgDetectorTypeOK
<1>3. chain \in Seq(0..MaxForks) /\ Len(chain) \in 1..MaxHeight /\ MaxHeight \in Nat
  BY <1>1 DEF ReorgDetectorTypeOK, ReorgDetectorConstants
<1>4. \A n \in 1..Len(chain) : chain[n] \in 0..MaxForks /\ n \in 1..MaxHeight
  <2>1. \A n \in 1..Len(chain) : chain[n] \in 0..MaxForks
    <3> DEFINE Forks == 0..MaxForks
    <3>1. chain \in Seq(Forks)
      BY <1>3
    <3> HIDE DEF Forks
    <3>2. \A n \in 1..Len(chain) : chain[n] \in Forks
      BY <3>1
    <3> QED
      BY <3>2 DEF Forks
  <2>2. \A n \in 1..Len(chain) : n \in 1..MaxHeight
    BY <1>3
  <2> QED
    BY <2>1, <2>2
<1>5. \A n \in 1..Len(chain) : Block(n) \in Blocks /\ OnChain(Block(n)) /\ Block(n).number = n
  BY <1>3, <1>4 DEF Block, Blocks, OnChain
<1>6. NoBlock \notin Blocks
  BY DEF Blocks, ReorgDetectorConstants
<1> QED
  BY <1>2, <1>3, <1>4, <1>5, <1>6 DEF OnChain

(* Two blocks held of one height are the same, or the chain has replaced one. *)
LEMMA MismatchReal ==
  ASSUME ReorgDetectorConstants, NEW a, NEW b, OnChain(a), OnChain(b), a.number = b.number, a # b
  PROVE  b.number \in replaced
BY DEF OnChain, Blocks

(* A step of a check: it keeps a good list of blocks held, and blocks held.   *)
LEMMA CheckKeeps ==
  ASSUME ReorgDetectorConstants, ReorgInv, NEW c \in CheckSlots,
         UNCHANGED <<chain, forks, announced, replaced>>, errors' \in 0..MaxErrors,
         GoodList(trackedBlocks'), OnChainList(trackedBlocks'),
         reported' \subseteq reported \union (replaced \intersect 1..MaxHeight),
         NEW state \in CheckState, checks' = [checks EXCEPT ![c] = state],
         state.tip # NoBlock => OnChain(state.tip),
         state.tracked # NoBlock => OnChain(state.tracked),
         state.answer # NoBlock => OnChain(state.answer),
         state.pc \in {"walk", "walkRead"} => state.tracked # NoBlock,
         state.pc = "walkRead" /\ state.answer # NoBlock
           => state.answer.number = state.tracked.number,
         state.pc = "parent" => state.tip # NoBlock
  PROVE  ReorgInv'
<1>1. ReorgDetectorTypeOK
  BY DEF ReorgInv
<1>2. checks' \in [CheckSlots -> CheckState]
  BY <1>1 DEF ReorgDetectorTypeOK
<1>3. reported' \subseteq 1..MaxHeight /\ reported' \subseteq replaced
  BY <1>1 DEF ReorgDetectorTypeOK, ReorgInv, ReportsReal
<1>4. ReorgDetectorTypeOK'
  BY <1>1, <1>2, <1>3 DEF ReorgDetectorTypeOK, GoodList, CheckState, Blocks
<1>5. OnChainList(trackedBlocks)'
  BY OnChainStays DEF OnChainList
<1>6. ASSUME NEW d \in CheckSlots
      PROVE  CheckHeld(d)'
  <2>1. checks'[d] = IF d = c THEN state ELSE checks[d]
    BY <1>1 DEF ReorgDetectorTypeOK
  <2>2. CheckHeld(d)
    BY DEF ReorgInv
  <2> QED
    BY <2>1, <2>2, OnChainStays DEF CheckHeld
<1> QED
  BY <1>3, <1>4, <1>5, <1>6 DEF ReorgInv, ReportsReal

(* The state of a check.                                                      *)
LEMMA CheckTyped ==
  ASSUME ReorgDetectorConstants, ReorgInv, NEW c \in CheckSlots
  PROVE  /\ checks[c] \in CheckState /\ CheckHeld(c) /\ Idle \in CheckState
         /\ errors \in 0..MaxErrors /\ DOMAIN checks = CheckSlots
         /\ Idle.tip = NoBlock /\ Idle.tracked = NoBlock /\ Idle.answer = NoBlock
         /\ Idle.pc = "idle"
BY DEF ReorgInv, ReorgDetectorTypeOK, Idle, CheckState, ReorgDetectorConstants

(* The end of a walk.                                                         *)
LEMMA FinishKeeps ==
  ASSUME ReorgDetectorConstants, ReorgInv, NEW c \in CheckSlots, NEW tb,
         GoodList(tb), OnChainList(tb), Finish(c, tb),
         UNCHANGED <<chain, forks, announced, replaced, errors>>,
         reported' \subseteq reported \union (replaced \intersect 1..MaxHeight)
  PROVE  ReorgInv'
<1> DEFINE tip == checks[c].tip
<1>1. tip # NoBlock => OnChain(tip) /\ tip \in Blocks
  BY CheckTyped, ReorgTypes DEF CheckHeld
<1>2. errors' \in 0..MaxErrors
  BY CheckTyped
<1>3. CASE trackedBlocks' \in {tb, TrackedWith(tb, tip)} /\ checks' = [checks EXCEPT ![c] = Idle]
           /\ (trackedBlocks' # tb => tip # NoBlock)
  <2>1. GoodList(trackedBlocks') /\ OnChainList(trackedBlocks')
    BY <1>1, <1>3, TrackedGood
  <2> QED
    BY <1>2, <1>3, <2>1, CheckKeeps, CheckTyped
<1>4. CASE /\ tip # NoBlock /\ trackedBlocks' = tb
           /\ checks' = [checks EXCEPT ![c] = [Idle EXCEPT !.pc = "parent", !.tip = tip]]
  <2> DEFINE state == [Idle EXCEPT !.pc = "parent", !.tip = tip]
  <2>1. /\ state \in CheckState /\ state.tip = tip /\ state.tracked = NoBlock
        /\ state.answer = NoBlock /\ state.pc = "parent"
    BY CheckTyped DEF CheckState, Idle
  <2> HIDE DEF state
  <2>2. checks' = [checks EXCEPT ![c] = state]
    BY <1>4 DEF state
  <2> QED
    BY <1>1, <1>2, <1>4, <2>1, <2>2, CheckKeeps
<1> QED
  BY <1>3, <1>4 DEF Finish

(* A mismatch is found, of two blocks held of one height.                     *)
LEMMA DetectedKeeps ==
  ASSUME ReorgDetectorConstants, ReorgInv, NEW c \in CheckSlots, NEW b, OnChain(b), Detected(c, b),
         b.number \in replaced, UNCHANGED <<chain, forks, announced, replaced, errors>>
  PROVE  ReorgInv'
<1>1. /\ GoodList(PrunedFrom(trackedBlocks, b.number))
      /\ OnChainList(PrunedFrom(trackedBlocks, b.number))
  BY PrunedGood, ReorgTypes
<1>2. reported' \subseteq reported \union (replaced \intersect 1..MaxHeight)
  BY DEF Detected, OnChain, Blocks
<1> QED
  BY <1>1, <1>2, FinishKeeps DEF Detected

(* The walk goes on, or ends.                                                 *)
LEMMA WalkKeeps ==
  ASSUME ReorgDetectorConstants, ReorgInv, NEW c \in CheckSlots, NEW latest \in 0..MaxHeight,
         NEW depth \in Nat, Walk(c, latest, depth),
         UNCHANGED <<chain, forks, announced, replaced, errors>>
  PROVE  ReorgInv'
<1> DEFINE depths == {d \in depth..checkDepth :
                        d < latest /\ TrackedAt(trackedBlocks, latest - d) # {}}
<1>1. CASE Finish(c, trackedBlocks)
  BY <1>1, FinishKeeps, ReorgTypes DEF Walk
<1>2. ASSUME NEW d \in depths, NEW b \in TrackedAt(trackedBlocks, latest - d),
             checks' = [checks EXCEPT ![c].pc = "walk", ![c].latest = latest,
                         ![c].depth = d, ![c].tracked = b],
             UNCHANGED trackedBlocks
      PROVE  ReorgInv'
  <2> DEFINE state == [checks[c] EXCEPT !.pc = "walk", !.latest = latest, !.depth = d,
                                       !.tracked = b]
  <2>1. OnChain(b) /\ b \in Blocks
    BY ReorgTypes DEF TrackedAt, Entries, OnChainList
  <2>2. d \in 0..checkDepth
    BY DEF ReorgDetectorConstants
  <2>3. /\ state \in CheckState /\ state.tip = checks[c].tip /\ state.tracked = b
        /\ state.answer = checks[c].answer /\ state.pc = "walk"
    BY <2>1, <2>2, CheckTyped DEF CheckState
  <2>4. checks' = [checks EXCEPT ![c] = state]
    BY <1>2, CheckTyped
  <2> HIDE DEF state
  <2>5. b # NoBlock
    BY <2>1, ReorgTypes
  <2>6. UNCHANGED reported
    BY DEF Walk
  <2>7. errors' \in 0..MaxErrors /\ CheckHeld(c)
    BY CheckTyped
  <2>8. GoodList(trackedBlocks') /\ OnChainList(trackedBlocks')
    BY <1>2, ReorgTypes
  <2> QED
    BY <2>1, <2>3, <2>4, <2>5, <2>6, <2>7, <2>8, CheckKeeps DEF CheckHeld
<1> QED
  BY <1>1, <1>2 DEF Walk

(* An answer to a check is a block held.                                      *)
LEMMA AnswerHeld ==
  ASSUME ReorgDetectorConstants, ReorgInv, NEW n \in 1..Len(chain),
         NEW b \in Blocks \union {NoBlock}, Answer(n, b)
  PROVE  /\ b # NoBlock => OnChain(b) /\ b.number = n
         /\ errors' \in 0..MaxErrors
<1>1. b # NoBlock => OnChain(b) /\ b.number = n
  BY ReorgTypes DEF Answer
<1>2. errors' \in 0..MaxErrors
  <2>1. errors \in 0..MaxErrors /\ MaxErrors \in Nat
    BY DEF ReorgInv, ReorgDetectorTypeOK, ReorgDetectorConstants
  <2> QED
    BY <2>1 DEF Answer
<1> QED
  BY <1>1, <1>2

(* A check starts.                                                            *)
LEMMA CheckStartKeeps ==
  ASSUME ReorgDetectorConstants, ReorgInv, NEW c \in CheckSlots, CheckStart(c)
  PROVE  ReorgInv'
<1>1. PICK b \in Blocks \union {NoBlock} :
        /\ Answer(Len(chain), b)
        /\ checks' = [checks EXCEPT ![c].pc = "tip", ![c].tip = b]
  BY DEF CheckStart
<1>2. /\ UNCHANGED <<chain, forks, announced, replaced, trackedBlocks, reported>>
  BY DEF CheckStart, RpcRest
<1>3. /\ b # NoBlock => OnChain(b)
      /\ errors' \in 0..MaxErrors
  BY <1>1, AnswerHeld, ReorgTypes
<1> DEFINE state == [checks[c] EXCEPT !.pc = "tip", !.tip = b]
<1>4. /\ state \in CheckState /\ state.tip = b /\ state.tracked = checks[c].tracked
      /\ state.answer = checks[c].answer /\ state.pc = "tip"
  BY CheckTyped DEF CheckState
<1>5. checks' = [checks EXCEPT ![c] = state]
  BY <1>1, CheckTyped
<1>6. CheckHeld(c) /\ GoodList(trackedBlocks') /\ OnChainList(trackedBlocks')
  BY <1>2, CheckTyped, ReorgTypes
<1> HIDE DEF state
<1> QED
  BY <1>2, <1>3, <1>4, <1>5, <1>6, CheckKeeps DEF CheckHeld

(* The tip is compared with the block tracked last, if that has its height.   *)
LEMMA TipArrivesKeeps ==
  ASSUME ReorgDetectorConstants, ReorgInv, NEW c \in CheckSlots, TipArrives(c)
  PROVE  ReorgInv'
<1> DEFINE latest == trackedBlocks[Len(trackedBlocks)]
           tip == checks[c].tip
<1>1. UNCHANGED <<chain, forks, announced, replaced, errors>>
  BY DEF TipArrives, RpcRest
<1>2. CASE trackedBlocks = <<>>
  BY <1>1, <1>2, FinishKeeps, ReorgTypes DEF TipArrives
<1>3. CASE trackedBlocks # <<>>
  <2>1. OnChain(latest) /\ latest \in Blocks /\ latest.number \in 0..MaxHeight
    <3>1. trackedBlocks \in Seq(Blocks) /\ Len(trackedBlocks) \in 1..Len(trackedBlocks)
      BY <1>3, ReorgTypes DEF GoodList
    <3>2. OnChain(latest)
      BY <3>1, ReorgTypes DEF OnChainList
    <3>3. latest \in Blocks
      BY <3>2 DEF OnChain
    <3>4. latest.number \in 1..MaxHeight /\ MaxHeight \in Nat
      BY <3>3 DEF Blocks, ReorgDetectorConstants
    <3> QED
      BY <3>2, <3>3, <3>4
  <2>2. tip # NoBlock => OnChain(tip)
    BY CheckTyped DEF CheckHeld
  <2>3. \/ /\ tip # NoBlock /\ tip.number = latest.number /\ tip # latest
           /\ Detected(c, latest)
        \/ Walk(c, latest.number, 1) \/ Walk(c, latest.number, 0)
    BY <1>3 DEF TipArrives
  <2> HIDE DEF latest, tip
  <2>4. CASE tip # NoBlock /\ tip.number = latest.number /\ tip # latest /\ Detected(c, latest)
    BY <1>1, <2>1, <2>2, <2>4, MismatchReal, DetectedKeeps
  <2>5. CASE Walk(c, latest.number, 1) \/ Walk(c, latest.number, 0)
    BY <1>1, <2>1, <2>5, WalkKeeps
  <2> QED
    BY <2>3, <2>4, <2>5
<1> QED
  BY <1>2, <1>3

(* A block is read at the height of the one compared.                         *)
LEMMA BlockReadKeeps ==
  ASSUME ReorgDetectorConstants, ReorgInv, NEW c \in CheckSlots, BlockRead(c)
  PROVE  ReorgInv'
<1>1. PICK b \in Blocks \union {NoBlock} :
        /\ Answer(checks[c].tracked.number, b)
        /\ checks' = [checks EXCEPT ![c].pc = "walkRead", ![c].answer = b]
  BY DEF BlockRead
<1>2. /\ UNCHANGED <<chain, forks, announced, replaced, trackedBlocks, reported>>
      /\ checks[c].pc = "walk"
  BY DEF BlockRead, RpcRest
<1>3. CheckHeld(c) /\ GoodList(trackedBlocks') /\ OnChainList(trackedBlocks')
  BY <1>2, CheckTyped, ReorgTypes
<1>4. checks[c].tracked # NoBlock /\ checks[c].tracked.number \in 1..Len(chain)
  BY <1>2, <1>3, ReorgTypes DEF CheckHeld, OnChain, Blocks
<1>5. /\ b # NoBlock => OnChain(b) /\ b.number = checks[c].tracked.number
      /\ errors' \in 0..MaxErrors
  BY <1>1, <1>4, AnswerHeld
<1> DEFINE state == [checks[c] EXCEPT !.pc = "walkRead", !.answer = b]
<1>6. /\ state \in CheckState /\ state.tip = checks[c].tip /\ state.tracked = checks[c].tracked
      /\ state.answer = b /\ state.pc = "walkRead"
  BY CheckTyped DEF CheckState
<1>7. checks' = [checks EXCEPT ![c] = state]
  BY <1>1, CheckTyped
<1> HIDE DEF state
<1> QED
  BY <1>2, <1>3, <1>4, <1>5, <1>6, <1>7, CheckKeeps DEF CheckHeld

(* The answer is compared with the entry found before it was asked for.       *)
LEMMA BlockArrivesKeeps ==
  ASSUME ReorgDetectorConstants, ReorgInv, NEW c \in CheckSlots, BlockArrives(c)
  PROVE  ReorgInv'
<1>1. UNCHANGED <<chain, forks, announced, replaced, errors>> /\ checks[c].pc = "walkRead"
  BY DEF BlockArrives, RpcRest
<1>2. CheckHeld(c) /\ checks[c] \in CheckState
  BY CheckTyped
<1>3. CASE checks[c].answer \in {NoBlock, checks[c].tracked}
  <2>1. checks[c].latest \in 0..MaxHeight /\ checks[c].depth + 1 \in Nat
    BY <1>2 DEF CheckState, ReorgDetectorConstants
  <2>2. Walk(c, checks[c].latest, checks[c].depth + 1)
    BY <1>3 DEF BlockArrives
  <2> QED
    BY <1>1, <2>1, <2>2, WalkKeeps
<1>4. CASE checks[c].answer \notin {NoBlock, checks[c].tracked}
  <2>1. /\ OnChain(checks[c].answer) /\ OnChain(checks[c].tracked)
        /\ checks[c].answer.number = checks[c].tracked.number
    BY <1>1, <1>2, <1>4 DEF CheckHeld
  <2>2. Detected(c, checks[c].tracked)
    BY <1>4 DEF BlockArrives
  <2> QED
    BY <1>1, <1>4, <2>1, <2>2, MismatchReal, DetectedKeeps
<1> QED
  BY <1>3, <1>4

(* The tip is tracked after all.                                              *)
LEMMA ParentArrivesKeeps ==
  ASSUME ReorgDetectorConstants, ReorgInv, NEW c \in CheckSlots, ParentArrives(c)
  PROVE  ReorgInv'
<1>1. /\ UNCHANGED <<chain, forks, announced, replaced, errors, reported>>
      /\ checks[c].pc = "parent" /\ checks' = [checks EXCEPT ![c] = Idle]
      /\ trackedBlocks' = TrackedWith(trackedBlocks, checks[c].tip)
  BY DEF ParentArrives, RpcRest
<1>2. OnChain(checks[c].tip) /\ checks[c].tip \in Blocks
  BY <1>1, CheckTyped, ReorgTypes DEF CheckHeld
<1>3. GoodList(trackedBlocks') /\ OnChainList(trackedBlocks')
  BY <1>1, <1>2, TrackedGood, ReorgTypes
<1> QED
  BY <1>1, <1>3, CheckKeeps, CheckTyped

(* A head is tracked; its parent is compared with the block tracked there.    *)
LEMMA NewHeadKeeps ==
  ASSUME ReorgDetectorConstants, ReorgInv, NEW n \in 1..MaxHeight, NewHead(n)
  PROVE  ReorgInv'
<1>1. /\ UNCHANGED <<chain, forks, checks, errors, replaced>>
      /\ announced' = n /\ n \in announced + 1..Len(chain)
      /\ reported' = reported \union ParentMismatch(n)
      /\ trackedBlocks' = TrackedWith(trackedBlocks, Block(n))
  BY DEF NewHead
<1>2. n \in 1..Len(chain)
  BY <1>1, ReorgTypes DEF ReorgInv, ReorgDetectorTypeOK
<1>3. GoodList(trackedBlocks') /\ OnChainList(trackedBlocks')
  BY <1>1, <1>2, TrackedGood, ReorgTypes
<1>4. ParentMismatch(n) \subseteq replaced \intersect 1..MaxHeight
  <2> SUFFICES ASSUME NEW b \in TrackedAt(trackedBlocks, n - 1), ~Canonical(b)
               PROVE  b.number \in replaced /\ b.number \in 1..MaxHeight
    BY DEF ParentMismatch
  <2>1. OnChain(b) /\ b \in Blocks
    BY ReorgTypes DEF TrackedAt, Entries, OnChainList
  <2>2. b.number \in 1..Len(chain)
    BY <2>1, ReorgTypes DEF OnChain, Blocks
  <2>3. b = Block(b.number) \/ b.number \in replaced
    BY <2>1 DEF OnChain, Blocks, Block
  <2> QED
    BY <2>1, <2>2, <2>3 DEF Canonical, Blocks
<1>5. /\ reported' \subseteq 1..MaxHeight /\ reported' \subseteq replaced
      /\ announced' \in 0..Len(chain)
  <2>1. reported \subseteq 1..MaxHeight /\ reported \subseteq replaced
    BY DEF ReorgInv, ReorgDetectorTypeOK, ReportsReal
  <2>2. announced' \in 0..Len(chain)
    BY <1>1, <1>2, ReorgTypes
  <2>3. reported' = reported \union ParentMismatch(n)
    BY <1>1
  <2> QED
    BY <1>4, <2>1, <2>2, <2>3
<1>6. ReorgDetectorTypeOK'
  BY <1>1, <1>3, <1>5 DEF ReorgInv, ReorgDetectorTypeOK, GoodList, CheckState, Blocks
<1>7. OnChainList(trackedBlocks)' /\ \A c \in CheckSlots : CheckHeld(c)'
  BY <1>1, <1>3, OnChainStays DEF OnChainList, CheckHeld, ReorgInv
<1> QED
  BY <1>1, <1>5, <1>6, <1>7 DEF ReorgInv, ReportsReal

(* What is held stays held as the chain changes.                              *)
LEMMA ChainKeeps ==
  ASSUME ReorgDetectorConstants, ReorgInv, UNCHANGED <<trackedBlocks, checks, errors, reported>>,
         chain' \in Seq(0..MaxForks), Len(chain') \in 1..MaxHeight, forks' \in 0..MaxForks,
         announced' \in 0..Len(chain'), replaced' \subseteq 1..MaxHeight,
         replaced \subseteq replaced', \A b : OnChain(b) => OnChain(b)'
  PROVE  ReorgInv'
<1>1. ReorgDetectorTypeOK'
  BY DEF ReorgInv, ReorgDetectorTypeOK, CheckState, Blocks
<1>2. OnChainList(trackedBlocks)' /\ \A c \in CheckSlots : CheckHeld(c)'
  BY DEF OnChainList, CheckHeld, ReorgInv
<1> QED
  BY <1>1, <1>2 DEF ReorgInv, ReportsReal

(* The chain grows.                                                           *)
LEMMA GrowKeeps ==
  ASSUME ReorgDetectorConstants, ReorgInv, Grow
  PROVE  ReorgInv'
<1>1. /\ chain' = Append(chain, forks) /\ Len(chain) < MaxHeight
      /\ UNCHANGED <<forks, announced, replaced, trackedBlocks, checks, errors, reported>>
  BY DEF Grow, ChainRest
<1>2. /\ forks \in 0..MaxForks /\ announced \in 0..Len(chain) /\ replaced \subseteq 1..MaxHeight
  BY DEF ReorgInv, ReorgDetectorTypeOK
<1>3. /\ chain' \in Seq(0..MaxForks) /\ Len(chain') = Len(chain) + 1
      /\ \A n \in 1..Len(chain) : chain'[n] = chain[n]
  BY <1>1, <1>2, ReorgTypes
<1>4. Len(chain') \in 1..MaxHeight /\ announced' \in 0..Len(chain')
  BY <1>1, <1>2, <1>3, ReorgTypes
<1>5. ASSUME NEW b, OnChain(b)
      PROVE  OnChain(b)'
  <2>1. b \in Blocks /\ b.number \in 1..Len(chain) /\ b.number <= Len(chain')
    BY <1>3, <1>5, ReorgTypes DEF OnChain, Blocks
  <2> QED
    BY <1>1, <1>3, <1>5, <2>1 DEF OnChain, Blocks
<1> QED
  BY <1>1, <1>2, <1>3, <1>4, <1>5, ChainKeeps

(* The chain is replaced from some height on.                                 *)
LEMMA ReorgKeeps ==
  ASSUME ReorgDetectorConstants, ReorgInv, NEW n \in 1..MaxHeight, Reorg(n)
  PROVE  ReorgInv'
<1>1. /\ forks < MaxForks /\ n \in 1..Len(chain) /\ forks' = forks + 1
      /\ chain' = [m \in 1..Len(chain) |-> IF m < n THEN chain[m] ELSE forks + 1]
      /\ replaced' = replaced \union n..Len(chain)
      /\ announced' = IF announced < n THEN announced ELSE n - 1
      /\ UNCHANGED <<trackedBlocks, checks, errors, reported>>
  BY DEF Reorg, ChainRest
<1>2. /\ forks \in 0..MaxForks /\ announced \in 0..Len(chain) /\ replaced \subseteq 1..MaxHeight
      /\ MaxForks \in Nat
  BY DEF ReorgInv, ReorgDetectorTypeOK, ReorgDetectorConstants
<1>3. forks' \in 0..MaxForks
  BY <1>1, <1>2
<1>4. chain' \in Seq(0..MaxForks) /\ Len(chain') = Len(chain)
  <2>1. \A m \in 1..Len(chain) : chain[m] \in 0..MaxForks
    BY ReorgTypes
  <2> DEFINE Forks == 0..MaxForks
  <2>2. Len(chain) \in Nat /\ forks + 1 \in Forks
    BY <1>1, <1>3, ReorgTypes
  <2> HIDE DEF Forks
  <2>3. \A m \in 1..Len(chain) : (IF m < n THEN chain[m] ELSE forks + 1) \in Forks
    BY <2>1, <2>2 DEF Forks
  <2>4. chain' \in Seq(Forks) /\ Len(chain') = Len(chain)
    BY <1>1, <2>2, <2>3
  <2> QED
    BY <2>4 DEF Forks
<1>5. Len(chain') \in 1..MaxHeight /\ announced' \in 0..Len(chain')
  BY <1>1, <1>2, <1>4, ReorgTypes
<1>6. replaced' \subseteq 1..MaxHeight
  <2>1. n..Len(chain) \subseteq 1..MaxHeight
    BY <1>1, ReorgTypes
  <2> QED
    BY <1>1, <1>2, <2>1
<1>7. ASSUME NEW b, OnChain(b)
      PROVE  OnChain(b)'
  <2>1. b \in Blocks /\ b.number \in 1..Len(chain)
    BY <1>7, ReorgTypes DEF OnChain, Blocks
  <2>2. chain'[b.number] = b.fork \/ b.number \in replaced'
    BY <1>1, <1>7, <2>1 DEF OnChain
  <2> QED
    BY <1>4, <2>1, <2>2 DEF OnChain, Blocks
<1> QED
  BY <1>1, <1>3, <1>4, <1>5, <1>6, <1>7, ChainKeeps

(* Every step keeps it.                                                       *)
LEMMA StepKeeps ==
  ASSUME ReorgDetectorConstants, ReorgInv, [ReorgDetectorNext]_reorgVars
  PROVE  ReorgInv'
<1>1. CASE UNCHANGED reorgVars
  <2>1. ReorgDetectorTypeOK'
    BY <1>1 DEF reorgVars, ReorgInv, ReorgDetectorTypeOK, CheckState, Blocks
  <2>2. \A b : OnChain(b)' <=> OnChain(b)
    BY <1>1, OnChainStays DEF reorgVars
  <2> QED
    BY <1>1, <2>1, <2>2 DEF reorgVars, ReorgInv, OnChainList, CheckHeld, ReportsReal
<1>2. CASE \E c \in CheckSlots : CheckStart(c) \/ CheckStep(c)
  BY <1>2, CheckStartKeeps, TipArrivesKeeps, BlockReadKeeps, BlockArrivesKeeps,
     ParentArrivesKeeps DEF CheckStep
<1> QED
  BY <1>1, <1>2, NewHeadKeeps, ReorgKeeps, GrowKeeps DEF ReorgDetectorNext

-----------------------------------------------------------------------------
(* Theorems.                                                                  *)

(* Its inductive invariant holds.                                             *)
THEOREM ReorgDetectorInvariant ==
  ASSUME ReorgDetectorConstants
  PROVE  ReorgDetectorSpec => []ReorgInv
BY InitKeeps, StepKeeps, PTL DEF ReorgDetectorSpec

(* The variables keep their types, the list its limit and one entry a height. *)
THEOREM ReorgDetectorTyped ==
  ASSUME ReorgDetectorConstants
  PROVE  ReorgDetectorSpec => []ReorgDetectorTypeOK
BY ReorgDetectorInvariant, PTL DEF ReorgInv

(* A height is reported only where the chain has replaced a block, in         *)
(* whatever order heads, tips and answers come.                               *)
THEOREM NoFalseAlarm ==
  ASSUME ReorgDetectorConstants
  PROVE  ReorgDetectorSpec => []ReportsReal
BY ReorgDetectorInvariant, PTL DEF ReorgInv
=============================================================================
