-------------------------------- MODULE HfTick --------------------------------
(* What a high-frequency tick does between the snapshot it reads and the     *)
(* trades it starts: the cycles it takes into its simulation, the candidates *)
(* it builds of the profitable ones, and the groups it executes              *)
(* (orchestrator/pass_hf.ts, pipeline/finder.ts, services/execution).        *)
(*                                                                           *)
(* A cycle stands for its route key too.  The snapshot, the rates and the    *)
(* passing of time come in between; PassLoop has their side of it.           *)
EXTENDS Integers, Sequences, FiniteSets, SequencesExt

CONSTANTS
  Lists,          \* bound: the lists of cycles an enumeration publishes
  Unrated,        \* bound: the sets of cycles whose start token has no rate
  HopsOf,         \* cycle -> its number of hops
  PoolsOf,        \* cycle -> the pools it trades with
  KeyPools,       \* the V4 pools: their keys are longer than an address
  Earning,        \* bound: the cycles that may turn out profitable
  SimCaps,        \* how many cycles a tick may simulate: all, or fewer once slow
  BucketShift,    \* hop buckets start that far apart
  batchSize,      \* evaluatePipeline looks at the clock between such batches
  dryRunConcurrency,
  cooldown,       \* routeCooldownMs
  baseBackoff,    \* the first quarantine
  maxBackoff,
  maxRecords,     \* of the execution tracker
  Ranked,         \* whether ranking.mode is "statistical"
  ProfitOf,       \* cycle -> what it is expected to earn
  GasCost,
  MaxTime,        \* bound: how long the clock runs
  MaxTries        \* bound: failed dry runs and trades

Routes == UNION {Range(list) : list \in Lists}

HfTickConstants ==
  /\ DOMAIN HopsOf = Routes /\ DOMAIN PoolsOf = Routes
  /\ Earning \subseteq Routes /\ Earning \subseteq DOMAIN ProfitOf
  /\ SimCaps \subseteq Nat \ {0} /\ Ranked \in BOOLEAN
  /\ {batchSize, dryRunConcurrency, maxRecords} \subseteq Nat \ {0}
  /\ {cooldown, baseBackoff, maxBackoff, MaxTime, MaxTries} \subseteq Nat

VARIABLES
  now,
  snapshot,               \* getHfSnapshot: the cycles, and those without a rate
  filter,                 \* hfCycleFilterCache: those not quarantined, or NoFilter
  quarantine,             \* the entries, in the order they were (re)inserted
  recentRouteTimestamps,  \* route -> the start of the tick that traded it
  hfSimOffset,
  tick,                   \* the tick under way
  turn,                   \* history: the simulations since the list changed
  records, routeStats,    \* ExecutionTracker
  oracleRateCache,        \* cycle -> whether the oracle has a rate for its start token
  tries                   \* history: how many dry runs failed and trades started

vars == <<now, snapshot, filter, quarantine, recentRouteTimestamps, hfSimOffset, tick,
          turn, records, routeStats, oracleRateCache, tries>>

NoFilter == <<"none">>
Idle == [phase |-> "idle"]
NoTurn == [list |-> <<>>, seen |-> {}, spent |-> 0]

Init ==
  /\ now = 0 /\ snapshot = [cycles |-> <<>>, unrated |-> {}] /\ filter = NoFilter /\ quarantine = <<>>
  /\ recentRouteTimestamps = <<>> /\ hfSimOffset = 0
  /\ tick = Idle /\ turn = NoTurn
  /\ records = <<>> /\ routeStats = <<>> /\ oracleRateCache = <<>> /\ tries = 0

-----------------------------------------------------------------------------
(* The choice of cycles.                                                     *)
hopSimBucket(c) == CASE HopsOf[c] <= 2 -> 0 [] HopsOf[c] >= 5 -> 3 [] OTHER -> HopsOf[c] - 2

Buckets(list) == [b \in 1..4 |-> SelectSeq(list, LAMBDA c : hopSimBucket(c) = b - 1)]

First(list, n) == SubSeq(list, 1, IF Len(list) < n THEN Len(list) ELSE n)

selectCyclesForSim(list, cap) ==
  IF Len(list) <= cap THEN list ELSE First(FlattenSeq(Buckets(list)), cap)

(* What each bucket that is not empty has of the window.                     *)
BucketShare(list, size) ==
  LET active == Cardinality({b \in 1..4 : Buckets(list)[b] # <<>>})
  IN (size + active - 1) \div active

buildHopBalancedWindow(list, size, offset) ==
  LET Share(b) ==
        LET tier == Buckets(list)[b]
        IN [i \in 1..(IF tier = <<>> THEN 0 ELSE BucketShare(list, size)) |->
              tier[((offset + (b - 1) * BucketShift + i - 1) % Len(tier)) + 1]]
  IN IF Len(list) <= size
     THEN list
     ELSE First(FlattenSeq([b \in 1..4 |-> Share(b)]), size)

selectCyclesForSimRotating(list, cap, offset) ==
  LET size == IF Len(list) < 3 * cap THEN Len(list) ELSE 3 * cap
  IN selectCyclesForSim(buildHopBalancedWindow(list, size, offset), cap)

(* Mutation: the whole window counts as simulated.                           *)
NextOffsetByWindow(list, cap, offset) == (offset + 3 * cap) % Len(list)
NextOffset(list, cap, offset) == (offset + cap) % Len(list)

-----------------------------------------------------------------------------
(* QuarantineManager.                                                        *)
Entry(q, route) ==
  {q[i] : i \in {j \in DOMAIN q : q[j].route = route}}
Without(q, routes) == SelectSeq(q, LAMBDA e : e.route \notin routes)
Expired(q) == {e.route : e \in {f \in Range(q) : now >= f.nextRetry}}

(* isQuarantined deletes an entry it finds expired.                          *)
isQuarantined(q, route) == Entry(Without(q, Expired(q)), route) # {}

add(q, route) ==
  LET attempt == IF Entry(q, route) = {} THEN 1
                 ELSE (CHOOSE e \in Entry(q, route) : TRUE).attempt + 1
      delay == baseBackoff * 2 ^ (attempt - 1)
  IN Append(Without(q, {route}),
            [route |-> route, attempt |-> attempt,
             nextRetry |-> now + (IF delay < maxBackoff THEN delay ELSE maxBackoff)])

(* getActiveCycleIndices: the cached filter holds until the quarantine or    *)
(* the snapshot changes, so an entry that expires lifts nothing by itself.   *)
Checked(q) == Without(q, Expired(q) \cap Range(snapshot.cycles))
ActiveCycles ==
  IF filter # NoFilter THEN filter
  ELSE SelectSeq(snapshot.cycles, LAMBDA c : Entry(Checked(quarantine), c) = {})

-----------------------------------------------------------------------------
(* The passing of time, and what the other loops do to the tick's state.     *)
Tick ==
  /\ now < MaxTime /\ now' = now + 1
  /\ UNCHANGED <<snapshot, filter, quarantine, recentRouteTimestamps, hfSimOffset, tick,
                 turn, records, routeStats, oracleRateCache, tries>>

(* A snapshot with new rates.                                                *)
PublishRates(unrated) ==
  /\ snapshot' = [snapshot EXCEPT !.unrated = unrated] /\ filter' = NoFilter
  /\ UNCHANGED <<now, quarantine, recentRouteTimestamps, hfSimOffset, tick, turn, records,
                 routeStats, oracleRateCache, tries>>

(* A finished enumeration or a reorg, which leaves no cycle: the rotation    *)
(* starts again.                                                             *)
PublishCycles(list) ==
  /\ snapshot' = [snapshot EXCEPT !.cycles = list] /\ filter' = NoFilter
  /\ hfSimOffset' = 0 /\ turn' = NoTurn
  /\ UNCHANGED <<now, quarantine, recentRouteTimestamps, tick, records, routeStats,
                 oracleRateCache, tries>>

(* The pass loop forgets the routes traded long ago.                         *)
PruneRoutes ==
  LET kept == {r \in DOMAIN recentRouteTimestamps :
                 now - recentRouteTimestamps[r] <= 2 * cooldown}
  IN /\ recentRouteTimestamps' = [r \in kept |-> recentRouteTimestamps[r]]
     /\ UNCHANGED <<now, snapshot, filter, quarantine, hfSimOffset, tick, turn, records,
                    routeStats, oracleRateCache, tries>>

-----------------------------------------------------------------------------
(* A turn of the list counts what is simulated of it until each cycle should *)
(* have been; a tick that cannot rotate the list ends it.                    *)
ShortBucket(list, cap) ==
  \E b \in 1..4 : Len(Buckets(list)[b]) \in 1..(BucketShare(list, 3 * cap) - 1)

Rotated(list, cap) == Len(list) <= cap \/ Len(list) > 3 * cap
Turn(list, cap) ==
  LET before == IF turn.list = list /\ turn.spent < Len(list) THEN turn
                ELSE [list |-> list, seen |-> {}, spent |-> 0]
      batch == selectCyclesForSimRotating(list, cap, hfSimOffset)
  IN IF Rotated(list, cap)
     THEN [before EXCEPT !.seen = @ \cup Range(batch), !.spent = @ + cap] ELSE NoTurn

(* Only cycles with a rate are simulated, from the snapshot or the cache.    *)
OracleRate(c) == c \in DOMAIN oracleRateCache /\ oracleRateCache[c]
RateSafe(list) == SelectSeq(list, LAMBDA c : c \notin snapshot.unrated \/ OracleRate(c))

(* resolveOracleFallbackRates asks the oracle for the rates the batch has    *)
(* not -- but the batch is already of cycles with a rate.                    *)
MissingRates(batch) ==
  {c \in Range(batch) : c \in snapshot.unrated /\ c \notin DOMAIN oracleRateCache}
resolveOracleFallbackRates(batch) ==
  \E rates \in [MissingRates(batch) -> BOOLEAN] : oracleRateCache' = rates @@ oracleRateCache

runHfTick(cap) ==
  LET list == RateSafe(ActiveCycles)
      batch == selectCyclesForSimRotating(list, cap, hfSimOffset)
  IN /\ tick = Idle /\ snapshot.cycles # <<>>
     /\ filter' = ActiveCycles
     /\ quarantine' = IF filter = NoFilter THEN Checked(quarantine) ELSE quarantine
     /\ IF ActiveCycles = <<>>
        THEN UNCHANGED <<hfSimOffset, tick, turn, oracleRateCache>>
        ELSE /\ hfSimOffset' =
                  IF Len(list) > cap THEN NextOffset(list, cap, hfSimOffset) ELSE 0
             /\ tick' = [phase |-> "simulate", start |-> now, list |-> list, cap |-> cap,
                         batch |-> batch]
             /\ turn' = Turn(list, cap)
             /\ resolveOracleFallbackRates(batch)
     /\ UNCHANGED <<now, snapshot, recentRouteTimestamps, records, routeStats, tries>>

(* What is worth trading stays in the order it was simulated in.             *)
Profitable(simulated, earning) == SelectSeq(simulated, LAMBDA c : c \in earning)

(* evaluatePipeline: past its deadline, or with ten profitable cycles, it    *)
(* leaves the later batches out.                                             *)
Evaluated ==
  /\ tick.phase = "simulate"
  /\ \E n \in 0..Len(tick.batch), earning \in SUBSET Earning :
       LET whole == n = Len(tick.batch)
           profitable == Profitable(First(tick.batch, n), earning)
       IN /\ whole \/ n % batchSize = 0
          /\ tick' = IF profitable = <<>> THEN Idle
                     ELSE [phase |-> "build", start |-> tick.start, profitable |-> profitable,
                           distinct |-> ~ShortBucket(tick.list, tick.cap),
                           built |-> [i \in DOMAIN profitable |-> "todo"]]
          /\ turn' = IF whole THEN turn ELSE NoTurn
  /\ UNCHANGED <<now, snapshot, filter, quarantine, recentRouteTimestamps, hfSimOffset,
                 records, routeStats, oracleRateCache, tries>>

-----------------------------------------------------------------------------
(* mapWithConcurrency: a worker takes the next index when it is done with    *)
(* one.                                                                      *)
InHand(i) ==
  /\ tick.built[i] = "todo"
  /\ Cardinality({j \in 1..(i - 1) : tick.built[j] = "todo"}) < dryRunConcurrency

(* MempoolAwareDryRunner.dryRun asks up to three times, as long as the pool  *)
(* is locked, and passes with an estimate of the gas.                        *)
MaxRetries == 3
dryRun ==
  LET Answers == {"gas", "locked", "reverted"}
      asked == {a \in UNION {[1..n -> Answers] : n \in 1..MaxRetries} :
                  /\ \A i \in 1..(Len(a) - 1) : a[i] = "locked"
                  /\ Last(a) = "locked" => Len(a) = MaxRetries}
  IN {Last(a) = "gas" : a \in asked}

(* buildOneCandidate.  A route within its cooldown is dropped, as is one     *)
(* whose call data cannot be built, and one whose dry run fails is           *)
(* quarantined.                                                              *)
CoolingDown(route, at) ==
  route \in DOMAIN recentRouteTimestamps /\ at - recentRouteTimestamps[route] < cooldown

buildOneCandidate ==
  /\ tick.phase = "build"
  /\ \E i \in DOMAIN tick.built, built \in BOOLEAN, passed \in dryRun :
       LET route == tick.profitable[i]
           ready == built /\ ~CoolingDown(route, tick.start)
       IN /\ InHand(i)
          /\ tick' = [tick EXCEPT !.built[i] = IF ready /\ passed THEN "yes" ELSE "no"]
          /\ IF ready /\ ~passed
             THEN /\ tries < MaxTries /\ tries' = tries + 1
                  /\ quarantine' = add(quarantine, route) /\ filter' = NoFilter
             ELSE UNCHANGED <<quarantine, filter, tries>>
  /\ UNCHANGED <<now, snapshot, recentRouteTimestamps, hfSimOffset, turn, records,
                 routeStats, oracleRateCache>>

(* scoreCandidateEv, in hundredths; a route never tried has a win rate of 0. *)
WinRate(route) == IF route \in DOMAIN routeStats THEN routeStats[route].winRate ELSE 0
scoreCandidateEv(route) ==
  LET reliability == WinRate(route) \div (IF isQuarantined(quarantine, route) THEN 2 ELSE 1)
  IN ProfitOf[route] * (IF reliability < 5 THEN 5 ELSE reliability) - 100 * GasCost

(* groupCompatibleCandidates: each goes into the first group it shares no    *)
(* pool with.  poolsFromRouteKey sees the pools that are addresses.          *)
poolsFromRouteKey(route) == PoolsOf[route] \ KeyPools
(* Mutation: the pools of later members are not added to the group's.        *)
CompatibleWithFirst(route, group) ==
  poolsFromRouteKey(route) \cap poolsFromRouteKey(group[1]) = {}
Compatible(route, group) ==
  \A i \in DOMAIN group : poolsFromRouteKey(route) \cap poolsFromRouteKey(group[i]) = {}

Grouped(groups, route) ==
  LET fits == {g \in DOMAIN groups : Compatible(route, groups[g])}
  IN IF fits = {} THEN Append(groups, <<route>>)
     ELSE [groups EXCEPT ![CHOOSE g \in fits : \A h \in fits : g <= h] = Append(@, route)]
groupCompatibleCandidates(candidates) == FoldLeft(Grouped, <<>>, candidates)

GroupCandidates ==
  LET indices == SelectSeq([i \in DOMAIN tick.built |-> i], LAMBDA i : tick.built[i] = "yes")
      candidates == [k \in DOMAIN indices |-> tick.profitable[indices[k]]]
      ranked == IF Ranked
                THEN SortSeq(candidates, LAMBDA r, s : scoreCandidateEv(r) > scoreCandidateEv(s))
                ELSE candidates
  IN /\ tick.phase = "build" /\ "todo" \notin Range(tick.built)
     /\ tick' = IF candidates = <<>> THEN Idle
                ELSE [phase |-> "execute", start |-> tick.start, distinct |-> tick.distinct,
                      candidates |-> candidates, groups |-> groupCompatibleCandidates(ranked),
                      next |-> 1]
     /\ UNCHANGED <<now, snapshot, filter, quarantine, recentRouteTimestamps, hfSimOffset,
                    turn, records, routeStats, oracleRateCache, tries>>

-----------------------------------------------------------------------------
(* ExecutionTracker.record: the oldest record goes, and its route's totals   *)
(* with it, but not out of the win rate.                                     *)
Counted(stats, r, sign) ==
  [stats EXCEPT ![r.route].attempts = @ + sign,
                ![r.route].successes = IF r.success THEN @ + sign ELSE @]
(* Mutation: a route without a record left keeps its totals.                 *)
EvictedTotalsStay(stats, r) == Counted(stats, r, -1)
Evicted(stats, r) ==
  LET left == Counted(stats, r, -1)
  IN [s \in {t \in DOMAIN left : left[t].attempts > 0} |-> left[s]]

Recorded(t, r) ==
  LET full == Len(t.records) = maxRecords
      kept == IF full THEN Evicted(t.stats, Head(t.records)) ELSE t.stats
      known == IF r.route \in DOMAIN kept THEN kept
               ELSE (r.route :> [attempts |-> 0, successes |-> 0, winRate |-> 0]) @@ kept
      counted == Counted(known, r, 1)
  IN [records |-> Append(IF full THEN Tail(t.records) ELSE t.records, r),
      stats |-> [counted EXCEPT ![r.route].winRate =
                   (100 * counted[r.route].successes) \div counted[r.route].attempts]]

(* A route whose trade is confirmed is left alone for its cooldown, which    *)
(* starts with the tick.                                                     *)
Confirmed(won) == [r \in won |-> tick.start] @@ recentRouteTimestamps

(* A group is executed: a quarantined member is refused, another is mined or *)
(* fails to be submitted (ExecutionService has the rest).                    *)
ExecuteGroup ==
  /\ tick.phase = "execute"
  /\ LET group == tick.groups[tick.next]
         members == SelectSeq(group, LAMBDA r : ~isQuarantined(quarantine, r))
     IN /\ tries + Len(members) <= MaxTries
        /\ tries' = tries + Len(members)
        /\ \E won, reverted \in SUBSET Range(members) :
             LET mined == SelectSeq(members, LAMBDA r : r \in won \cup reverted)
                 failed == SelectSeq(members, LAMBDA r : r \notin won)
                 tracked == FoldLeft(LAMBDA t, r : Recorded(t, [route |-> r, success |-> r \in won]),
                                     [records |-> records, stats |-> routeStats], mined)
                 lapsed == Without(quarantine, Expired(quarantine) \cap Range(group))
             IN /\ won \cap reverted = {}
                /\ records' = tracked.records /\ routeStats' = tracked.stats
                /\ quarantine' = FoldLeft(add, Without(lapsed, won), failed)
                /\ recentRouteTimestamps' = Confirmed(won)
        /\ filter' = IF quarantine' = quarantine THEN filter ELSE NoFilter
        /\ tick' = IF tick.next = Len(tick.groups) THEN Idle ELSE [tick EXCEPT !.next = @ + 1]
  /\ UNCHANGED <<now, snapshot, hfSimOffset, turn, oracleRateCache>>

Next ==
  \/ Tick \/ PruneRoutes
  \/ \E unrated \in Unrated : PublishRates(unrated)
  \/ \E list \in Lists \cup {<<>>} : PublishCycles(list)
  \/ \E cap \in SimCaps : runHfTick(cap)
  \/ Evaluated \/ buildOneCandidate \/ GroupCandidates \/ ExecuteGroup

Spec == Init /\ [][Next]_vars

-----------------------------------------------------------------------------
(* The tracker's totals are those of the records it has kept, and the oracle *)
(* is never asked for a rate.                                                *)
StatsOfRecords ==
  [r \in {e.route : e \in Range(records)} |->
     [attempts |-> Len(SelectSeq(records, LAMBDA e : e.route = r)),
      successes |-> Len(SelectSeq(records, LAMBDA e : e.route = r /\ e.success))]]

HfTickTypeOK ==
  /\ now \in 0..MaxTime /\ tries \in 0..MaxTries
  /\ snapshot.cycles \in Lists \cup {<<>>} /\ snapshot.unrated \subseteq Routes
  /\ filter = NoFilter \/ (IsInjective(filter) /\ Range(filter) \subseteq Routes)
  /\ \A i, j \in DOMAIN quarantine : quarantine[i].route = quarantine[j].route => i = j
  /\ DOMAIN recentRouteTimestamps \subseteq Earning
  /\ Range(recentRouteTimestamps) \subseteq 0..now
  /\ hfSimOffset \in Nat
  /\ tick.phase \in {"idle", "simulate", "build", "execute"}
  /\ turn.seen \subseteq Range(turn.list) /\ turn.spent \in Nat
  /\ Len(records) <= maxRecords /\ oracleRateCache = <<>>
  /\ [r \in DOMAIN routeStats |-> [attempts |-> routeStats[r].attempts,
                                   successes |-> routeStats[r].successes]] = StatsOfRecords

(* selectCyclesForSimRotating: "Rotate through the full cycle set so HF does *)
(* not resimulate the same cap every tick."  While the list stays the same,  *)
(* every cycle has been simulated once the caps of the ticks add up to its   *)
(* length -- if all cycles are in one hop bucket, the list is longer than    *)
(* three times each cap it exceeds, and no tick left batches out.  Otherwise *)
(* cycles may starve: a shorter list is not rotated, the longer hops come    *)
(* after the shorter, and the offset moves on past what was left out.        *)
RotationCovers ==
  LET oneBucket == \E b \in 1..4 : Buckets(turn.list)[b] = turn.list
  IN oneBucket /\ turn.spent >= Len(turn.list) => turn.seen = Range(turn.list)

(* groupCompatibleCandidates: every candidate of a tick is in one group, no  *)
(* two of a group trade with one pool (V4 pools aside, which it does not     *)
(* see), and a route comes twice only if it is alone in a hop bucket that is *)
(* shorter than its share of the window.  None is within its cooldown after  *)
(* an earlier tick.                                                          *)
GroupsSound ==
  LET Times(list, r) == Len(SelectSeq(list, LAMBDA s : s = r)) IN
  tick.phase = "execute" =>
    /\ \A r \in Routes : Times(FlattenSeq(tick.groups), r) = Times(tick.candidates, r)
    /\ \A g \in DOMAIN tick.groups : \A i, j \in DOMAIN tick.groups[g] :
         i # j => PoolsOf[tick.groups[g][i]] \cap PoolsOf[tick.groups[g][j]] \subseteq KeyPools
    /\ tick.distinct => IsInjective(tick.candidates)
    /\ \A r \in Range(tick.candidates) :
         CoolingDown(r, tick.start) => recentRouteTimestamps[r] = tick.start
=============================================================================
