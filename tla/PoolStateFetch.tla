---------------------------- MODULE PoolStateFetch ----------------------------
(***************************************************************************)
(* The hot state of pools: multicalls that read it                          *)
(* (src/src/pipeline/fetcher.ts), the ticks read in a second call           *)
(* (tick_fetcher.ts), and the graph that is patched afterwards              *)
(* (pool_graph.ts).  Whole-list fetches (head refresh, prefetch, bootstrap, *)
(* expansion) and fetches for the cycles of the LF tick overlap, and a      *)
(* reorg clears everything between their call and their answer.             *)
(* The answers of a multicall are told apart by their position only; their  *)
(* type, "w" for a number and "t" for a tuple, decides what a misplaced     *)
(* answer does.  Four kinds of pools stand for the protocols: of the others *)
(* only the number and the types of the calls differ.                       *)
(***************************************************************************)
EXTENDS Integers, Sequences, FiniteSets, Functions

CONSTANTS
  PoolOrder,       \* the pools, each once, in the order they are asked for
  KindOf,          \* their protocol
  CyclePools,      \* the pools of cachedCycles
  Heads, Others,   \* the head refreshes and the other whole-list fetches that may overlap
  NoState, Invalid,
  InvalidAfter, SkipAfter,  \* 3 and 2 in the code
  MaxPrice, MaxFaults       \* bounds: price changes; failures, expiries and reorgs

Pools == Range(PoolOrder)
Fetchers == Heads \cup Others \cup {"lf"}

(* What is assumed of them. *)
PoolStateFetchConstants ==
  /\ PoolOrder \in Seq(Pools) /\ IsInjective(PoolOrder)
  /\ KindOf \in [Pools -> {"v2", "v3", "v4key", "dodo"}]
  /\ CyclePools \subseteq Pools /\ {InvalidAfter, SkipAfter} \subseteq Nat \ {0}
  /\ MaxPrice \in Nat /\ MaxFaults \in Nat

(* The calls made for a pool every time, and those made only while its      *)
(* constants are unknown.                                                   *)
Hot(kind) ==
  CASE kind = "v2" -> <<"t">>
    [] kind = "v3" -> <<"t", "w", "w", "w">>
    [] kind = "v4key" -> <<"t", "w", "w", "w", "w">>
    [] kind = "dodo" -> <<"w", "w", "w", "w", "w">>
Static(kind) == IF kind = "dodo" THEN <<"w", "w", "w", "w">> ELSE <<>>
All(kind) == Hot(kind) \o Static(kind)
(* How many of its answers have to be there.                                *)
Required(kind) ==
  CASE kind = "v2" -> 1 [] kind \in {"v3", "v4key"} -> 2 [] kind = "dodo" -> 3
Concentrated(p) == KindOf[p] \in {"v3", "v4key"}

VARIABLES
  price,           \* [Pools -> 0..MaxPrice]: what the chain says, and the word of the tick
  stateCache,      \* [Pools -> NoState, Invalid or [owner, price, ticks]]
  failedPools,     \* [Pools -> 0..InvalidAfter]: _failedPools
  recent,          \* the pools whose _lastFetchedAt is fresh
  graphState,      \* the state of InMemoryPoolGraph
  tasks,           \* [Fetchers -> the fetch under way: batch, answers]
  tickTask,        \* the tick fetch under way: the pool and its state when read
  faults           \* bound: failures, expiries and reorgs so far

fetchVars == <<price, stateCache, failedPools, recent, graphState, tasks, tickTask, faults>>

Idle == [batch |-> {}, answers |-> {}]
NoTask == [pool |-> "none", state |-> NoState]
Known(state) == state \notin {NoState, Invalid}

PoolStateFetchInit ==
  /\ price = [p \in Pools |-> 0]
  /\ stateCache = [p \in Pools |-> NoState] /\ graphState = stateCache
  /\ failedPools = [p \in Pools |-> 0] /\ recent = {}
  /\ tasks = [f \in Fetchers |-> Idle] /\ tickTask = NoTask /\ faults = 0

-----------------------------------------------------------------------------
(* The environment.                                                         *)
Fault == faults < MaxFaults /\ faults' = faults + 1

Trade(p) ==
  /\ price[p] < MaxPrice /\ price' = [price EXCEPT ![p] = @ + 1]
  /\ UNCHANGED <<stateCache, failedPools, recent, graphState, tasks, tickTask, faults>>
(* applyReorgInvalidation and runReorgCheck.                                *)
Reorg ==
  /\ Fault
  /\ stateCache' = [p \in Pools |-> NoState] /\ graphState' = stateCache'
  /\ failedPools' = [p \in Pools |-> 0] /\ recent' = {}
  /\ UNCHANGED <<price, tasks, tickTask>>
(* The time to live of a BoundedMap is over: of a pool's state, or of its   *)
(* count of failures; and, much sooner, a state is stale.                   *)
StateExpires(p) ==
  /\ Fault /\ stateCache[p] # NoState /\ stateCache' = [stateCache EXCEPT ![p] = NoState]
  /\ UNCHANGED <<price, failedPools, recent, graphState, tasks, tickTask>>
FailureExpires(p) ==
  /\ failedPools[p] > 0 /\ failedPools' = [failedPools EXCEPT ![p] = 0]
  /\ UNCHANGED <<price, stateCache, recent, graphState, tasks, tickTask, faults>>
Stales(p) ==
  /\ p \in recent /\ recent' = recent \ {p}
  /\ UNCHANGED <<price, stateCache, failedPools, graphState, tasks, tickTask, faults>>

-----------------------------------------------------------------------------
(* fetchMissingPoolState: the pools it asks for.                            *)
(* Mutation: A pool with a state is not asked for, however old it is.       *)
MissingUncached ==
  {p \in CyclePools : failedPools[p] < SkipAfter /\ stateCache[p] = NoState}
Missing ==
  {p \in CyclePools : failedPools[p] < SkipAfter /\ (p \notin recent \/ stateCache[p] = NoState)}

(* The list of calls; no call is made for a 32-byte V4 key.                 *)
CallsFor(p) ==
  IF KindOf[p] = "v4key" THEN <<>>
  ELSE IF Known(stateCache[p]) THEN Hot(KindOf[p]) ELSE All(KindOf[p])

(* How many answers come before those of a pool, where calls has the calls  *)
(* of each.                                                                 *)
AskedBefore(q, p) == \E m, n \in DOMAIN PoolOrder : m < n /\ PoolOrder[m] = q /\ PoolOrder[n] = p
Offset(calls, p) ==
  Cardinality(UNION {{q} \X DOMAIN calls[q] : q \in {r \in DOMAIN calls : AskedBefore(r, p)}})

Answers(batch, failing) ==
  LET calls == [p \in batch |-> CallsFor(p)]
      of(p, offset) ==
        {[at |-> offset + j, owner |-> p, price |-> price[p], type |-> calls[p][j],
          success |-> p \notin failing] : j \in DOMAIN calls[p]}
  IN UNION {of(p, Offset(calls, p)) : p \in batch}

(* Without a call to make, nothing is asked.                                *)
Multicall(f, batch) ==
  /\ tasks[f] = Idle /\ \E p \in batch : CallsFor(p) # <<>>
  /\ \E failing \in SUBSET batch :
       /\ IF failing = {} THEN UNCHANGED faults ELSE Fault
       /\ tasks' = [tasks EXCEPT ![f] = [batch |-> batch, answers |-> Answers(batch, failing)]]
  /\ UNCHANGED <<price, stateCache, failedPools, recent, graphState, tickTask>>

(* refreshCyclePoolsOnHead: forced, so of the whole list.                   *)
HeadRefresh(f) == f \in Heads /\ (\E p \in CyclePools : Concentrated(p)) /\ Multicall(f, Pools)
(* Bootstrap and expansion: of the pools without a state.                   *)
FetchUncached(f) ==
  f \in Others /\ Multicall(f, {p \in Pools : stateCache[p] = NoState})
FetchForCycles == Multicall("lf", Missing)

-----------------------------------------------------------------------------
(* The answers: each pool takes as many as it expects.                      *)
Unanswered == [at |-> 0, owner |-> "none", price |-> 0, type |-> "none", success |-> FALSE]
AnswerAt(f, at) ==
  LET here == {a \in tasks[f].answers : a.at = at}
  IN IF here = {} THEN Unanswered ELSE CHOOSE a \in here : TRUE
TakenAnswers(f) ==
  LET expected == [p \in tasks[f].batch |->
                     IF Known(stateCache[p]) THEN Hot(KindOf[p]) ELSE All(KindOf[p])]
      from(p, offset) == [j \in DOMAIN expected[p] |-> AnswerAt(f, offset + j)]
  IN [p \in tasks[f].batch |-> from(p, Offset(expected, p))]

AnswersFail(taken, p) ==
  \E j \in 1..Required(KindOf[p]) :
    ~taken[p][j].success \/ (Hot(KindOf[p])[j] = "t" /\ taken[p][j].type = "w")
AnswersThrow(taken, p) ==
  /\ ~AnswersFail(taken, p)
  /\ \E j \in DOMAIN taken[p] :
       taken[p][j].success /\ All(KindOf[p])[j] = "w" /\ taken[p][j].type = "t"

(* The pools the loop over the answers gets to: an exception ends it.       *)
Reached(taken) ==
  {p \in DOMAIN taken : ~\E q \in DOMAIN taken : AnswersThrow(taken, q) /\ AskedBefore(q, p)}
Failed(taken) == {p \in Reached(taken) : AnswersFail(taken, p)}
Updated(taken) == {p \in Reached(taken) : ~AnswersFail(taken, p) /\ ~AnswersThrow(taken, p)}

(* trackFailedPool counts, and gives up on the pool in the end.             *)
Counts(updated, failed) ==
  [p \in Pools |->
     IF p \in updated THEN 0
     ELSE IF p \in failed /\ failedPools[p] < InvalidAfter THEN failedPools[p] + 1
     ELSE failedPools[p]]
StatesAfter(taken, updated, failed) ==
  [p \in Pools |->
     IF p \in updated
     THEN [owner |-> taken[p][1].owner, price |-> taken[p][1].price, ticks |-> {}]
     ELSE IF p \in failed /\ failedPools[p] + 1 >= InvalidAfter THEN Invalid
     ELSE stateCache[p]]

(* The multicall answers; what was written before an exception stays.       *)
FetchEnds(f) ==
  LET taken == TakenAnswers(f)
      updated == Updated(taken)
      failed == Failed(taken)
  IN /\ tasks[f] # Idle /\ tasks' = [tasks EXCEPT ![f] = Idle]
     /\ stateCache' = StatesAfter(taken, updated, failed)
     /\ failedPools' = Counts(updated, failed)
     /\ recent' = recent \cup updated
     /\ graphState' = [p \in Pools |-> IF p \in updated THEN stateCache'[p] ELSE graphState[p]]
     /\ UNCHANGED <<price, tickTask, faults>>
(* The multicall fails as a whole: no failure is counted.                   *)
FetchThrows(f) ==
  /\ tasks[f] # Idle /\ Fault /\ tasks' = [tasks EXCEPT ![f] = Idle]
  /\ UNCHANGED <<price, stateCache, failedPools, recent, graphState, tickTask>>

-----------------------------------------------------------------------------
(* fetchTicksForCyclePools: the ticks around a pool's tick, unless those    *)
(* it has are around it.                                                    *)
TickFetchBegins(p) ==
  /\ tickTask = NoTask /\ p \in CyclePools /\ Concentrated(p) /\ Known(stateCache[p])
  /\ stateCache[p].price \notin stateCache[p].ticks
  /\ tickTask' = [pool |-> p, state |-> stateCache[p]]
  /\ UNCHANGED <<price, stateCache, failedPools, recent, graphState, tasks, faults>>

(* Mutation: The ticks go to the state the pool has by now.                 *)
WithTicksNow(task) ==
  IF Known(stateCache[task.pool])
  THEN [stateCache[task.pool] EXCEPT !.ticks = {task.state.price}]
  ELSE [task.state EXCEPT !.ticks = {task.state.price}]
(* The state that was read before the call, with its ticks.                 *)
WithTicks(task) == [task.state EXCEPT !.ticks = {task.state.price}]

TickFetchEnds ==
  /\ tickTask # NoTask /\ tickTask' = NoTask
  /\ stateCache' = [stateCache EXCEPT ![tickTask.pool] = WithTicks(tickTask)]
  /\ UNCHANGED <<price, failedPools, recent, graphState, tasks, faults>>
TickFetchFails ==
  /\ tickTask # NoTask /\ Fault /\ tickTask' = NoTask
  /\ UNCHANGED <<price, stateCache, failedPools, recent, graphState, tasks>>

PoolStateFetchNext ==
  \/ \E p \in Pools : Trade(p) \/ StateExpires(p) \/ FailureExpires(p) \/ Stales(p)
                      \/ TickFetchBegins(p)
  \/ Reorg \/ FetchForCycles \/ TickFetchEnds \/ TickFetchFails
  \/ \E f \in Fetchers : HeadRefresh(f) \/ FetchUncached(f) \/ FetchEnds(f) \/ FetchThrows(f)

(* The LF tick fetches again and again, calls end, and time passes.         *)
PoolStateFetchFairness ==
  /\ WF_fetchVars(FetchForCycles) /\ WF_fetchVars(FetchEnds("lf"))
  /\ \A p \in Pools : WF_fetchVars(FailureExpires(p)) /\ WF_fetchVars(Stales(p))

PoolStateFetchSpec == PoolStateFetchInit /\ [][PoolStateFetchNext]_fetchVars

-----------------------------------------------------------------------------
PoolStateFetchTypeOK ==
  /\ price \in [Pools -> 0..MaxPrice]
  /\ \A p \in Pools : \A state \in {stateCache[p], graphState[p]} :
       Known(state) => state \in [owner : Pools, price : 0..MaxPrice, ticks : SUBSET (0..MaxPrice)]
  /\ failedPools \in [Pools -> 0..InvalidAfter] /\ recent \subseteq Pools
  /\ \A f \in Fetchers : tasks[f].batch \subseteq Pools
  /\ tickTask = NoTask \/ (tickTask.pool \in Pools /\ Known(tickTask.state))
  /\ faults \in 0..MaxFaults

(* The ticks of a state are those around its own price, however fetches and *)
(* tick fetches overlap: a swap simulated on it never starts outside the    *)
(* words that were read.                                                    *)
TicksCoverPrice ==
  \A p \in Pools : Known(stateCache[p]) =>
    stateCache[p].ticks = {} \/ stateCache[p].price \in stateCache[p].ticks

UpToDate(p) == Known(stateCache[p]) /\ stateCache[p].price = price[p]

(* The pools of cycles are usable again after every failure: no pool stays  *)
(* without a state, invalid, or with the state of before the last change.   *)
CyclePoolsUsable ==
  \A p \in CyclePools : []<>UpToDate(p)

(* fetcher.ts: "V4 PoolMeta.id is bytes32 poolKey - state comes from        *)
(* HyperIndex, not slot0 on the key".                                       *)
V4KeyNotFetched ==
  \A p \in Pools : KindOf[p] = "v4key" => stateCache[p] = NoState
=============================================================================
