---------------------------- MODULE MempoolService ----------------------------
(* How the swaps of pending transactions show in the pool states routes are  *)
(* simulated with (services/mempool, core/types/overlay.ts): a pending swap  *)
(* becomes an override of the storage of its pool, or, for V2, a delta of    *)
(* its reserves, and both last until the next head or a time to live.        *)
(*                                                                           *)
(* A swap is a number; what a swap does to a state is that it is in it.      *)
(* Time is how old things are.  The file of unknown selectors and the        *)
(* creation of pools are left out.                                           *)
EXTENDS Integers, Sequences, FiniteSets, Functions, Lists

CONSTANTS
  Pools,
  KindOf,          \* pool -> "v2", "v3", "v4", "dodo" or another
  Router,          \* a contract that is not a pool
  Valued,          \* the pools whose tokens have a price in USD
  ttl,             \* of overrides and deltas
  coalesceTtl,
  maxPools,        \* with deltas
  maxEmits,        \* pools whose last signal is remembered
  NoState,
  MaxSwaps         \* bound: pending swaps

MempoolServiceConstants ==
  /\ DOMAIN KindOf = Pools /\ Router \notin Pools /\ Valued \subseteq Pools
  /\ {ttl, coalesceTtl, MaxSwaps} \subseteq Nat
  /\ {maxPools, maxEmits} \subseteq Nat \ {0}

VARIABLES
  stateCache,      \* pool -> NoState or what was fetched of it
  knownPools,
  entry,           \* of the PendingOverrideStore: one for all pools, or NoEntry
  overlay,         \* InMemoryPendingStateOverlay's cache, the oldest first
  traces,          \* the pools of calls of applyTraceOverride that are not over
  lastEmitByPool,  \* the oldest first
  signal,          \* lastLargeSwapSignal: whether there is a swap to follow
  swaps,           \* history: how many pending swaps there were
  heard,           \* history: pool -> its swaps since the last head
  latest           \* history: pool -> the last of them that became an override

mempoolVars == <<stateCache, knownPools, entry, overlay, traces, lastEmitByPool, signal,
                 swaps, heard, latest>>

NoEntry == [age |-> 0, diff |-> <<>>, affected |-> {}]
NoSwap == [swap |-> 0, age |-> 0]

MempoolServiceInit ==
  /\ stateCache = [p \in Pools |-> NoState] /\ knownPools = {}
  /\ entry = NoEntry /\ overlay = <<>> /\ traces = {}
  /\ lastEmitByPool = <<>> /\ signal = FALSE
  /\ swaps = 0 /\ heard = [p \in Pools |-> {}] /\ latest = [p \in Pools |-> NoSwap]

-----------------------------------------------------------------------------
(* What is remembered of pools, at most max of them, the oldest first.       *)
OfPool(list, p) == {e \in Range(list) : e.pool = p}
Touched(list, e, max) ==
  LET moved == Append(Kept(list, {i \in DOMAIN list : list[i].pool # e.pool}), e)
  IN IF Len(moved) > max THEN Tail(moved) ELSE moved

Live(list) == Kept(list, {i \in DOMAIN list : list[i].age <= ttl})
Active == entry # NoEntry /\ entry.age <= ttl

(* Mutation: the entry is replaced.                                          *)
Replaced(diff) == diff

(* PendingOverrideStore.update: an entry that is alive is added to, and all  *)
(* of it is young again; for a storage slot the later transaction counts.    *)
Merged(diff) ==
  IF Active
  THEN [p \in DOMAIN diff \cup DOMAIN entry.diff |->
          IF p \in DOMAIN diff THEN diff[p] ELSE entry.diff[p]]
  ELSE diff
StoreUpdated(diff, affected) ==
  [age |-> 0, diff |-> Merged(diff),
   affected |-> affected \cup (IF Active THEN entry.affected ELSE {})]

(* PendingStateOverlay.update: deltas of a pool that are alive are added to. *)
OverlayUpdated(p, swap) ==
  LET before == UNION {e.swaps : e \in OfPool(Live(overlay), p)}
  IN Touched(Live(overlay), [pool |-> p, age |-> 0, swaps |-> before \cup {swap}], maxPools)

(* buildStateOverride gives the reserves or the price after the swap, from   *)
(* the state as it was fetched.  The slots of a DODO pool are read as a V3   *)
(* pool's, and do not change its own state.  For Curve, Balancer and WooFi   *)
(* there is none.                                                            *)
Usable(p) == stateCache[p] # NoState /\ stateCache[p].usable
Overrides(p, kind) == kind = KindOf[p] /\ kind \in {"v2", "v3", "dodo"} /\ Usable(p)

(* What is decoded has no tokens, and the key of a V4 pool is not made of    *)
(* none: the builder throws, and processPendingTx with it.                   *)
Throws(p, kind) == kind = "v4" /\ KindOf[p] \in {"v3", "v4"} /\ Usable(p)

DiffOf(p, swap) ==
  IF KindOf[p] \in {"v2", "v3"} THEN [q \in {p} |-> swap] ELSE <<>>

(* Traced a call without its data, which it lost, the node reports the       *)
(* balances at most, and no slots.                                           *)
debugTraceCall(p, changed) ==
  [success |-> changed, diff |-> <<>>, affected |-> IF changed THEN {p} ELSE {}]

(* MempoolSimulator.buildOverride: it tries the same builder, in vain, and   *)
(* then a trace.                                                             *)
buildOverride(p) ==
  traces' = IF stateCache[p] = NoState THEN traces ELSE traces \cup {p}

invalidatePoolTicks(p) ==
  IF stateCache[p] = NoState THEN stateCache ELSE [stateCache EXCEPT ![p].ticks = FALSE]

-----------------------------------------------------------------------------
(* decodeSwapCalldata: the pool is the one that is called or, called through *)
(* something else, one whose address is found in the data.                   *)
DecodedPools(to, mentioned) ==
  IF to \in knownPools THEN {to} ELSE {mentioned} \cap knownPools

(* SwapUsdValuator.evaluate: what has no price passes.                       *)
LargeEnough(p, small) == p \notin Valued \/ ~small

(* computeV2OverlayDeltas: a swap decoded with the ABI of V2 moves reserves. *)
V2OverlayDeltas(p, kind, swap) ==
  IF kind = "v2" THEN {[pool |-> p, swap |-> swap]} ELSE {}

Override(p, swap) ==
  /\ entry' = StoreUpdated(DiffOf(p, swap), {p})
  /\ stateCache' = invalidatePoolTicks(p)
  /\ latest' = IF DiffOf(p, swap) = <<>> THEN latest
               ELSE [latest EXCEPT ![p] = [swap |-> swap, age |-> 0]]
  /\ UNCHANGED <<overlay, traces>>

NoOverride(p, kind, swap) ==
  /\ buildOverride(p)
  /\ overlay' = IF V2OverlayDeltas(p, kind, swap) = {} THEN overlay ELSE OverlayUpdated(p, swap)
  /\ UNCHANGED <<entry, stateCache, latest>>

Emit(p) ==
  IF \E e \in OfPool(lastEmitByPool, p) : e.age < coalesceTtl
  THEN UNCHANGED <<lastEmitByPool, signal>>
  ELSE /\ lastEmitByPool' = Touched(lastEmitByPool, [pool |-> p, age |-> 0], maxEmits)
       /\ signal' = TRUE

(* processPendingTx.  A swap of no pool that is known is not looked at.      *)
(* Whether the swap can be applied to the state is executes; only one that   *)
(* calls the pool itself can be too small to follow.                         *)
PendingSwap(to, mentioned, kind, executes, small) ==
  \E p \in DecodedPools(to, mentioned) :
    LET swap == swaps + 1
    IN /\ swaps < MaxSwaps /\ swaps' = swap
       /\ heard' = [heard EXCEPT ![p] = @ \cup {swap}]
       /\ UNCHANGED knownPools
       /\ IF executes /\ Throws(p, kind)
          THEN UNCHANGED <<stateCache, entry, overlay, traces, lastEmitByPool, signal, latest>>
          ELSE /\ IF executes /\ Overrides(p, kind)
                  THEN Override(p, swap) ELSE NoOverride(p, kind, swap)
               /\ IF to = p /\ ~LargeEnough(p, small)
                  THEN UNCHANGED <<lastEmitByPool, signal>> ELSE Emit(p)

(* applyTraceOverride comes to an end, whenever it does, and writes without  *)
(* a look at what has come since.                                            *)
TraceAnswers(p, changed) ==
  LET answer == debugTraceCall(p, changed)
  IN /\ p \in traces /\ traces' = traces \ {p}
     /\ IF answer.success
        THEN /\ entry' = StoreUpdated(answer.diff, answer.affected)
             /\ stateCache' = invalidatePoolTicks(p)
        ELSE UNCHANGED <<entry, stateCache>>
     /\ UNCHANGED <<knownPools, overlay, lastEmitByPool, signal, swaps, heard, latest>>

setKnownPools(pools) ==
  /\ knownPools' = pools
  /\ UNCHANGED <<stateCache, entry, overlay, traces, lastEmitByPool, signal, swaps, heard, latest>>

(* A newHead: what is pending is mined or is not heard of again.             *)
NewHead ==
  /\ entry' = NoEntry /\ overlay' = <<>>
  /\ heard' = [p \in Pools |-> {}] /\ latest' = [p \in Pools |-> NoSwap]
  /\ UNCHANGED <<stateCache, knownPools, traces, lastEmitByPool, signal, swaps>>

(* A tick that executes takes the signal.                                    *)
TakeSignal ==
  /\ signal /\ signal' = FALSE
  /\ UNCHANGED <<stateCache, knownPools, entry, overlay, traces, lastEmitByPool, swaps, heard, latest>>

(* The fetchers and a reorg.                                                 *)
StateChanges ==
  /\ \E p \in Pools :
       \E state \in [usable : BOOLEAN, ticks : {KindOf[p] = "v3", FALSE}] \cup {NoState} :
         stateCache' = [stateCache EXCEPT ![p] = state]
  /\ UNCHANGED <<knownPools, entry, overlay, traces, lastEmitByPool, signal, swaps, heard, latest>>

(* Nothing is older than a unit past every time to live.                     *)
Aged(age) ==
  IF age > ttl /\ age > coalesceTtl THEN age ELSE age + 1
OverridesAge ==
  /\ entry' = IF entry = NoEntry THEN entry ELSE [entry EXCEPT !.age = Aged(@)]
  /\ overlay' = [i \in DOMAIN overlay |-> [overlay[i] EXCEPT !.age = Aged(@)]]
  /\ lastEmitByPool' =
       [i \in DOMAIN lastEmitByPool |-> [lastEmitByPool[i] EXCEPT !.age = Aged(@)]]
  /\ latest' = [p \in Pools |-> IF latest[p] = NoSwap THEN NoSwap
                                ELSE [latest[p] EXCEPT !.age = Aged(@)]]
  /\ UNCHANGED <<stateCache, knownPools, traces, signal, swaps, heard>>

MempoolServiceNext ==
  \/ \E p \in Pools, executes, small \in BOOLEAN :
       \E to \in {p, Router}, kind \in {KindOf[p], "v2", "v4"} :
         PendingSwap(to, p, kind, executes, small)
  \/ \E p \in Pools, changed \in BOOLEAN : TraceAnswers(p, changed)
  \/ setKnownPools(Pools)
  \/ NewHead \/ TakeSignal \/ StateChanges \/ OverridesAge

MempoolServiceSpec == MempoolServiceInit /\ [][MempoolServiceNext]_mempoolVars

-----------------------------------------------------------------------------
(* getProjectedPoolState.  The store comes first, the deltas do not count    *)
(* then.  Of a view these are the swaps in it, and whether it has ticks.     *)
InView(p) ==
  IF Active /\ p \in entry.affected
  THEN {entry.diff[q] : q \in {p} \cap DOMAIN entry.diff}
  ELSE UNION {e.swaps : e \in OfPool(Live(overlay), p)}

(* applyOverrideToPoolState drops the ticks of a V3 pool whose price it sets. *)
TicksInView(p) ==
  stateCache[p].ticks /\ ~(KindOf[p] = "v3" /\ Active /\ p \in DOMAIN entry.diff)

MempoolServiceTypeOK ==
  /\ stateCache \in [Pools -> [usable : BOOLEAN, ticks : BOOLEAN] \cup {NoState}]
  /\ knownPools \subseteq Pools /\ traces \subseteq Pools
  /\ DOMAIN entry.diff \subseteq entry.affected /\ entry.affected \subseteq Pools
  /\ Len(overlay) <= maxPools /\ Len(lastEmitByPool) <= maxEmits
  /\ \A p \in Pools : Cardinality(OfPool(overlay, p)) <= 1
  /\ signal \in BOOLEAN /\ heard \in [Pools -> SUBSET (1..swaps)]
  /\ \A p \in Pools : latest[p] = NoSwap \/ latest[p].swap \in heard[p]

(* "Later txs override earlier ones for the same storage slots.  Different   *)
(* pools are combined into a single override object."  The state a V2 or V3  *)
(* pool is simulated with has in it the last pending swap that could be      *)
(* applied to it, until the next head or its time to live, whatever happens  *)
(* to other pools, to the state that is cached, and to traces that come      *)
(* late; it has no swap in it from before the last head, and a V3 state with *)
(* a swap in it has no ticks from before the swap.                           *)
ProjectionFollowsPending ==
  \A p \in Pools :
    stateCache[p] # NoState /\ stateCache[p].usable =>
      /\ InView(p) \subseteq heard[p]
      /\ latest[p] # NoSwap /\ latest[p].age <= ttl => latest[p].swap \in InView(p)
      /\ KindOf[p] = "v3" /\ InView(p) \cap {latest[p].swap} # {} => ~TicksInView(p)
=============================================================================
