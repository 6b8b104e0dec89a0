# TLA+ model of the Polygon arbitrage bot

The bot watches Polygon pools through an indexer, searches arbitrage cycles over a pool graph,
simulates them and executes the best of them through its own contract, publicly or as MEV bundles.
It is one Node process: JavaScript runs one turn at a time, and everything that is hard here happens
between the `await`s of tasks that share objects. This directory models that: who may step between
two awaits of whom, what they read before and write after, what the network does meanwhile.

Every definition is translated from the TypeScript under `src/`; `PROJECT.json` ("map") names the
file, lines and symbol it stands for. Paths below are relative to `src/src/`.

## 1. The system: inventory

| component | state | operations | interacts with |
|---|---|---|---|
| Nonce manager `services/execution/nonce.ts` | counter (`localNonce` + `pendingCount`), nonces in flight, insertion-ordered stale set of at most 20 | `initialize`, `getNextNonce`, `markInFlight`, `confirmNonce`, `markStale`, `recoverStale`, `resync` | called by the execution service from HF passes and recovery ticks |
| Execution service `services/execution/service.ts`, `submit.ts`, `receipt.ts` | in-flight route marks (35 s), `consecutiveStaleFailures` | `execute`, `batchExecute`, `reserve/confirm/releaseExternalNonce`, `confirmExecution`, `finalizeFromReceipt`, `tickNonceRecovery` | nonce manager, quarantine, tracker, relays and RPC nodes |
| MEV backrun path `services/mev/*`, `orchestrator/pass_hf.ts` | none of its own | bundle submission, wait for inclusion, public fallback | external nonces of the execution service, relay |
| Pass loop `orchestrator/pass_loop.ts`, `pass_lf.ts`, `pass_hf.ts`, `pass_reorg.ts`, `hf_snapshot.ts`, `pass_state.ts`, `head_refresh.ts` | `PassLoopState`: cached cycles and graph, fingerprint, timers, snapshot generation, HF filter cache, in-flight flags | one HF tick after the other; a background LF tick, a background enumeration that outlives it, background reorg checks, newHead handler, mempool signals | all of the below |
| Quarantine `services/execution/quarantine.ts` | entries with back-off, a revision | `add`, `recordSuccess`, `isQuarantined` (lifts what has expired), `prune` (nobody calls it) | execution service, HF filter |
| State refresh `services/state_refresh.ts` | pool list, guards of discovery, bootstrap and expansion | progress-triggered and periodic discovery, LF refresh task, bootstrap | indexer, pass loop, fetcher |
| Reorg detector `infra/resilience/reorg_detector.ts` | up to 200 tracked block hashes | `trackBlock`, `checkReorg` | pass loop, newHead |
| Circuit breakers, tier manager, indexer monitor `infra/resilience/*` | closed/open/half-open; tier | `execute`, `assess` | RPC, GraphQL, pass loop (the tier gates the ticks) |
| Tracker and ranking `services/execution/tracker.ts`, `services/ranking/*` | trades and win rates, bounded | `record`, ranking of candidates | execution service, HF tick |
| Candidates and calldata `services/execution/candidate.ts`, `builder.ts`, `dryrun.ts`, `calldata/*` | none | build, group, encode, dry-run | HF tick |
| Gas oracle, price oracle `services/execution/gas.ts`, `services/oracle/*` | last snapshot; TTL caches | refresh, read | ticks |
| Mempool `services/mempool/*` | overlays and pending signals | decode, value, signal | pass loop |
| RPC `services/rpc/*`, `infra/rpc/*`, `rpc/manager.ts` | request queue, concurrency, sockets | schedule, retry, reconnect | everything that reads the chain |
| HyperIndex client and process `infra/hypersync/*` | child process, progress | supervise, subscribe, query | state refresh |
| Pipeline `pipeline/*` | graph, state cache | build and patch the graph, find cycles, simulate, fetch state | pass loop |
| Mathematics and assessment `core/math/*`, `core/assessment/*` | none | swaps of five AMM families, profit | simulator |
| Utilities and types `core/types`, `core/utils`, `core/abis` | `BoundedMap` | `mapWithConcurrency` and the like | everything |
| Boot and lifecycle `orchestrator/boot.ts`, `lifecycle.ts`, `shutdown.ts`, ... | wiring | start, stop, status file | everything |
| Garbage tracker `infra/garbage/*` | deny list in memory and in a file | load, clean-up, mark, write | fetcher, discovery |
| Configuration and CLI, observability, TUI | settings; counters; pause flag | parsing, logging, rendering | pause flag only |
| HyperIndex handlers `src/hyperindex`, contract `src/sol`, scripts | separate programs | | |

**What is hard.** *Nonces*: submissions are confirmed when accepted and not when mined, receipts time
out while the transaction lives on, recovery holds a nonce across an await, a resync forgets
everything. *Execution*: each of three paths must settle the nonce, the route mark, the quarantine and
the tracker on every way out. *Pass loop*: four kinds of background work write the record that the HF
tick reads without a lock; a reorg drops state that an enumeration is about to write; caches are
reused while two counters have not moved. *Discovery, RPC*: coalescing guards drop or chain
requests; pages end inside a block; queues have limits; sockets reconnect, several at once. *State of pools*:
answers are told apart by position, arrive late and are written over newer ones; ticks are read in a second
call around a price that is gone. *Supervision*: health checks that nobody awaits restart the indexer
over each other, a crash and a shutdown. *Integers*: rounding and scales decide whether a quote can be paid.

**What makes them correct.** No nonce twice or lost without a reason; no mark, nonce or group left
behind; every mined trade recorded; a reused filter or graph is the one that would be computed; what
is discovered is enumerated; what is quarantined comes back; what is invalidated stays invalid; no quote promises more than the pool
pays; what failed recovers. The
hazards, each at its line and with the properties that would catch it, are in `PROJECT.json`.

## 2. Modules

| module | models | lines it stands for |
|---|---|---|
| `NonceAllocator` | abstract: a counter that hands out each number once between two restarts | the public face of `nonce.ts` |
| `NonceManager`, `NonceManagerProofs` | the methods as state changes, then the manager alone with its methods called in any order | `nonce.ts` |
| `ExecutionService`, `ExecutionServiceProofs` | one HF pass executing groups, recovery ticks, `NM!` the nonce manager, the network; the proofs are also of `RouteCalldata` | `service.ts`, `pass_hf.ts:705-787`, `backrun.ts`, `receipt.ts`, `submit.ts` |
| `PassLoop`, `PassLoopProofs` | `PassLoopState` and everything that writes it; the proofs are also of `ReorgDetector` | `pass_loop.ts`, `pass_lf.ts`, `pass_reorg.ts`, `hf_snapshot.ts`, `pass_state.ts` |
| `HfTick` | one HF tick between its snapshot and its trades | `pass_hf.ts`, `dryrun.ts`, `candidate.ts`, `quarantine.ts`, `tracker.ts`, `scorer.ts` |
| `ReorgDetector` | tracked blocks, `checkReorg` over RPC, newHead, and a chain that reorganises | `reorg_detector.ts`, `pass_reorg.ts`, `pass_loop.ts:99-114` |
| `TokenRates` | rates spread from pool to pool, the price oracle, a reorg while it is awaited | `rates.ts`, `pass_rates.ts`, `pass_lf.ts`, `price_oracle.ts` |
| `PoolStateFetch` | multicalls by position, ticks in a second call, failures, clearing | `fetcher.ts`, `tick_fetcher.ts`, `head_refresh.ts`, `pool_graph.ts` |
| `CycleFinder`, `CycleFinderProofs` | depth-first passes, deduplication, scores, quotas; Bellman-Ford | `finder.ts`, `graph.ts` |
| `AmountSearch` | how much to borrow for a cycle, and whether it pays | `pipeline.ts`, `uniswap_v2_solver.ts`, `hybrid_solver.ts`, `core/assessment` |
| `AmmQuotes` | quotes of V2, Curve, Balancer and DODO pools, traded one after another | `core/math`, `simulator.ts` |
| `ConcentratedLiquidity` | the walk over ticks of V3 and V4 pools, with a window of ticks or none | `uniswap_v3.ts`, `uniswap_v4.ts`, `swap_math.ts`, `sqrt_price_math.ts` |
| `RouteCalldata` | the calls a candidate becomes, and what the contract makes of them | `candidate.ts`, `builder.ts`, `calldata/`, `ArbExecutor.huff` |
| `Discovery` | discovery over the pages of the indexer's table | `state_refresh.ts`, `hyperindex_graphql.ts` |
| `HyperIndexer` | the indexer's process, the monitor that supervises it, the shutdown | `hyperindex_process.ts`, `hyperindex_monitor.ts` |
| `IndexerOutput` | the indexer's lines, the error suppressor, the heartbeat | `envio_line_parser.ts`, `hyperindex_process.ts` |
| `ProgressFeed` | the indexer's progress by subscription or polling | `hasura_progress_subscriber.ts` |
| `WebSocketSubscriber` | heads and pending transactions over sockets that fail | `websocket_subscriber.ts` |
| `RequestScheduler` | the token bucket, its worker, retries | `request_scheduler.ts`, `retry.ts`, `rpc/manager.ts` |
| `CircuitBreaker` | calls in flight at once; the tier | `circuit_breaker.ts`, `tier_manager.ts` |
| `GasOracle` | overlapping polls, the average, the fee that is offered | `gas.ts`, `submit.ts` |
| `MempoolService` | pending swaps, overrides, deltas, traces, the state they project | `services/mempool`, `overlay.ts` |
| `GarbageTracker` | the deny list in memory and in its file, restarts | `garbage-tracker.ts` |
| `Streams` | `ProgressFeed` and `WebSocketSubscriber` together, and what is promised of both | |
| `Lists`, `ListProofs` | what a filter or a splice leaves of a list, and lemmas about it | |
| `PoolDataProofs` | proofs about `Discovery`, `GarbageTracker` and `MempoolService` | |
| `IndexerProofs` | proofs about `HyperIndexer` and `IndexerOutput` | |
| `RpcProofs` | proofs about `RequestScheduler`, `GasOracle`, `Streams` and `PoolStateFetch` | |
| `MC*` | small instances and symmetry | |

A module whose theorems state properties of a run is extended by that run's MC module, so that both speak of the
same definition. Modules extended together have names of their own: `DiscoveryInit`, `ReorgDetectorNext`, and so on.

`ExecutionService` composes `NonceManager`: it instantiates it as `NM` over its own variables and
conjoins `NM!Reserve`, `NM!Confirm`, `NM!Stale`, `NM!RecoverStart`, ... with the caller's step, because
the code calls them in the caller's turn. The property `ManagerSpec == NM!Spec` shows that the service
uses the manager only in ways `NonceManager` allows, so what is proved there holds in the composition.
The other components are modelled each with its callers and its environment: `PassLoop` takes reports of
reorgs, discoveries and the tier as free inputs, which `ReorgDetector`, `Discovery` and `CircuitBreaker`
show the other side of; `PoolStateFetch` and `TokenRates` have the part of the LF tick that calls them.

**NonceManager.** A JavaScript `Set` iterates in insertion order; it is a set `staleNonces` and the pairs
`staleOrder` of its members in order of insertion. `recoverStale` awaits the stuck-transaction handler, so
it is two steps (`RecoverStart`, then `RecoverDone` or `RecoverFailed`) with the captured nonce in
`recovering`. A `resync` is one step with an arbitrary answer: the transaction count was read some time
before. `everIssued` keeps the nonces from before a resync, because their holders still settle them.

**ExecutionService.** `hfPc` names the await the HF pass is at ("submit", "receipt", "batchSubmit",
"batchReceipts", "bundle", "inclusion", "bundleReceipt"); "execute" and "batch" are points in the middle
of a turn, where no other task of the bot may step (`AtAwait`) although the network may. The network keeps
a transaction in `transit`, `pool` or `mined`; it may lose, deliver, evict or mine in nonce order at any
time, so an error answer or a 5 s race says nothing about the transaction. `submit` resolves only for a
transaction a node has. A receipt wait answers for mined transactions, and may time out any time. The
relay, reverts and the price of a replacement are free choices. A resync reads the pending count of a node
that may not know privately relayed transactions.

**PassLoop.** A route is named by the pool it needs, so cached cycles are a set of pools and a pool
fingerprint is the pool set; `{}` is the empty fingerprint, and `NoGraph` is null. A timestamp that is
compared with an interval is the Boolean "elapsed" (`lfDue`, `enumDue`); setting a timestamp to 0 is setting
it TRUE. The generation and the revision are compared only for equality with those of the cached filter:
`filter.valid` stands for both being equal. `Iterate` is one iteration to the first await of the HF tick,
`HfTickEnds` the rest of it; `LfRefreshed`/`LfPublished`/`LfFailed` are the LF tick; `EnumGraph`,
`EnumSearched`, `EnumFetched`, `EnumFailed` the enumeration; `CheckAnswered`, `CheckInvalidates` a
background reorg check, which awaits `trackBlock` between the two; `NewHeadMismatch` the newHead handler.
The finder may return any subset of its graph's routes. `passes` is what `filterPoolsForRouting` says of a pool:
the fingerprint is that of all pools, the graph has those that pass, and an update in place adds none, so a
pool that passes later comes in with the next full rebuild only (`UseIncrementalGraph`, every
`RebuildInterval`-th time, counted as in the code). "again" marks a pool once turned away, for the properties.

**HfTick.** A cycle is its route key. `turn` is the window of the rotation and what has been simulated since
the list last changed, `tick` the phases of a tick with an await each: snapshot, simulation in batches
with a deadline, dry runs with a limit of concurrency, groups. Time passes, the snapshot changes and routes
are quarantined in between. Deviations the code has and the model keeps: a short list is not rotated at
all, longer hops come after shorter ones, and the offset passes over batches that were left out
(`RotationCovers` excepts just these); the back-off never gets past its base, as a lookup forgets the entry.

**ReorgDetector.** A block is its number and the fork it was mined on, so hashes are equal exactly when
blocks are. The methods are operators on a list of tracked blocks: `TrackedWith` (`trackBlock` after its
await), `PrunedFrom`, `ParentMismatch`. `NewHead` is the handler: it compares and tracks in one turn, since a
head names its parent. A check (`CheckStart`, `TipArrives`, `BlockRead`, `BlockArrives`, `ParentArrives`)
keeps the tip, the height it started from and the entry it is comparing across its awaits; an RPC call is
two steps, the chain answering and the answer arriving, with anything in between. `lastSafeBlock` and
`reorgedBlocks` are written only, and nobody calls `prune`.

**TokenRates.** A pool is its reserves, and a rate of 0 is no rate. `Rounds` is a fold over the pools, repeated until
nothing changes; whether a pool passes a rate on is asked of the rate its first rated token has by then
(`Propagates`). The tick computes only when it has cycles, is asked to, or has few rates. A reorg may come during
either await of the tick; `pass_lf.ts:142` then overwrites the flag that asked for a full refresh. Weights of Balancer's
pools, WooFi's oracle price and the 5 per cent by which the oracle may differ are left out. The copy of
the rates in the HF snapshot is `PassLoop`'s snapshot.

**PoolStateFetch.** `fetchPoolState` makes one list of calls and reads one list of answers, two loops over
the pools that must agree on how many belong to each: `CallsFor` is what the first loop asks of a pool, and
`TakenAnswers` what the second takes, from the place its `Offset` gives it; an answer has a type, an owner and
a price. Whole-list fetches (head refresh, prefetch, bootstrap, expansion) and the fetch for the
cycles overlap; ticks come in a second task; `Reorg` clears everything between a call and its answer. Four kinds stand for the protocols.

**CycleFinder, AmountSearch, AmmQuotes, ConcentratedLiquidity.** Algorithms: `Init` chooses the input and the
steps are those of the search. A weight is a small integer for a logarithm; a DFS step extends or drops
an edge, with the marks of tokens and pools as in the code. The recursion of `collectCyclesPrepared` is `path`, and
`next`, the edge that each call on the stack tries next. Prices are in units of `Q` and amounts in units
of `One`, the code's divisions in the code's order; exponentials and logarithms of Balancer's weights are the
same series with fewer terms. `AmountSearch` has V2 hops and, for all others, lines with a cap.

**RouteCalldata.** The encoder makes the calls of each hop (`EncodedRoute`), the contract executes them hop after hop
(`pc` is the hop and the call in it; the code's list is flat), and a V2 pair or a pool of DODO's that was paid pays up
to some part less than simulated. The contract is `ArbExecutor.huff`, which `sol/script/ArbExecutor.s.sol` deploys, and each of
its functions is modelled by what its instructions do, confirmed by executing the bytecode of
`sol/test/HuffDeployer.sol` on the calls: `TransferAll` runs and sends nothing, since it asks the recipient for the balance
(line 152 copies `to`); `Approve` calls a selector that is not `approve`'s (line 70); the callbacks of V3 and Kyber
pools send nothing, since they do so if zero is greater than the amount (678, 685), and V4's settles without a transfer.
V3 and Kyber pools are given a negative amount, which they take as the output wanted. What pools would do after
that does not arise (`SwapUnpaid`).

**Discovery.** A row is a pool with its block; a page is read in one step, and between two the table grows or is rolled
back (`RollBack`: rows above a block go and may be written again at or below the cursor). The cap on pages, a query that
fails and a result that does not parse end a run as in the code; `missed` holds the rows each of them passes over.
The guards (`discovery`, `pendingRun`, the debounce) and the chained run are those of `runPoolDiscovery`.

**HyperIndexer.** `task` says at which await the main program and each health check are; children live on
their own (`Running`), while `proc` is the one the program knows. `OneIndexer` excepts two checks that were
both past the guard when they decided to restart; `CrashRecovered` excepts a `stop` whose child
exits within its five seconds, because the listener then clears the timeout that would have resolved it.

**IndexerOutput, ProgressFeed, WebSocketSubscriber, RequestScheduler, CircuitBreaker, GasOracle.** One action per
event: a line, a socket event, a timer, an answer, a tick of the clock. A failed socket raises an error and
then a close, and both handlers act on `this.ws`, whichever socket they belong to. The bucket of the
scheduler is filled only when its worker looks; `executed` remembers when requests ran.

**MempoolService.** A swap is a number, and a state says which swaps are in it. V2 pools collect reserve deltas,
V3 pools override their slots, traces answer late or never. `InView` is what a simulation would read.

**GarbageTracker.** `flush` is the promise of the write under way, `list` what it writes, `file` what is on disk,
perhaps torn. The process may end at any step; `late` are marks after the last write began.

## 3. Runs

| run | question | instance | result |
|---|---|---|---|
| `proved_components` | do the components with theorems of their own hold on an instance? | nonce manager: nonces 0..2, stale limit 2, two recoveries; discovery, indexer and its output, garbage tracker, request scheduler, progress feed, WebSocket subscriber, gas oracle, pool state fetch | holds, 1.04 million states; the manager implements `NonceAllocator` |
| `execution` | does execution settle everything, publicly and with failing bundles? | two routes, one tick; without bundles nonces 0..3, with bundles nonces 0..2 and the fallback off | holds, and `ManagerSpec` |
| `pass_loop` | are the reused filter and graph the right ones? | two pools, one check slot, one report, one failure, every second graph rebuilt, once with quarantined routes and once with pools that fail the routing filter; beside it the reorg detector: three heights, limit two, one reorganisation, one failing call | holds, 3.5 million states |
| `services` | does each service and algorithm keep its promise? | ten small instances of nine modules, see below | holds, 720 000 states |
| `liveness` | does what failed recover? | five of them, under their fairness | holds, 400 000 states |
| `exec_forgets` | README "Stale nonces are recovered automatically" | nonces 0..2 | violated |
| `exec_leak` | "Caller must call releaseExternalNonce on timeout/failure" (`service.ts:164`) | nonces 0..2 | violated |
| `pass_loop_reorg` | "Drop cached routes and force LF re-enumeration" (`pass_reorg.ts:44`) | as `pass_loop` | violated |
| `reorg_overwritten` | "Detect fork before mutating tracked chain" (`reorg_detector.ts:52`) | three heights, limit 3 | violated |
| `fetch_v4_key` | "V4 PoolMeta.id is bytes32 poolKey" (`fetcher.ts:240`) | a V4 key before a V3 pool | violated |
| `dodo_quotes` | README "Exact profit calculations for ... DODO vPMM" | six pools at their target | violated |
| `v2_chains` | "to further protect V2 chains" (`calldata/index.ts:43`) | routes of two V2 pairs | violated: the second is paid nothing |

**How the runs of several components are built.** `MCServices` instantiates six modules over the same variables
`x1, ..., x12`: `Init` chooses one `component`, whose variables are then these, in their order, and the others
have the value 0. `MempoolService`, `RouteCalldata` and `CycleFinder` it extends. The components share no state in this run; it is
many small runs in one, and a property is that of one component (`component = "..." => ...`). `HfTick` comes twice, with many steps and with
many cycles. `MCProvedComponents` and `MCPassLoop` extend their modules instead, so that the properties are those of
the theorems: `component` says which one takes its steps, and the variables of the others keep their initial
values. Tasks, pools and check slots are symmetric there. `MCLiveness` does the same with the five components that have a liveness
property, and states their fairness as the premise of each property: `Spec` itself assumes nothing, and a
behaviour of one component is not asked to be fair to another. `MCExecution` chooses between two
configurations of `ExecutionService` the same way.

**Properties.**
`NonceManager`: `IssuedBelowNext` (no nonce twice between resyncs, also with confirmations from before the
resync), `NoNonceForgotten` (between watermark and counter every nonce is in flight, stale, or left
through recovery or eviction), `AllocatorSpec`.
`ExecutionService`: `InFlightRouteHeld`, `InFlightNonceHeld` (no mark or nonce outlives its transaction on
any way out), `NonceAccounted` (every nonce is mined, held, stale, or left through a named door),
`MinedTradeRecorded` and `RouteTwiceOnlyIfGivenUp` (what the tracker may miss, and when two transactions of a route can both be mined:
only after one's nonce was given up), `BundledGroupFinishes`, `BundledStaleCancelled` (a stale nonce gets a
cancellation broadcast, or leaves the set as `exec_forgets` shows, by overflow or by a resync; that the cancellation arrives
is not claimed, for `boot.ts:170-189` swallows its errors).
`PassLoop`: `FilterExact`, `IncrementalGraphMatchesPools` (a graph patched in place lacks no pool but those the routing
filter turned away), `PoolsEnumerated` (a pool comes into the graph, also one that passes the filter late), `ExpiredLifted`; its `TypeOK`
also bounds the number of invalidations by the number of reports, which no type says by itself.
`HfTick`: `RotationCovers`, `GroupsSound`. `ReorgDetector`: `ReportsReal` (no report at a height where the
chain replaced nothing, whatever order heads, tips and answers arrive in), `StaleUntracked`; its
`ReorgDetectorTypeOK` also says that there is one entry per height. `TokenRates`: `RatesSpread`
(a tick that is due leaves no pool that could still give a rate, at the rates it has come to).
`PoolStateFetch`: `TicksCoverPrice` (the ticks of a state are around its own price), `CyclePoolsUsable`.
`CycleFinder`: `EveryCycleFound`, against the set of all simple cycles (and what is found is simple at every
step). `AmountSearch`: `BestAmountChosen`, against every amount within the bounds. `AmmQuotes`: `NothingForFree` (no sequence of trades with one pool
makes a profit). `ConcentratedLiquidity`: `WindowNeverOverquotes`, against the pool with all its ticks.
`RouteCalldata`: `NoRouteSettles` (as calls and contract are, no candidate's transaction settles). `Discovery`:
`NoPoolSkipped` (no row up to the block that discovery goes on from is missing, but for the rest of a block that a last
page ended in, a result that did not parse, and rows a rollback wrote again behind the cursor). `HyperIndexer`: `OneIndexer`, `CrashRecovered`.
`IndexerOutput`: `ErrorsAccounted`. `ProgressFeed` and `WebSocketSubscriber`: `NoStreamSilent`.
`RequestScheduler`: `SchedulerSound` (rate and wake-up). `CircuitBreaker`: `BreakerCloses`. `GasOracle`:
`FeeCoversBase`. `MempoolService`: `ProjectionFollowsPending`. `GarbageTracker`: `MarksPersist`.

**Bounds and why they are enough.** *Nonces.* Three nonces (four in `execution`) are one in flight, one before and one after; with two
recoveries and a stale set of two, one recovery can overlap a resync that hands a number out again, a
late confirmation that jumps over unsettled nonces, and an eviction of what the other is recovering.
*Execution.* Two routes are the smallest batch in which one submission fails between others. `MaxFailures` (3
in the code) is 1 where a resync must be reached within the nonce bound. *Pass loop.* Two pools let one be
discovered, or pass the filter, while the other is enumerated; every second graph that could be patched is rebuilt;
one report is enough for each race with an enumeration, as an invalidation leaves nothing of the first for a
second to meet (overlapping checks are in the detector's instance and in the theorems). *Reorgs.* Three
heights with a limit of two reach eviction and a walk past the newest entry; one reorganisation of up to three
blocks leaves stale entries below the highest mismatch; one failed call skips a height. *Fetches.* One pool, one
head refresh, another whole-list fetch and the fetch for cycles are three overlapping writers and a tick
task; three faults reach the threshold that makes a state invalid (in `liveness` both thresholds are scaled down,
to two and one, with two faults: the same cases in fewer states). *Indexer.* Two health checks overlap
each other and the shutdown; three starts are a first one, a restart, and one more by a late check. *Discovery.*
Three pools, two blocks, pages of one row and at most two of them: a page ends inside a block, the cap is
reached, one query or result fails, one block is rolled back. *Sockets.* Three sockets
and three timers are what an error with its close, twice, can leave. *Scheduler.* Three requests of two
priorities and a bucket of one token: one runs, one waits, one arrives. *Gas.* The fee may rise by an eighth
with each block, to more than twice the first, and fall again; two polls are in flight, and fees are used within
two blocks. `FeeMarginConstants` names what the margin rests on: an average that follows by at least 30 per cent, as
configured, and fees large next to what an integer division drops (68 here, wei in the code). *Rates.* Four tokens, three
pools in the wrong order need a second round, one of them of three tokens; reserves of one and two make a pool deep or not
depending on the rate, and three rates of four are enough not to be computed for. *Cycles.* Four pools over three tokens, two of them parallel, hold cycles of two and
three hops; prices of two values make some of them earn. *Amounts and quotes.* Each V2 pair of nine shapes
with each other hop; four families of pools, balanced and not, with and without fees, three trades. *Ticks.* Seven
ticks and a window of one: a trade ends inside, at and beyond it. *Calldata.* Every pair of the nine kinds, some
routes of three, all profitable enough to settle if the second hop were paid. *Mempool.* Three pools of three kinds and two swaps, so that one follows another in the same or
in another pool. *Garbage.* Two restarts. `CHECK_DEADLOCK FALSE` where a bound or the end of the work
ends the behaviour; `pass_loop`, `pass_loop_reorg` and `reorg_overwritten` check deadlock. In
`liveness` the pass loop has no reorg, to keep the graph small: its liveness is not checked in the presence of one. It
comes twice, with quarantined routes (`PassLoop`) and with a pool that fails the routing filter (`Routing`).

**Fairness.** `ExecutionService`: submissions answer or throw and receipt waits have a deadline, so a
started group goes on (weak, `GroupStep`); a started tick goes on (weak); the loop starts a tick 5 s
after the last, after an HF pass, so a tick that can start again and again does (strong, `TickStart`).
Nothing is assumed of the network. `PassLoop`: each await of the loop and of its background tasks
returns, and time passes (weak, `Iterate`, `HfTickEnds`, `LfSteps`, `EnumSteps`, `LfIntervalElapses`,
`EnumIntervalElapses`: the 30 s after which an enumeration is due again are a clock's).
Nothing is assumed of signals, heads, reports, discovery or the routing filter. `ReorgDetector`: LF ticks
go on starting checks and RPC calls return or fail (weak, the existence of a `CheckStart`, each `CheckStep`);
nothing of heads or the chain. A block outside the window of `checkDepth` below the entry tracked last is
excepted from `StaleUntracked`: no check looks at it. `PoolStateFetch`: LF ticks go on fetching and a fetch ends
(weak, `FetchForCycles`, `FetchEnds("lf")`), failures expire and states grow old (`FailureExpires`, `Stales`:
clocks); nothing of heads and of the answers, whose faults are bounded. `HyperIndexer`: started tasks go on, the
interval fires and a signalled child exits (weak, `TaskRuns`, `CheckRuns`, `CheckBegins`, `SignalledExits`).
`CircuitBreaker`: callers go on calling, calls end, time passes; `BreakerCloses` has the premise that the backend
works for good. Both liveness properties of `PassLoop` except a paused loop, and a tier that does not
enumerate or simulate: the code then promises nothing.

## 4. What the violated runs show

1. **A confirmation drops a stale nonce nobody covers** (`nonce.ts:53`). `confirmNonce` is called when a
   submission is *accepted*. A batch whose first submission fails and second is accepted removes the
   first nonce from the recovery set without any transaction for it; the second cannot be mined.
2. **An inclusion wait that throws leaks a nonce** (`pass_hf.ts:757`): an RPC error other than "not found"
   leaves the group with the reserved nonce neither confirmed nor released.
3. **An enumeration begun before a reorg reinstalls its routes** (`pass_lf.ts:294`) after the invalidation,
   and records itself as fresh, which cancels the forced re-enumeration.
4. **A replaced newest block is overwritten without a report** (`reorg_detector.ts:85`). The head that replaces
   it has the same parent, so the parent check passes; `trackBlock` replaces the hash without comparing, and
   later checks find the new hash canonical. Routes and pool states of the replaced block stay in use.
5. **A V4 pool known by its key takes the answers of others** (`fetcher.ts:434`). The loop that makes the calls
   skips it, the loop that reads the answers takes five for it, and every pool after it is shifted.
6. **DODO quotes lose a scale** (`core/math/dodo.ts:107`): the amount paid in is divided by `ONE` and added to
   terms that are not, so that a pool with a curvature between 0 and `ONE` seems to pay next to nothing.
7. **Later V2 and DODO hops are paid nothing** (`ArbExecutor.huff:152`). The encoder has the executor call its own
   `transferAll(token, to)` before the swap. The contract has the function and executes it, but it asks `to` for the
   executor's balance instead of `token` (`dup5` under four arguments is `to`); a pair answers with the executor's share of
   it, zero, and nothing is sent. The pair's swap reverts. (`NoRouteSettles` says the same of the other kinds of hops.)

Met while modelling and left as they are, because no document says otherwise: a rejected bundle is executed
publicly although the fallback is off (`pass_hf.ts:773`); `pass_lf.ts:142` overwrites the request for a full
refresh of rates that a reorg made during its await; the final profit of `pipeline.ts:191-200` is computed
without slippage, and its upper bound (335) without the overrides of the mempool; `fetcher.ts:427` takes a pool
for garbage for good after one contract error; the quarantine's back-off does not escalate
(`quarantine.ts:66`); third and later hops have nothing left of the transfer buffer, and the minima of
WooFi, Curve and Balancer hops are those of the whole amount (`calldata/index.ts:47`); a rate of `rates.ts` is never
computed again once it is there, and one the oracle has blocked comes back from the pools with the next tick; a pool that
passes the routing filter late waits for a full rebuild (`pass_lf.ts:214`); pools are lost at the cap on pages, with a
result that does not parse, and behind the cursor of a rollback (`hyperindex_graphql.ts:243`, `:312`).

## 5. Proofs

Sixteen components have theorems that hold for every value of the constants. Assumptions about constants are
named in the module that declares them: bounds are natural numbers, positive where the code's are, a null is none of
the values it stands beside, check slots and indexed pools are finite sets, percentages are at most a hundred.
`NonceManagerAssumption` and `ExecutionAssumption` are `ASSUME`d; the others (`PassLoopConstants`,
`DiscoveryConstants`, `RouteCalldataConstants` and so on, and the oracle's `FeeMarginConstants`) are hypotheses of
their theorems, so that the modules can be instantiated; the MC modules assume them, and TLC evaluates them. Every
inductive invariant was model-checked on an instance before it was proved.

| theorem | states | model-checked by |
|---|---|---|
| `TypeCorrect`, `NoncesUnique`, `NothingForgotten`, `ManagerIsAllocator` | `TypeOK`, `IssuedBelowNext`, `NoNonceForgotten`, `AllocatorSpec` | `proved_components` |
| `StaleSetBounded` | at most `MaxStale` stale nonces | not by a run of its own |
| `MarksNeverOutlive`, `NoncesSettled` | `InFlightRouteHeld`, `InFlightNonceHeld` | `execution` |
| `NoncesAccounted`, `TradesRecorded`, `RoutesNotRepeated` | `NonceAccounted`, `MinedTradeRecorded`, `RouteTwiceOnlyIfGivenUp` | `execution` |
| `ServiceDrivesManager`, `ServiceNoncesUnique` | `ManagerSpec`, the manager's `IssuedBelowNext` in the service | `execution` |
| `PassLoopTypeCorrect`, `FilterAlwaysExact`, `IncrementalGraphSound` | `TypeOK`, `FilterExact`, `IncrementalGraphMatchesPools` | `pass_loop` |
| `NoFalseAlarm` | `ReportsReal` | `pass_loop` |
| `PoolsNeverSkipped`, `IndexerAlone`, `MarksPersistAlways`, `SchedulerAlwaysSound` | `NoPoolSkipped`, `OneIndexer`, `MarksPersist`, `SchedulerSound` | `proved_components` |
| `NoErrorLost`, `FeeAlwaysCovers`, `StreamsNeverSilent`, `TicksAlwaysCover` | `ErrorsAccounted`, `FeeCoversBase`, `NoStreamSilent`, `TicksCoverPrice` | `proved_components` |
| `ProjectionSound`, `CandidatesNeverSettle` | `ProjectionFollowsPending`, `NoRouteSettles` | `services` |
| `DepthFirstComplete` | `EveryCycleFound`, of the depth-first search | `services` |

`...Typed` are the type invariants of the modules, `...Invariant` the inductive invariants that all of these follow
from.

*NonceManager.* `InductiveInvariant`: `IInv == TypeOK /\ IssuedBelowNext /\ NoNonceForgotten`. `TypeOK` holds
the bound `localNonce + pendingCount <= MaxNonce + 1` on which the type of `pendingCount` rests, and the
totality of the insertion order. The step that needs an argument is `confirmNonce` (lemma
`ConfirmCounters`): the sum never falls, and either it is kept or nothing is pending.
`StaleSetBounded` is a second induction, over cardinalities. `ManagerIsAllocator` maps
`next <- expectedNextNonce`, `handed <- issued`: reserving hands out, confirming stutters or skips ahead, a
resync restarts, everything else stutters; that the number handed out is fresh is `IssuedBelowNext`.

*PassLoop.* `TypeOK` is not inductive: nothing in it keeps `invalidations` at most `MaxReorgs`. The invariant
adds `ReorgsCounted`, that invalidations and checks holding a report add up to the reports so far: a check
gives its slot up when it invalidates. `FilterExact` is inductive
given the types. `IncrementalGraphMatchesPools` is not: it needs `PoolOrder`, the chain
`lastPoolsFingerprint` &sube; pools being enumerated &sube; pools of the LF tick &sube; pools, which only grow, with every graph
made of pools being enumerated; and `PoolsKept`: of the pools of the fingerprint the filter has never turned away, none
is missing from what it let through, from the graph being searched, or from the cached one. A pool turned away once
is left out of these claims for good, for a patched graph may lack it whatever the filter says by then.

*ExecutionService.* The service conjoins the manager's actions with its own steps. `ManagerStep` shows, action by
action, that a step of the service is a step of the manager or leaves its variables alone: with it the
invariant of `NonceManagerProofs` comes to hold in the service (`ManagerInvariantKept`), and `ManagerSpec` follows.
The properties about what the pass holds are not inductive by themselves. `MarksHeld` adds that no
route is marked while a bundle waits, so that `confirmExecution` of another path never finds a mark it did not
make. `InFlightUnsettled` names the points where the current nonce is still to be settled, the awaits between
`getNextNonce` and its confirmation or release, except for nonces that an inclusion wait has leaked.
`SentTracked` is what `MinedTradeRecorded` follows from: a transaction that may yet be mined, or
is, is recorded, held, or its nonce was given up or leaked. `MinedInOrder` says that what is
mined has nonces below the transaction count: in `NonceAccounted`, a nonce at or above it is still to be accounted for.
`RoutesApart` (a group holds one transaction of a route, and none of those still to come) gives with them
`RouteTwiceOnlyIfGivenUp`. The proof has one lemma per part and action group. The attempt found a bound
that hid a case: for two *transactions in the air* the property held with nonces 0..3 only; with one nonce more, a late
resync gives out a nonce that was mined meanwhile while the dead first copy is still on its way. The property
now speaks of transactions that can be mined (`Minable`).

*Discovery.* `NoPoolSkipped` needs the read in progress: what has been read is all that lies between the last
block and the cursor (`PagesComplete`), the cursor is at the last row read (`DiscoveryShape`), and what is about to be
returned is complete up to its highest block, but for the block it was cut off in (`ResultComplete`). The lemmas are
about order: rows are compared by block, then id, a page is the first rows of a finite set after the cursor,
and a finite set has a minimum and a maximum of such an order (`FiniteMinimum`, `FirstAndLastRow`, by
induction on its subsets). A row that a rollback has written again at or below what was read is `missed`, as are the
rest of a block at the cap or at a failure and the rows of a result that did not parse: with these counted the three
parts are inductive, for every cap and every rollback.

*HyperIndexer.* `OneIndexer` excepts overlapping checks, and so does its invariant: unless two checks were
past the guard at once, one check restarts at a time and says so (`OneRestart`), only the last child may not have
exited, no child runs when another is about to be started, and a stop that waits has signalled that child
(`LastChildOnly`). `BornInOrder` makes the number of children started the index of the last one; `TasksSeparate` keeps the
start by the main program apart from those of the checks. The proof attempt found that the model's
`AfterStop` was a `CASE` with overlapping arms, of which TLC takes the first and the logic any; it is an `IF` now.

*ReorgDetector.* A block is `OnChain` when the chain has it, or has replaced the block of its height; every tracked
entry is, and so is every block that a check keeps across an await (`CheckHeld`), be it a tip, an entry it compares
or an answer. A mismatch between two such blocks of one height is then a replaced height (`MismatchReal`), however old
either is. `trackBlock` filters, appends, sorts and cuts the list, and `prune` filters it: `KeptGood` and `PlaceOfRank` show
that the entries chosen by their places make a list that is as good as before. Such a list was written with
`SelectSeq`, of which the prover knows nothing; `Kept` says the same by counting places.

*GarbageTracker.* `MarksPersistAlways` holds for every set of addresses, every clean-up and any number of
restarts. The strengthening speaks of the write under way: what is known and not late is in the file, or in the list
that is being written (`WrittenOrLate`), and what was ever written is in one of the two and, once the file is read, in
memory, as long as no write was torn (`KeptSomewhere`).

*IndexerOutput.* `ErrorsAccounted` is an account, and nearly inductive: every transient error seen was logged
itself, counted in a summary that was logged, or is still in the suppressor's count. What has to be added is that the
errors are bounded, for the types: the count is part of what was seen.

*MempoolService.* `ProjectionFollowsPending` speaks of the state a simulation would read, put together from the fetched
state, the entry of overrides and the deltas. Its invariant speaks of the parts: an override is a swap heard
since the last head, and the last override of a pool stays in the entry, which is no older, as long as it lives
(`OverridesPending`); a delta is of such swaps, and of none that became an override (`DeltasPending`); the lists keep
their limits and one entry per pool (`Remembered`). `Project` then cannot add a swap that is gone or drop the last one.

*PoolStateFetch.* Ticks are read around the price of a state and written back together with that state, over whatever
is cached by then: a newer price may be lost, but no state gets the ticks of another price. `FetchInv` says that the ticks
of every cached state are `Covered`, and of the answers under way their types; most of the proof is about these, for an
answer may be taken for a pool it does not belong to (`TakenAnswers`, `Offset`).

*GasOracle.* The network's fee moves on while an answer travels, and answers overtake each other. `RisenFrom` bounds how
far a fee that was read can lie behind the network's: by an eighth per block of its age. `Follows` bounds the average
from below by the last answer applied, `emaPercent` of a new one and the rest of an average that was not too low before.
Two such steps and the factor of two leave room, for fees of at least 68 units.

*Streams.* The feed has a socket or a timer only while it is on, and never a socket beside a reconnect that is due.
For the subscription it is `AttemptsHaveTimers`: attempts counted since the last socket opened are no more than the
timers pending, so that when the limit of attempts is reached a timer is still to come.

*RouteCalldata.* `NoRouteSettles` is about money: the principal leaves with the first hop, or the transaction stops there,
and nothing is sent to a pool after it (`FundsHeld`), so that no later hop is paid and the profit token never comes
back. That a call's place is where the types say needs that a hop has a call or two (`CalldataShape`). Routes have two hops or
more, which is what `RouteCalldataConstants` assumes of them. The amounts of a route are a recursive function; that it
exists and has its equation is proved (`HopAmounts`) from the least number at which it would fail (`LeastNumber`), without an
induction theorem.

*CycleFinder.* That what is found is a cycle follows from the path being one so far (`GoodPath`). That nothing is
missed needs to say how far the search has come. `next` holds, for every token of the path, the edge to try next:
the search is done with those before it, but for the one that the path took. A cycle that leaves the
path over an edge that the search is done with is found, and so is every cycle from a start token before (`Earlier`,
`Search`). To go forward makes no edge more done with; to go back makes one, the last edge of the path,
and every cycle over it goes on over an edge of its end, all of which have been tried (`BacktrackKeeps`). At the end
every cycle of the pass is found (`SearchEnds`), and the cycles of the longest pass are those of the reference
(`RingIsSimple`). The graph that the search rests on, an edge in both directions for every two tokens of every
pool, the adjacency of each token and each token among the start tokens, is proved of the lists built in `graph.ts`
and `prepareCycleSearchGraph` (`EdgesList`, `LeavingEdges`, `StartsCover`). `maxHops` is assumed to be 2 to 8, as `schema.ts:64` has it.

*RequestScheduler.* `RateBounded` speaks of every stretch of what has run; the invariant (`BucketCovers`) only of the
stretches up to now, and counts what the bucket still holds: the tokens spent since a request ran, and those
left, are at most a full bucket at that request and what was due since, up to the last refill. A run of the
worker adds what is due to both sides (`CoversAgain`), and any shorter stretch is covered by a longer one
(`CoversFewer`). For the wake-up, what is queued is in the queue of its priority (`QueuedSomewhere`), and the worker is
idle only when the three queues are empty; `TakenBounds` shows that what leaves the front of a queue is just what
has run. The types need that a caller about to try has an attempt left (`AttemptsLeft`).

**Only model-checked.** All liveness: fairness and `ENABLED` are beyond the prover. What sorts, folds, selections and
searches compute for every input (`EveryCycleFound` of the Bellman-Ford search, `BestAmountChosen`, `NothingForFree`, `WindowNeverOverquotes`,
`RatesSpread`, `RotationCovers`, `GroupsSound`), which needs induction over data. The `TypeOK` of `services` is
that of its components, of which the proved ones have their theorems. No module uses a `RECURSIVE` operator.

## 6. Plan

1. `BundledStaleCancelled` and `PoolsEnumerated` have safety parts that could be stated apart and proved.
2. `GroupsSound` of `HfTick` with its lists written by places, as `Lists` does, so that it can be proved.
3. Compositions: `PassLoop` with the reports of `ReorgDetector`, and with `TokenRates` and `PoolStateFetch` for
   its LF tick; liveness of the pass loop in the presence of a reorg.
4. The eviction of the quarantine and of `BoundedMap`, the degraded mode of a lagging indexer, the cool-downs of
   the gas station, WooFi and Balancer's stable pools.

## 7. Not modelled, and why

The bytes of calldata, ABIs, decoding, configuration, CLI, logs, metrics, TUI: data layout or pure I/O; no state
that another component reads, except the pause flag, which `PassLoop` has. The fixed-point mathematics at its real
256-bit width and floating-point weights are beyond an explicit-state checker: the same algorithms are checked at
small scales. The handlers of the indexer run in another program, as does the contract, of which the loop over the
calls, what its functions and callbacks pay, and the repayment are modelled: not its access rules and the route hash. JSON-RPC, GraphQL and relay
protocols appear only as the outcomes their callers distinguish. Of the mempool service the file of unknown
selectors and the signals of new pools are left out, of the boot the wiring. `ExecutionService` and the pass loop
leave out shutdown: it stops the loop at an iteration. Scripts are developer tools.
