------------------------------ MODULE Discovery ------------------------------
(***************************************************************************)
(* Pool discovery: StateRefreshService.runPoolDiscovery with its timers     *)
(* (src/src/services/state_refresh.ts) over the pages that                  *)
(* discoverPoolsFromHasura reads of the indexer's table                     *)
(* (src/src/infra/hypersync/hyperindex_graphql.ts), while the indexer goes  *)
(* on writing blocks and, as rollback_on_reorg of its config.yaml has it,   *)
(* takes some back to write them again.                                     *)
(*                                                                         *)
(* A pool is its id, a number; rows are ordered by block, then id.  The     *)
(* queries that discovery runs catch their own errors, so the circuit       *)
(* breaker around them never sees one and its fallback is never taken.      *)
(***************************************************************************)
EXTENDS Integers, FiniteSets, FiniteSetsExt

CONSTANTS
  IndexedPools,    \* bound: the pools that come to be indexed, ids in Nat
  Anchors,         \* the pools of scripts/pools.json
  MaxBlock,        \* bound: blocks the indexer writes
  PageSize,        \* PAGE: 2500 in the code
  MaxPages,        \* MAX_PAGES: 60 in the code
  BlockGap,        \* PROGRESS_DISCOVERY_BLOCK_GAP: 32 in the code
  MaxFailures,     \* bound: queries that fail for good, and results that do not parse
  MaxRollbacks     \* bound: reorganisations the indexer rolls back

(* What is assumed of them. *)
DiscoveryConstants ==
  /\ IndexedPools \subseteq Nat /\ IsFiniteSet(IndexedPools)
  /\ Anchors \intersect IndexedPools = {}
  /\ {MaxBlock, BlockGap, MaxFailures, MaxRollbacks} \subseteq Nat
  /\ {PageSize, MaxPages} \subseteq Nat \ {0}

VARIABLES
  createdBlock,   \* [IndexedPools -> block], 0: no row yet
  indexedTo,      \* the indexer's last block
  pools,          \* pools
  lastDiscovered, \* lastDiscoveredBlock
  discovery,      \* the discovery in flight (discoveryInProgress)
  pendingRun,     \* pendingProgressDiscovery
  debounce,       \* the block discoveryDebounceTimer was set for, 0: not set
  lastProgress,   \* lastProgressDiscoveryBlock
  failures,       \* queries and results that have failed
  rollbacks,      \* reorganisations rolled back
  missed          \* history: the rows that were passed over, for one of three reasons:
                  \* in a block that the last page read ended in, in a result that
                  \* did not parse, written behind what had been read

discoveryVars ==
  <<createdBlock, indexedTo, pools, lastDiscovered, discovery, pendingRun, debounce,
    lastProgress, failures, rollbacks, missed>>

NoDiscovery == [pc |-> "none", rows |-> {}, cursor |-> <<>>, pages |-> 0, maxBlock |-> 0]
indexerVars == <<createdBlock, indexedTo, rollbacks>>
timerVars   == <<debounce, lastProgress>>
failureVars == <<failures, missed>>

DiscoveryInit ==
  /\ createdBlock = [p \in IndexedPools |-> 0] /\ indexedTo = 0
  /\ pools = {} /\ lastDiscovered = 0 /\ discovery = NoDiscovery
  /\ pendingRun = FALSE /\ debounce = 0 /\ lastProgress = 0
  /\ failures = 0 /\ rollbacks = 0 /\ missed = {}

-----------------------------------------------------------------------------
(* The table and its pages.                                                 *)

Rows == {p \in IndexedPools : createdBlock[p] > 0}
Precedes(p, q) ==
  \/ createdBlock[p] < createdBlock[q]
  \/ createdBlock[p] = createdBlock[q] /\ p < q

(* Mutation: The cursor is the block alone.                                 *)
AfterCursorBlock(p, cursor) ==
  IF cursor = <<>> THEN createdBlock[p] > lastDiscovered
  ELSE createdBlock[p] > cursor[1]

(* blockCursorWhere: after the last row read, or above the last block.      *)
AfterCursor(p, cursor) ==
  IF cursor = <<>> THEN createdBlock[p] > lastDiscovered
  ELSE \/ createdBlock[p] > cursor[1]
       \/ createdBlock[p] = cursor[1] /\ p > cursor[2]

(* The first PageSize rows of those.                                        *)
Page(cursor) ==
  LET found == {p \in Rows : AfterCursor(p, cursor)}
  IN  {p \in found : Cardinality({q \in found : Precedes(q, p)}) < PageSize}

LastOf(page) == CHOOSE p \in page : \A q \in page : q = p \/ Precedes(q, p)

(* What is left of the block that the last page ended in.                   *)
Unread(cursor) ==
  IF cursor = <<>> THEN {}
  ELSE {p \in Rows : createdBlock[p] = cursor[1] /\ AfterCursor(p, cursor)}

-----------------------------------------------------------------------------
(* A discovery.                                                             *)

(* Started unless one is in flight or, with pools at hand, the tier forbids.*)
BeginDiscovery == discovery' = [NoDiscovery EXCEPT !.pc = "page"]
Refused == pools # {} /\ UNCHANGED discovery

(* The first run at start, the interval timer, and triggerDiscovery.        *)
DiscoveryTimer ==
  /\ discovery.pc = "none"
  /\ BeginDiscovery
  /\ UNCHANGED <<indexerVars, pools, lastDiscovered, pendingRun, timerVars, failureVars>>

(* A page is read, at one point of the table's history.  The last is one    *)
(* that is not full, or the MaxPages-th.                                    *)
ReadPage ==
  /\ discovery.pc = "page"
  /\ LET page   == Page(discovery.cursor)
         full   == Cardinality(page) >= PageSize
         capped == full /\ discovery.pages + 1 >= MaxPages
         next   == IF full THEN <<createdBlock[LastOf(page)], LastOf(page)>>
                   ELSE discovery.cursor
     IN  /\ discovery' = [pc       |-> IF full /\ ~capped THEN "page" ELSE "metas",
                          rows     |-> discovery.rows \union page,
                          cursor   |-> next,
                          pages    |-> discovery.pages + 1,
                          maxBlock |-> Max({discovery.maxBlock}
                                           \union {createdBlock[p] : p \in page})]
         /\ missed' = IF capped THEN missed \union Unread(next) ELSE missed
  /\ UNCHANGED <<indexerVars, pools, lastDiscovered, pendingRun, timerVars, failures>>

(* A query fails, its retries included: the pages read so far are the       *)
(* result, the block the last one ended in included.                        *)
PageFails ==
  /\ discovery.pc = "page" /\ failures < MaxFailures
  /\ failures' = failures + 1
  /\ missed' = missed \union Unread(discovery.cursor)
  /\ discovery' = [discovery EXCEPT !.pc = "metas"]
  /\ UNCHANGED <<indexerVars, pools, lastDiscovered, pendingRun, timerVars>>

(* What discoverPoolsFromHasura returns: anchors come with a first result.  *)
Found == IF lastDiscovered > 0 THEN discovery.rows ELSE Anchors \union discovery.rows

(* After the token metas: pools are appended to those known, or replace     *)
(* them while there is no block to go on from.                              *)
TakeOver(result) ==
  IF result # {}
  THEN /\ pools' = IF lastDiscovered > 0 /\ pools # {} THEN pools \union result ELSE result
       /\ lastDiscovered' = discovery.maxBlock
  ELSE /\ pools' = IF pools = {} THEN Anchors ELSE pools
       /\ UNCHANGED lastDiscovered

(* A run asked for meanwhile by progress follows at once.                   *)
EndRun ==
  /\ \/ ~pendingRun /\ discovery' = NoDiscovery
     \/ pendingRun /\ BeginDiscovery
     \/ pendingRun /\ pools' # {} /\ discovery' = NoDiscovery
  /\ pendingRun' = FALSE

Discovered ==
  /\ discovery.pc = "metas"
  /\ TakeOver(Found) /\ EndRun
  /\ UNCHANGED <<indexerVars, timerVars, failureVars>>

(* A row that does not parse: the anchors are returned, with the block of   *)
(* the last row.                                                            *)
ParseFails ==
  /\ discovery.pc = "metas" /\ discovery.rows # {} /\ failures < MaxFailures
  /\ TakeOver(Anchors) /\ EndRun
  /\ failures' = failures + 1
  /\ missed' = IF Anchors = {} THEN missed ELSE missed \union discovery.rows
  /\ UNCHANGED <<indexerVars, timerVars>>

-----------------------------------------------------------------------------
(* The indexer, and what its progress triggers.                             *)

(* Whether a discovery has gone past a row p of a block n.                   *)
PastRow(n, p) ==
  \/ n <= lastDiscovered
  \/ discovery.pc = "metas" /\ n <= discovery.maxBlock
  \/ /\ discovery.pc = "page" /\ discovery.cursor # <<>>
     /\ \/ n < discovery.cursor[1]
        \/ n = discovery.cursor[1] /\ p <= discovery.cursor[2]

(* The indexer writes a block with its pools.                               *)
IndexBlock ==
  /\ indexedTo < MaxBlock /\ indexedTo' = indexedTo + 1
  /\ \E new \in SUBSET (IndexedPools \ Rows) :
       /\ createdBlock' = [p \in IndexedPools |-> IF p \in new THEN indexedTo + 1
                                                   ELSE createdBlock[p]]
       /\ missed' = (missed \ new) \union {p \in new : PastRow(indexedTo + 1, p)}
  /\ UNCHANGED <<pools, lastDiscovered, discovery, pendingRun, timerVars, failures, rollbacks>>

(* A reorganisation: the indexer drops the rows above a block, and writes   *)
(* the blocks above it once more.                                           *)
RollBack ==
  /\ rollbacks < MaxRollbacks /\ rollbacks' = rollbacks + 1
  /\ \E b \in 0..(indexedTo - 1) :
       /\ indexedTo' = b
       /\ createdBlock' = [p \in IndexedPools |-> IF createdBlock[p] > b THEN 0
                                                   ELSE createdBlock[p]]
  /\ UNCHANGED <<pools, lastDiscovered, discovery, pendingRun, timerVars, failureVars>>

(* scheduleProgressDiscovery: progress up to some block is announced, late  *)
(* and out of order.                                                        *)
ProgressAnnounced ==
  /\ debounce = 0
  /\ \E b \in 1..indexedTo : b > lastProgress /\ b - lastProgress >= BlockGap /\ debounce' = b
  /\ UNCHANGED <<indexerVars, pools, lastDiscovered, discovery, pendingRun, lastProgress, failureVars>>

(* Two seconds later: a run, now or after the one in flight.                *)
DebounceFires ==
  /\ debounce > 0 /\ debounce' = 0 /\ lastProgress' = debounce
  /\ IF discovery.pc # "none"
     THEN pendingRun' = TRUE /\ UNCHANGED discovery
     ELSE (BeginDiscovery \/ Refused) /\ UNCHANGED pendingRun
  /\ UNCHANGED <<indexerVars, pools, lastDiscovered, failureVars>>

DiscoveryStep == ReadPage \/ PageFails \/ Discovered \/ ParseFails
DiscoveryNext ==
  \/ DiscoveryTimer \/ DiscoveryStep
  \/ IndexBlock \/ RollBack \/ ProgressAnnounced \/ DebounceFires

DiscoverySpec == DiscoveryInit /\ [][DiscoveryNext]_discoveryVars

-----------------------------------------------------------------------------
(* Properties.                                                              *)

DiscoveryTypeOK ==
  /\ createdBlock \in [IndexedPools -> 0..indexedTo] /\ indexedTo \in 0..MaxBlock
  /\ pools \subseteq IndexedPools \union Anchors /\ missed \subseteq IndexedPools
  /\ lastDiscovered \in 0..MaxBlock
  /\ failures \in 0..MaxFailures /\ rollbacks \in 0..MaxRollbacks
  /\ discovery \in [pc : {"none", "page", "metas"}, rows : SUBSET IndexedPools,
                    cursor : {<<>>} \union ((1..MaxBlock) \X IndexedPools),
                    pages : 0..MaxPages, maxBlock : 0..MaxBlock]
  /\ pendingRun \in BOOLEAN /\ {debounce, lastProgress} \subseteq 0..MaxBlock

(* No pool is skipped: the next discovery only asks for rows above          *)
(* lastDiscovered, so every row up to it has been taken over, although the  *)
(* table grows and is rolled back between two pages and a page may end      *)
(* inside a block.  Three things lose pools, and nothing else does: a query *)
(* that fails, or the cap on pages, after a page that ended inside a block  *)
(* (what is left of that block); a result that does not parse (its rows);   *)
(* and a rollback, of the pools written again at or below what was read.    *)
NoPoolSkipped ==
  \A p \in Rows : createdBlock[p] <= lastDiscovered => p \in pools \union missed
=============================================================================
