--------------------------- MODULE ReorgDetector ----------------------------
(***************************************************************************)
(* The reorg detector (src/src/infra/resilience/reorg_detector.ts) between *)
(* its two callers and a chain that reorganises: the handler of newHead    *)
(* (src/src/orchestrator/pass_loop.ts), which compares the parent of a head *)
(* with the block tracked there and tracks the head in the same turn, and  *)
(* the background checks of the LF ticks (runReorgCheck in pass_reorg.ts), *)
(* which walk down the tracked blocks with one RPC per block and overlap   *)
(* heads and each other.                                                   *)
(*                                                                         *)
(* A block is its number and the fork it was mined on; so two blocks have  *)
(* the same hash if and only if they are equal.  Of a tracked entry only   *)
(* number and hash are ever read; lastSafeBlock and reorgedBlocks are      *)
(* written and never read by the program, and prune() is never called.     *)
(***************************************************************************)
EXTENDS Naturals, Sequences, FiniteSets, Lists

CONSTANTS
  MaxHeight,    \* bound: the highest block
  MaxForks,     \* bound: reorganisations of the chain
  MaxErrors,    \* bound: RPC calls that fail
  MaxTracked,   \* MAX_TRACKED_BLOCKS: 200 in the code
  checkDepth,   \* 3 in the code (rpc/manager.ts)
  CheckSlots,   \* bound: checks in flight at once
  NoBlock       \* undefined

(* What is assumed of them. *)
ReorgDetectorConstants ==
  /\ {MaxForks, MaxErrors, checkDepth} \subseteq Nat
  /\ {MaxHeight, MaxTracked} \subseteq Nat \ {0}
  /\ NoBlock \notin [number : Nat, fork : Nat]

VARIABLES
  chain,          \* the canonical chain: the fork each block was mined on
  forks,          \* reorganisations so far
  announced,      \* the highest block of the chain announced by a newHead
  trackedBlocks,  \* ReorgDetector.trackedBlocks, in insertion order
  checks,         \* [CheckSlots -> a runReorgCheck]
  errors,         \* failed RPC calls so far
  reported,       \* history: the heights that gave rise to a report
  replaced        \* history: the heights where the chain has replaced a block

reorgVars ==
  <<chain, forks, announced, trackedBlocks, checks, errors, reported, replaced>>

Blocks == [number : 1..MaxHeight, fork : 0..MaxForks]
Block(n) == [number |-> n, fork |-> chain[n]]
Canonical(b) == b.number \in 1..Len(chain) /\ b = Block(b.number)

Entries(tb) == {tb[i] : i \in 1..Len(tb)}
TrackedAt(tb, n) == {b \in Entries(tb) : b.number = n}

Idle == [pc |-> "idle", tip |-> NoBlock, latest |-> 0, depth |-> 0,
         tracked |-> NoBlock, answer |-> NoBlock]

ReorgDetectorInit ==
  /\ chain = <<0>> /\ forks = 0 /\ announced = 0
  /\ trackedBlocks = <<>>
  /\ checks = [c \in CheckSlots |-> Idle]
  /\ errors = 0
  /\ reported = {} /\ replaced = {}

-----------------------------------------------------------------------------
(* The detector's methods, on a list of tracked blocks.                     *)

(* trackBlock: the entry of that height is replaced where it is; a new one  *)
(* goes to the end, and the oldest goes once the list is too long.          *)
TrackedWith(tb, b) ==
  IF TrackedAt(tb, b.number) # {}
  THEN [i \in 1..Len(tb) |-> IF tb[i].number = b.number THEN b ELSE tb[i]]
  ELSE IF Len(tb) = MaxTracked THEN Append(Tail(tb), b) ELSE Append(tb, b)

(* Mutation: Only the mismatching entry's successors are dropped.           *)
PrunedAbove(tb, n) == Kept(tb, {i \in 1..Len(tb) : tb[i].number <= n})

(* pruneTrackedFrom.                                                        *)
PrunedFrom(tb, n) == Kept(tb, {i \in 1..Len(tb) : tb[i].number < n})

(* checkLocalParentMismatch: the heights it finds fault with, one or none.  *)
ParentMismatch(n) ==
  {b.number : b \in {p \in TrackedAt(trackedBlocks, n - 1) : ~Canonical(p)}}

-----------------------------------------------------------------------------
(* A newHead.  Heads arrive in order, but some are missed (a reconnect);    *)
(* after a reorganisation the replaced heights are announced again.  A head *)
(* names its parent, so trackBlock does not wait for it.                    *)
NewHead(n) ==
  /\ n \in announced + 1..Len(chain)
  /\ announced' = n
  /\ reported' = reported \union ParentMismatch(n)
  /\ trackedBlocks' = TrackedWith(trackedBlocks, Block(n))
  /\ UNCHANGED <<chain, forks, checks, errors, replaced>>

-----------------------------------------------------------------------------
(* runReorgCheck.                                                           *)

RpcRest == UNCHANGED <<chain, forks, announced, replaced>>

(* An RPC is answered from the chain as it is then, or fails; the answer    *)
(* reaches the bot later.                                                   *)
Answer(n, b) ==
  \/ b = Block(n) /\ UNCHANGED errors
  \/ b = NoBlock /\ errors < MaxErrors /\ errors' = errors + 1

(* An LF tick starts a check, which asks for the tip before all else.       *)
CheckStart(c) ==
  /\ checks[c].pc = "idle"
  /\ \E b \in Blocks \union {NoBlock} :
       /\ Answer(Len(chain), b)
       /\ checks' = [checks EXCEPT ![c].pc = "tip", ![c].tip = b]
  /\ UNCHANGED <<trackedBlocks, reported>>
  /\ RpcRest

(* The walk is over and has left tb: without a tip the check ends; a tip is *)
(* tracked, at once if its parent is known, after another RPC otherwise.    *)
Finish(c, tb) ==
  LET tip == checks[c].tip
  IN  \/ /\ tip = NoBlock
         /\ trackedBlocks' = tb
         /\ checks' = [checks EXCEPT ![c] = Idle]
      \/ /\ tip # NoBlock
         /\ trackedBlocks' = TrackedWith(tb, tip)
         /\ checks' = [checks EXCEPT ![c] = Idle]
      \/ /\ tip # NoBlock
         /\ TrackedAt(tb, tip.number - 1) = {}
         /\ trackedBlocks' = tb
         /\ checks' = [checks EXCEPT ![c] = [Idle EXCEPT !.pc = "parent", !.tip = tip]]

(* A tracked block is not the one the chain has: the walk ends there.       *)
Detected(c, b) ==
  /\ reported' = reported \union {b.number}
  /\ Finish(c, PrunedFrom(trackedBlocks, b.number))

(* The walk goes on at a depth: it asks for the next block tracked within   *)
(* the depth checked, if there is one.                                      *)
Walk(c, latest, depth) ==
  LET depths == {d \in depth..checkDepth :
                   d < latest /\ TrackedAt(trackedBlocks, latest - d) # {}}
  IN  /\ UNCHANGED reported
      /\ \/ depths = {} /\ Finish(c, trackedBlocks)
         \/ \E d \in depths : \E b \in TrackedAt(trackedBlocks, latest - d) :
              /\ \A other \in depths : d <= other
              /\ checks' = [checks EXCEPT ![c].pc = "walk", ![c].latest = latest,
                             ![c].depth = d, ![c].tracked = b]
              /\ UNCHANGED trackedBlocks

(* Mutation: The tip is compared with the latest block, whatever its height.*)
TipArrivesAnyHeight(c) ==
  /\ checks[c].pc = "tip"
  /\ IF trackedBlocks = <<>>
     THEN Finish(c, trackedBlocks) /\ UNCHANGED reported
     ELSE LET latest == trackedBlocks[Len(trackedBlocks)]
              tip    == checks[c].tip
          IN  IF tip # NoBlock
              THEN IF tip # latest THEN Detected(c, latest)
                                   ELSE Walk(c, latest.number, 1)
              ELSE Walk(c, latest.number, 0)
  /\ UNCHANGED errors /\ RpcRest

(* checkReorg up to its first await.  The walk starts at the block tracked  *)
(* last; if the tip has its height, no RPC is needed for it.                *)
TipArrives(c) ==
  /\ checks[c].pc = "tip"
  /\ IF trackedBlocks = <<>>
     THEN Finish(c, trackedBlocks) /\ UNCHANGED reported
     ELSE LET latest == trackedBlocks[Len(trackedBlocks)]
              tip    == checks[c].tip
          IN  IF tip # NoBlock /\ tip.number = latest.number
              THEN IF tip # latest THEN Detected(c, latest)
                                   ELSE Walk(c, latest.number, 1)
              ELSE Walk(c, latest.number, 0)
  /\ UNCHANGED errors /\ RpcRest

BlockRead(c) ==
  /\ checks[c].pc = "walk"
  /\ \E b \in Blocks \union {NoBlock} :
       /\ Answer(checks[c].tracked.number, b)
       /\ checks' = [checks EXCEPT ![c].pc = "walkRead", ![c].answer = b]
  /\ UNCHANGED <<trackedBlocks, reported>>
  /\ RpcRest

(* The answer is compared with the entry found before the await, whatever   *)
(* became of it.  An error only skips the height.                           *)
BlockArrives(c) ==
  /\ checks[c].pc = "walkRead"
  /\ IF checks[c].answer \in {NoBlock, checks[c].tracked}
     THEN Walk(c, checks[c].latest, checks[c].depth + 1)
     ELSE Detected(c, checks[c].tracked)
  /\ UNCHANGED errors /\ RpcRest

(* The parent of the tip is known, or could not be had.                     *)
ParentArrives(c) ==
  /\ checks[c].pc = "parent"
  /\ trackedBlocks' = TrackedWith(trackedBlocks, checks[c].tip)
  /\ checks' = [checks EXCEPT ![c] = Idle]
  /\ UNCHANGED <<errors, reported>>
  /\ RpcRest

CheckStep(c) == TipArrives(c) \/ BlockRead(c) \/ BlockArrives(c)
                \/ ParentArrives(c)

-----------------------------------------------------------------------------
(* The chain.                                                               *)

ChainRest == UNCHANGED <<trackedBlocks, checks, errors, reported>>

Grow ==
  /\ Len(chain) < MaxHeight
  /\ chain' = Append(chain, forks)
  /\ UNCHANGED <<forks, announced, replaced>>
  /\ ChainRest

(* The blocks from n on are replaced.                                       *)
Reorg(n) ==
  /\ forks < MaxForks
  /\ n \in 1..Len(chain)
  /\ forks' = forks + 1
  /\ chain' = [m \in 1..Len(chain) |-> IF m < n THEN chain[m] ELSE forks + 1]
  /\ replaced' = replaced \union n..Len(chain)
  /\ announced' = IF announced < n THEN announced ELSE n - 1
  /\ ChainRest

ReorgDetectorNext ==
  \/ \E n \in 1..MaxHeight : NewHead(n) \/ Reorg(n)
  \/ Grow
  \/ \E c \in CheckSlots : CheckStart(c) \/ CheckStep(c)

ReorgDetectorSpec == ReorgDetectorInit /\ [][ReorgDetectorNext]_reorgVars

(* LF ticks keep starting checks, and RPC calls return.  Nothing is assumed *)
(* of heads and of the chain.                                               *)
ReorgDetectorFairness ==
  /\ WF_reorgVars(\E c \in CheckSlots : CheckStart(c))
  /\ \A c \in CheckSlots : WF_reorgVars(CheckStep(c))

ReorgDetectorFairSpec == ReorgDetectorSpec /\ ReorgDetectorFairness

-----------------------------------------------------------------------------
(* Properties.                                                              *)

CheckState ==
  [pc : {"idle", "tip", "walk", "walkRead", "parent"},
   tip : Blocks \union {NoBlock}, latest : 0..MaxHeight, depth : 0..checkDepth,
   tracked : Blocks \union {NoBlock}, answer : Blocks \union {NoBlock}]

(* Types; and the tracked blocks are within their limit, with one entry per *)
(* height although trackBlock waits between finding the parent and adding.  *)
ReorgDetectorTypeOK ==
  /\ chain \in Seq(0..MaxForks) /\ Len(chain) \in 1..MaxHeight
  /\ forks \in 0..MaxForks /\ errors \in 0..MaxErrors
  /\ announced \in 0..Len(chain)
  /\ trackedBlocks \in Seq(Blocks) /\ Len(trackedBlocks) <= MaxTracked
  /\ \A i, j \in 1..Len(trackedBlocks) :
       trackedBlocks[i].number = trackedBlocks[j].number => i = j
  /\ checks \in [CheckSlots -> CheckState]
  /\ reported \subseteq 1..MaxHeight /\ replaced \subseteq 1..MaxHeight

(* No false alarm: a block is only reported at a height where the chain has *)
(* indeed replaced one, although heads, tips and answers arrive in any      *)
(* order and a check compares entries found before an await with answers    *)
(* given during it.  (A report drops all routes and pool states.)  It need  *)
(* not be the reported block that was replaced: an answer from before the   *)
(* reorganisation makes the check drop the block that is right.             *)
ReportsReal == reported \subseteq replaced

StaleBlock(n) == \E b \in TrackedAt(trackedBlocks, n) : ~Canonical(b)

InWindow(n) ==
  /\ trackedBlocks # <<>>
  /\ LET latest == trackedBlocks[Len(trackedBlocks)].number
     IN  n <= latest /\ latest <= n + checkDepth
StaleInWindow(n) == StaleBlock(n) /\ InWindow(n)

(* A replaced block that the checks can reach does not stay tracked: a walk *)
(* ends at the highest mismatch, but the next ones get to the lower.        *)
StaleUntracked ==
  \A n \in 1..MaxHeight : StaleInWindow(n) ~> ~StaleInWindow(n)

(* "Detect fork before mutating tracked chain: WS newHead parent must link  *)
(* to block N-1 we already saw." (reorg_detector.ts:52): when a tracked     *)
(* block is overwritten by another of its height, a reorg has been reported.*)
ForkDetectedBeforeMutation ==
  [][\A b \in Entries(trackedBlocks), new \in Entries(trackedBlocks)' :
       b.number = new.number /\ b # new => reported' # {}]_reorgVars
=============================================================================
