---------------------------- MODULE PoolDataProofs ----------------------------
(* What the bot has of its pools: which there are (Discovery), which are not   *)
(* to be used (GarbageTracker) and what pending swaps make of their state      *)
(* (MempoolService).  Proved for every table of pools, page size and order of  *)
(* writes: which pools discovery can skip; for every set of addresses and number *)
(* of restarts: that marks persist; for every kind of pool, time to live and   *)
(* limit: that a pool is simulated with its last pending swap.                 *)
EXTENDS Discovery, GarbageTracker, MempoolService, ListProofs

(* A discovery that reads pages has a cursor unless it has read nothing, and *)
(* its cursor is in the last block read, above the last block taken over.    *)
DiscoveryShape ==
  discovery.pc = "page" =>
    IF discovery.cursor = <<>> THEN discovery.maxBlock = 0
    ELSE /\ discovery.maxBlock = discovery.cursor[1]
         /\ discovery.cursor[1] > lastDiscovered

(* It has read all rows up to its cursor, or they are known to be missed.    *)
PagesComplete ==
  discovery.pc = "page" /\ discovery.cursor # <<>> =>
    \A p \in Rows :
      createdBlock[p] > lastDiscovered /\ ~AfterCursor(p, discovery.cursor)
        => p \in discovery.rows \union missed

(* What it is about to return has all rows up to the block it goes on from,  *)
(* but for those known to be missed.                                         *)
ResultComplete ==
  discovery.pc = "metas" =>
    \A p \in Rows :
      lastDiscovered < createdBlock[p] /\ createdBlock[p] <= discovery.maxBlock
        => p \in discovery.rows \union missed

(* It reads no more pages than it may.                                       *)
PagesLeft == discovery.pc = "page" => discovery.pages < MaxPages

DiscoveryInv ==
  /\ DiscoveryTypeOK
  /\ DiscoveryShape
  /\ PagesComplete
  /\ ResultComplete
  /\ PagesLeft
  /\ NoPoolSkipped

-----------------------------------------------------------------------------
(* Finite sets under an order.                                               *)

(* A finite set that is not empty has a minimal element of a transitive and  *)
(* irreflexive relation.                                                     *)
LEMMA FiniteMinimum ==
  ASSUME NEW T, IsFiniteSet(T), T # {}, NEW R,
         \A x \in T : <<x, x>> \notin R,
         \A x, y, z \in T : <<x, y>> \in R /\ <<y, z>> \in R => <<x, z>> \in R
  PROVE  \E m \in T : \A x \in T : <<x, m>> \notin R
<1> DEFINE Below(m) == {x \in T : <<x, m>> \in R}
           Belows == {Below(m) : m \in T}
<1>1. IsWellFoundedOn(StrictSubsetOrdering(T), SUBSET T)
  BY FS_StrictSubsetOrderingWellFounded, FS_FiniteSubsetsOfFinite
<1>2. Belows \subseteq SUBSET T /\ Belows # {}
  <2>1. \A m \in T : Below(m) \in SUBSET T
    OBVIOUS
  <2> HIDE DEF Below
  <2> QED
    BY <2>1
<1>3. PICK B \in Belows : \A C \in Belows : ~(<<C, B>> \in StrictSubsetOrdering(T))
  <2> HIDE DEF Belows
  <2> QED
    BY <1>1, <1>2, WFMin
<1>4. PICK m \in T : B = Below(m)
  BY <1>3
<1>5. ASSUME NEW x \in T, <<x, m>> \in R
      PROVE  FALSE
  <2>1. Below(x) \subseteq Below(m)
    BY <1>5
  <2>2. x \in Below(m) /\ x \notin Below(x)
    BY <1>5
  <2>3. <<Below(x), B>> \in StrictSubsetOrdering(T)
    BY <1>4, <2>1, <2>2 DEF StrictSubsetOrdering
  <2> QED
    BY <1>3, <2>3
<1> QED
  BY <1>5

(* Rows are totally ordered.                                                 *)
LEMMA PrecedesOrder ==
  ASSUME DiscoveryConstants, createdBlock \in [IndexedPools -> Nat]
  PROVE  /\ \A p \in IndexedPools : ~Precedes(p, p)
         /\ \A p, q, r \in IndexedPools :
              Precedes(p, q) /\ Precedes(q, r) => Precedes(p, r)
         /\ \A p, q \in IndexedPools : p = q \/ Precedes(p, q) \/ Precedes(q, p)
BY DEF DiscoveryConstants, Precedes

(* A set of rows has a first and a last.                                     *)
LEMMA FirstAndLastRow ==
  ASSUME DiscoveryConstants, createdBlock \in [IndexedPools -> Nat],
         NEW T \in SUBSET IndexedPools, T # {}
  PROVE  /\ \E m \in T : \A x \in T : x = m \/ Precedes(m, x)
         /\ \E m \in T : \A x \in T : x = m \/ Precedes(x, m)
<1> DEFINE R == {pq \in T \X T : Precedes(pq[1], pq[2])}
           Q == {pq \in T \X T : Precedes(pq[2], pq[1])}
<1>1. IsFiniteSet(T)
  BY FS_Subset DEF DiscoveryConstants
<1>2. \A x, y \in T : /\ <<x, y>> \in R <=> Precedes(x, y)
                      /\ <<x, y>> \in Q <=> Precedes(y, x)
  OBVIOUS
<1>3. \E m \in T : \A x \in T : <<x, m>> \notin R
  <2>1. \A x \in T : <<x, x>> \notin R
    BY <1>2, PrecedesOrder
  <2>2. \A x, y, z \in T : <<x, y>> \in R /\ <<y, z>> \in R => <<x, z>> \in R
    BY <1>2, PrecedesOrder
  <2> HIDE DEF R
  <2> QED
    BY <1>1, <2>1, <2>2, FiniteMinimum
<1>4. \E m \in T : \A x \in T : <<x, m>> \notin Q
  <2>1. \A x \in T : <<x, x>> \notin Q
    BY <1>2, PrecedesOrder
  <2>2. \A x, y, z \in T : <<x, y>> \in Q /\ <<y, z>> \in Q => <<x, z>> \in Q
    BY <1>2, PrecedesOrder
  <2> HIDE DEF Q
  <2> QED
    BY <1>1, <2>1, <2>2, FiniteMinimum
<1> QED
  BY <1>2, <1>3, <1>4, PrecedesOrder

(* A finite set of numbers that is not empty has a greatest, which is Max.   *)
LEMMA MaxOfFinite ==
  ASSUME NEW S \in SUBSET Nat, IsFiniteSet(S), S # {}
  PROVE  Max(S) \in S /\ \A x \in S : x <= Max(S)
<1> DEFINE R == {xy \in S \X S : xy[1] > xy[2]}
<1>1. \A x, y \in S : <<x, y>> \in R <=> x > y
  OBVIOUS
<1>2. \E m \in S : \A x \in S : <<x, m>> \notin R
  <2>1. \A x \in S : <<x, x>> \notin R
    BY <1>1
  <2>2. \A x, y, z \in S : <<x, y>> \in R /\ <<y, z>> \in R => <<x, z>> \in R
    BY <1>1
  <2> HIDE DEF R
  <2> QED
    BY <2>1, <2>2, FiniteMinimum
<1>3. \E m \in S : \A x \in S : m >= x
  <2>1. PICK m \in S : \A x \in S : <<x, m>> \notin R
    BY <1>2
  <2>2. ASSUME NEW x \in S
        PROVE  m >= x
    <3>1. ~(x > m)
      BY <1>1, <2>1
    <3>2. x \in Nat /\ m \in Nat
      OBVIOUS
    <3> QED
      BY <3>1, <3>2
  <2> QED
    BY <2>2
<1> QED
  BY <1>3 DEF Max

-----------------------------------------------------------------------------
(* Pages.                                                                    *)

(* A page that is not full has all rows after the cursor; a full one has all *)
(* up to its last.                                                           *)
LEMMA PageFacts ==
  ASSUME DiscoveryConstants, createdBlock \in [IndexedPools -> Nat], NEW cursor,
         NEW found, found = {p \in Rows : AfterCursor(p, cursor)}
  PROVE  /\ Page(cursor) \subseteq found
         /\ Cardinality(Page(cursor)) < PageSize => Page(cursor) = found
         /\ ~(Cardinality(Page(cursor)) < PageSize) =>
              /\ LastOf(Page(cursor)) \in Page(cursor)
              /\ \A p \in Page(cursor) :
                   p = LastOf(Page(cursor)) \/ Precedes(p, LastOf(Page(cursor)))
              /\ \A p \in found :
                   Precedes(p, LastOf(Page(cursor))) => p \in Page(cursor)
<1> DEFINE Before(p) == {q \in found : Precedes(q, p)}
           batch == Page(cursor)
<1>1. found \subseteq IndexedPools /\ PageSize \in Nat \ {0}
  BY DEF Rows, DiscoveryConstants
<1>2. batch = {p \in found : Cardinality(Before(p)) < PageSize}
  BY DEF Page
<1>3. ASSUME NEW S \in SUBSET found
      PROVE  IsFiniteSet(S) /\ Cardinality(S) \in Nat
  BY <1>1, FS_Subset, FS_CardinalityType DEF DiscoveryConstants
<1>4. ASSUME NEW S \in SUBSET found, NEW U \in SUBSET S
      PROVE  Cardinality(U) <= Cardinality(S)
  BY <1>3, FS_Subset
<1>5. ASSUME Cardinality(batch) < PageSize, NEW x \in found, x \notin batch
      PROVE  FALSE
  <2>1. PICK m \in found \ batch : \A y \in found \ batch : y = m \/ Precedes(m, y)
    <3>1. found \ batch \in SUBSET IndexedPools /\ found \ batch # {}
      BY <1>1, <1>5
    <3> HIDE DEF batch
    <3> QED
      BY <3>1, FirstAndLastRow
  <2>2. Before(m) \subseteq batch
    BY <1>1, <2>1, PrecedesOrder
  <2>3. Cardinality(Before(m)) <= Cardinality(batch)
    BY <1>2, <1>4, <2>2
  <2>4. Cardinality(Before(m)) \in Nat /\ Cardinality(batch) \in Nat
    BY <1>2, <1>3
  <2>5. Cardinality(Before(m)) < PageSize
    BY <1>1, <1>5, <2>3, <2>4
  <2> QED
    BY <1>2, <2>1, <2>5
<1>6. ASSUME ~(Cardinality(batch) < PageSize)
      PROVE  /\ LastOf(batch) \in batch
             /\ \A p \in batch : p = LastOf(batch) \/ Precedes(p, LastOf(batch))
             /\ \A p \in found : Precedes(p, LastOf(batch)) => p \in batch
  <2>1. batch # {}
    BY <1>1, <1>6, FS_EmptySet
  <2>2. batch \in SUBSET IndexedPools
    BY <1>1, <1>2
  <2>3. \E m \in batch : \A x \in batch : x = m \/ Precedes(x, m)
    <3> HIDE DEF batch
    <3> QED
      BY <2>1, <2>2, FirstAndLastRow
  <2>4. /\ LastOf(batch) \in batch
        /\ \A p \in batch : p = LastOf(batch) \/ Precedes(p, LastOf(batch))
    <3> HIDE DEF batch
    <3> QED
      BY <2>3 DEF LastOf
  <2>5. ASSUME NEW p \in found, Precedes(p, LastOf(batch))
        PROVE  p \in batch
    <3> DEFINE last == LastOf(batch)
    <3>1. last \in found /\ Cardinality(Before(last)) < PageSize
      BY <1>2, <2>4
    <3> HIDE DEF last
    <3>2. Precedes(p, last)
      BY <2>5 DEF last
    <3>3. Before(p) \subseteq Before(last)
      BY <1>1, <3>1, <3>2, PrecedesOrder
    <3>4. Cardinality(Before(p)) <= Cardinality(Before(last))
      BY <1>4, <3>3
    <3>5. Cardinality(Before(p)) \in Nat /\ Cardinality(Before(last)) \in Nat
      BY <1>3
    <3> QED
      BY <1>1, <1>2, <3>1, <3>4, <3>5
  <2> QED
    BY <2>4, <2>5
<1> QED
  BY <1>2, <1>5, <1>6
-----------------------------------------------------------------------------
(* The invariant.                                                            *)

(* It holds at the start.                                                    *)
LEMMA DiscoveryStarts ==
  ASSUME DiscoveryConstants, DiscoveryInit
  PROVE  DiscoveryInv
<1> USE DEF DiscoveryInit, NoDiscovery
<1>1. Rows = {}
  BY DEF Rows
<1>2. DiscoveryTypeOK
  <2>1. /\ 0 \in 0..MaxBlock /\ 0 \in 0..MaxFailures /\ 0 \in 0..MaxRollbacks /\ 0 \in 0..0
        /\ 0 \in 0..MaxPages /\ {debounce, lastProgress} \subseteq 0..MaxBlock
    BY DEF DiscoveryConstants
  <2> QED
    BY <2>1 DEF DiscoveryTypeOK
<1>3. DiscoveryShape /\ PagesLeft
  BY DEF DiscoveryShape, PagesLeft
<1>4. PagesComplete /\ ResultComplete /\ NoPoolSkipped
  BY <1>1 DEF PagesComplete, ResultComplete, NoPoolSkipped
<1> QED
  BY <1>2, <1>3, <1>4 DEF DiscoveryInv

(* Types, as the later lemmas need them.                                     *)
LEMMA BlockTypes ==
  ASSUME DiscoveryConstants, DiscoveryInv
  PROVE  /\ createdBlock \in [IndexedPools -> Nat]
         /\ \A p \in IndexedPools : createdBlock[p] <= indexedTo /\ createdBlock[p] <= MaxBlock
         /\ indexedTo \in Nat /\ lastDiscovered \in Nat /\ MaxBlock \in Nat
         /\ indexedTo <= MaxBlock
         /\ discovery.maxBlock \in Nat
         /\ discovery.cursor # <<>> => discovery.cursor \in Nat \X IndexedPools
         /\ Rows \subseteq IndexedPools /\ IndexedPools \subseteq Nat
         /\ \A p \in Rows : createdBlock[p] > 0
<1>1. /\ createdBlock \in [IndexedPools -> 0..indexedTo] /\ indexedTo \in 0..MaxBlock
      /\ MaxBlock \in Nat /\ lastDiscovered \in 0..MaxBlock /\ IndexedPools \subseteq Nat
  BY DEF DiscoveryInv, DiscoveryTypeOK, DiscoveryConstants
<1>2. discovery.maxBlock \in 0..MaxBlock
  BY DEF DiscoveryInv, DiscoveryTypeOK
<1>3. discovery.cursor \in {<<>>} \union ((1..MaxBlock) \X IndexedPools)
  BY DEF DiscoveryInv, DiscoveryTypeOK
<1>4. discovery.cursor # <<>> => discovery.cursor \in Nat \X IndexedPools
  BY <1>3
<1> QED
  BY <1>1, <1>2, <1>4 DEF Rows

(* A new discovery has read nothing.                                         *)
LEMMA DiscoveryBegins ==
  ASSUME DiscoveryConstants, DiscoveryInv, BeginDiscovery \/ discovery' = NoDiscovery
  PROVE  /\ discovery' \in [pc : {"none", "page", "metas"}, rows : SUBSET IndexedPools,
                            cursor : {<<>>} \union ((1..MaxBlock) \X IndexedPools),
                            pages : 0..MaxPages, maxBlock : 0..MaxBlock]
         /\ DiscoveryShape' /\ PagesComplete' /\ ResultComplete' /\ PagesLeft'
<1>1. 0 \in 0..MaxPages /\ 0 \in 0..MaxBlock /\ 0 < MaxPages
  BY DEF DiscoveryConstants
<1>2. discovery' \in [pc : {"none", "page"}, rows : {{}}, cursor : {<<>>}, pages : {0},
                      maxBlock : {0}]
  BY DEF BeginDiscovery, NoDiscovery
<1> QED
  BY <1>1, <1>2 DEF DiscoveryShape, PagesComplete, ResultComplete, PagesLeft

(* A page is read.                                                           *)
LEMMA ReadPageKeeps ==
  ASSUME DiscoveryConstants, DiscoveryInv, ReadPage
  PROVE  DiscoveryInv'
<1> DEFINE cursor == discovery.cursor
           batch == Page(cursor)
           found == {p \in Rows : AfterCursor(p, cursor)}
           last == LastOf(batch)
           blocks == {discovery.maxBlock} \union {createdBlock[p] : p \in batch}
           full == Cardinality(batch) >= PageSize
           capped == full /\ discovery.pages + 1 >= MaxPages
           next == IF full THEN << createdBlock[last], last >> ELSE cursor
<1>1. /\ UNCHANGED <<createdBlock, indexedTo, rollbacks, pools, lastDiscovered, pendingRun,
                     debounce, lastProgress, failures>>
      /\ Rows' = Rows /\ discovery.pc = "page"
      /\ missed' = IF capped THEN missed \union Unread(next) ELSE missed
      /\ discovery'.pc = IF full /\ ~capped THEN "page" ELSE "metas"
      /\ discovery'.rows = discovery.rows \union batch
      /\ discovery'.cursor = next /\ discovery'.pages = discovery.pages + 1
      /\ discovery'.maxBlock = Max(blocks)
      /\ discovery' = [pc |-> discovery'.pc, rows |-> discovery'.rows,
                       cursor |-> discovery'.cursor, pages |-> discovery'.pages,
                       maxBlock |-> discovery'.maxBlock]
  BY DEF ReadPage, indexerVars, timerVars, Rows
<1>2. /\ batch \subseteq found
      /\ Cardinality(batch) < PageSize => batch = found
      /\ ~(Cardinality(batch) < PageSize) =>
           /\ last \in batch
           /\ \A p \in batch : p = last \/ Precedes(p, last)
           /\ \A p \in found : Precedes(p, last) => p \in batch
  BY BlockTypes, PageFacts
<1>3. full <=> ~(Cardinality(batch) < PageSize)
  <2>1. batch \in SUBSET IndexedPools
    BY <1>2, BlockTypes
  <2> HIDE DEF batch
  <2>2. Cardinality(batch) \in Nat /\ PageSize \in Nat
    BY <2>1, FS_Subset, FS_CardinalityType DEF DiscoveryConstants
  <2> QED
    BY <2>2
<1>4. found \subseteq Rows /\ batch \subseteq IndexedPools
  BY <1>2, BlockTypes
<1>5. blocks \subseteq 0..MaxBlock /\ Max(blocks) \in blocks /\ \A b \in blocks : b <= Max(blocks)
  <2>1. blocks \subseteq 0..MaxBlock
    BY <1>4, BlockTypes DEF DiscoveryInv, DiscoveryTypeOK
  <2>2. IsFiniteSet(0..MaxBlock) /\ 0..MaxBlock \subseteq Nat
    BY BlockTypes, FS_Interval
  <2> HIDE DEF blocks
  <2>3. IsFiniteSet(blocks) /\ blocks \in SUBSET Nat
    BY <2>1, <2>2, FS_Subset
  <2>4. blocks # {}
    BY DEF blocks
  <2> QED
    BY <2>1, <2>3, <2>4, MaxOfFinite
<1>6. \A p \in found : createdBlock[p] > lastDiscovered
  <2>1. cursor = <<>> \/ (cursor[1] > lastDiscovered /\ cursor \in Nat \X IndexedPools)
    BY <1>1, BlockTypes DEF DiscoveryInv, DiscoveryShape
  <2> QED
    BY <2>1, BlockTypes DEF AfterCursor
<1>7. \A p \in Rows : createdBlock[p] > lastDiscovered => p \in found \/ p \in discovery.rows \union missed
  BY <1>1 DEF DiscoveryInv, PagesComplete, AfterCursor
<1>8. missed \subseteq missed' /\ missed' \subseteq IndexedPools
  BY <1>1, BlockTypes DEF DiscoveryInv, DiscoveryTypeOK, Unread
<1>9. NoPoolSkipped'
  BY <1>1, <1>8 DEF DiscoveryInv, NoPoolSkipped
<1>10. discovery'.pages \in 0..MaxPages /\ PagesLeft'
  <2>1. discovery.pages \in Nat /\ MaxPages \in Nat /\ discovery.pages < MaxPages
    BY <1>1 DEF DiscoveryInv, DiscoveryTypeOK, PagesLeft, DiscoveryConstants
  <2> HIDE DEF full
  <2>2. discovery'.pages \in 0..MaxPages
    BY <1>1, <2>1
  <2>3. discovery'.pc = "page" => discovery'.pages < MaxPages
    BY <1>1, <2>1
  <2> QED
    BY <2>2, <2>3 DEF PagesLeft
<1> HIDE DEF batch, found, blocks, last
<1>11. ASSUME full
       PROVE  /\ next = << createdBlock[last], last >> /\ last \in found /\ last \in IndexedPools
              /\ createdBlock[last] \in 1..MaxBlock /\ Max(blocks) = createdBlock[last]
              /\ \A p \in Rows : createdBlock[p] > lastDiscovered /\ ~AfterCursor(p, next)
                                   => p \in discovery.rows \union batch \union missed
  <2>1. last \in batch /\ last \in found /\ last \in Rows /\ last \in IndexedPools
    BY <1>2, <1>3, <1>4, <1>11, BlockTypes
  <2>2. createdBlock[last] \in 1..MaxBlock
    BY <2>1, BlockTypes
  <2>3. \A p \in batch : createdBlock[p] <= createdBlock[last]
    BY <1>2, <1>3, <1>4, <1>11, <2>1, BlockTypes DEF Precedes
  <2>4. discovery.maxBlock <= createdBlock[last]
    BY <1>1, <2>1, BlockTypes DEF DiscoveryInv, DiscoveryShape, found, AfterCursor
  <2>5. Max(blocks) = createdBlock[last]
    <3>1. \A b \in blocks : b <= createdBlock[last]
      BY <2>3, <2>4 DEF blocks
    <3>2. createdBlock[last] \in blocks /\ blocks \subseteq Nat
      BY <1>5, <2>1 DEF blocks
    <3>3. Max(blocks) \in Nat /\ Max(blocks) <= createdBlock[last] /\ createdBlock[last] <= Max(blocks)
      BY <1>5, <3>1, <3>2
    <3> QED
      BY <2>2, <3>3
  <2>6. ASSUME NEW p \in Rows, createdBlock[p] > lastDiscovered, ~AfterCursor(p, next)
        PROVE  p \in discovery.rows \union batch \union missed
    <3>1. p = last \/ Precedes(p, last)
      BY <1>11, <2>1, <2>6, BlockTypes DEF AfterCursor, Precedes
    <3> QED
      BY <1>2, <1>3, <1>7, <1>11, <2>1, <2>6, <3>1
  <2> QED
    BY <1>11, <2>1, <2>2, <2>5, <2>6
<1>12. discovery' \in [pc : {"none", "page", "metas"}, rows : SUBSET IndexedPools,
                       cursor : {<<>>} \union ((1..MaxBlock) \X IndexedPools),
                       pages : 0..MaxPages, maxBlock : 0..MaxBlock]
  <2>1. next \in {<<>>} \union ((1..MaxBlock) \X IndexedPools)
    BY <1>11 DEF DiscoveryInv, DiscoveryTypeOK
  <2>2. discovery'.rows \subseteq IndexedPools
    BY <1>1, <1>4 DEF DiscoveryInv, DiscoveryTypeOK
  <2> HIDE DEF full, next
  <2> QED
    BY <1>1, <1>5, <1>10, <2>1, <2>2
<1>13. DiscoveryTypeOK'
  BY <1>1, <1>8, <1>12 DEF DiscoveryInv, DiscoveryTypeOK
<1>14. CASE ~full
  <2>1. discovery'.pc = "metas"
    BY <1>1, <1>14
  <2>2. \A p \in Rows : createdBlock[p] > lastDiscovered => p \in discovery'.rows \union missed'
    BY <1>1, <1>2, <1>3, <1>7, <1>8, <1>14
  <2>3. ResultComplete' /\ PagesComplete' /\ DiscoveryShape'
    BY <1>1, <2>1, <2>2 DEF ResultComplete, PagesComplete, DiscoveryShape
  <2> QED
    BY <1>9, <1>10, <1>13, <2>3 DEF DiscoveryInv
<1>15. CASE full
  <2> HIDE DEF full
  <2>1. PagesComplete'
    BY <1>1, <1>8, <1>11, <1>15 DEF PagesComplete, AfterCursor
  <2>2. createdBlock[last] > lastDiscovered /\ next[1] = createdBlock[last] /\ next # <<>>
    BY <1>6, <1>11, <1>15
  <2>3. DiscoveryShape'
    BY <1>1, <1>11, <1>15, <2>2 DEF DiscoveryShape
  <2>4. ASSUME capped, NEW p \in Rows, lastDiscovered < createdBlock[p],
               createdBlock[p] <= createdBlock[last]
        PROVE  p \in discovery'.rows \union missed'
    <3>1. CASE ~AfterCursor(p, next)
      BY <1>1, <1>8, <1>11, <1>15, <2>4, <3>1
    <3>2. CASE AfterCursor(p, next)
      <4>1. createdBlock[p] = next[1]
        BY <1>11, <1>15, <2>2, <2>4, <3>2, BlockTypes DEF AfterCursor
      <4>2. p \in Unread(next)
        BY <2>2, <3>2, <4>1 DEF Unread
      <4> QED
        BY <1>1, <2>4, <4>2
    <3> QED
      BY <3>1, <3>2
  <2>5. ResultComplete'
    BY <1>1, <1>11, <1>15, <2>4 DEF ResultComplete
  <2> QED
    BY <1>9, <1>10, <1>13, <2>1, <2>3, <2>5 DEF DiscoveryInv
<1> QED
  BY <1>14, <1>15

(* A query fails: what is left of the block it was cut off in is missed.     *)
LEMMA PageFailsKeeps ==
  ASSUME DiscoveryConstants, DiscoveryInv, PageFails
  PROVE  DiscoveryInv'
<1> DEFINE cursor == discovery.cursor
<1>1. /\ UNCHANGED <<createdBlock, indexedTo, rollbacks, pools, lastDiscovered, pendingRun,
                     debounce, lastProgress>>
      /\ Rows' = Rows /\ failures' = failures + 1 /\ failures < MaxFailures
      /\ missed' = missed \union Unread(cursor)
  BY DEF PageFails, indexerVars, timerVars, Rows
<1>2. /\ discovery'.pc = "metas" /\ discovery'.rows = discovery.rows
      /\ discovery'.maxBlock = discovery.maxBlock /\ discovery.pc = "page"
      /\ discovery' = [discovery EXCEPT !.pc = "metas"]
  BY DEF PageFails, DiscoveryInv, DiscoveryTypeOK
<1>3. DiscoveryShape' /\ PagesComplete' /\ PagesLeft'
  BY <1>2 DEF DiscoveryShape, PagesComplete, PagesLeft
<1>4. NoPoolSkipped'
  BY <1>1 DEF DiscoveryInv, NoPoolSkipped
<1>5. ResultComplete'
  <2> SUFFICES ASSUME NEW p \in Rows, lastDiscovered < createdBlock[p],
                      createdBlock[p] <= discovery.maxBlock
               PROVE  p \in discovery.rows \union missed'
    BY <1>1, <1>2 DEF ResultComplete
  <2>1. cursor # <<>> /\ discovery.maxBlock = cursor[1] /\ cursor \in Nat \X IndexedPools
    BY <1>2, BlockTypes DEF DiscoveryInv, DiscoveryShape
  <2>2. CASE AfterCursor(p, cursor)
    <3>1. createdBlock[p] = cursor[1]
      BY <2>1, <2>2, BlockTypes DEF AfterCursor
    <3>2. p \in Unread(cursor)
      BY <2>1, <2>2, <3>1 DEF Unread
    <3> QED
      BY <1>1, <3>2
  <2>3. CASE ~AfterCursor(p, cursor)
    BY <1>1, <1>2, <2>1, <2>3 DEF DiscoveryInv, PagesComplete
  <2> QED
    BY <2>2, <2>3
<1>6. DiscoveryTypeOK'
  <2>1. failures' \in 0..MaxFailures
    BY <1>1 DEF DiscoveryInv, DiscoveryTypeOK, DiscoveryConstants
  <2>2. missed' \subseteq IndexedPools
    BY <1>1, BlockTypes DEF DiscoveryInv, DiscoveryTypeOK, Unread
  <2>3. discovery' \in [pc : {"none", "page", "metas"}, rows : SUBSET IndexedPools,
                        cursor : {<<>>} \union ((1..MaxBlock) \X IndexedPools),
                        pages : 0..MaxPages, maxBlock : 0..MaxBlock]
    BY <1>2 DEF DiscoveryInv, DiscoveryTypeOK
  <2> QED
    BY <1>1, <2>1, <2>2, <2>3 DEF DiscoveryInv, DiscoveryTypeOK
<1> QED
  BY <1>3, <1>4, <1>5, <1>6 DEF DiscoveryInv

(* A result is taken over: the rows of the discovery, or the anchors alone,  *)
(* when what was read is missed.                                             *)
LEMMA TakeOverKeeps ==
  ASSUME DiscoveryConstants, DiscoveryInv, NEW result, TakeOver(result),
         result \subseteq IndexedPools \union Anchors, missed \subseteq missed',
         UNCHANGED createdBlock, discovery.pc = "metas",
         result # {} => discovery.rows \subseteq result \union missed'
  PROVE  /\ NoPoolSkipped'
         /\ pools' \subseteq IndexedPools \union Anchors /\ lastDiscovered' \in 0..MaxBlock
<1>1. Rows' = Rows
  BY DEF Rows
<1>2. pools' \subseteq IndexedPools \union Anchors /\ lastDiscovered' \in 0..MaxBlock
  BY DEF TakeOver, DiscoveryInv, DiscoveryTypeOK
<1>3. ASSUME NEW p \in Rows, createdBlock[p] <= lastDiscovered'
      PROVE  p \in pools' \union missed'
  <2>1. CASE createdBlock[p] <= lastDiscovered
    <3>1. p \in pools \union missed
      BY <2>1 DEF DiscoveryInv, NoPoolSkipped
    <3>2. lastDiscovered > 0
      BY <2>1, BlockTypes
    <3>3. p \in pools => pools \subseteq pools'
      BY <3>2 DEF TakeOver
    <3> QED
      BY <3>1, <3>3
  <2>2. CASE ~(createdBlock[p] <= lastDiscovered)
    <3>1. result # {} /\ lastDiscovered' = discovery.maxBlock
      BY <1>3, <2>2 DEF TakeOver
    <3>2. p \in discovery.rows \union missed
      BY <1>3, <2>2, <3>1, BlockTypes DEF DiscoveryInv, ResultComplete
    <3>3. result \subseteq pools'
      BY <3>1 DEF TakeOver
    <3> QED
      BY <3>1, <3>2, <3>3
  <2> QED
    BY <2>1, <2>2
<1> QED
  BY <1>1, <1>2, <1>3 DEF NoPoolSkipped

(* A discovery ends.                                                         *)
LEMMA DiscoveredKeeps ==
  ASSUME DiscoveryConstants, DiscoveryInv, Discovered \/ ParseFails
  PROVE  DiscoveryInv'
<1>1. /\ UNCHANGED <<createdBlock, indexedTo, rollbacks, debounce, lastProgress>>
      /\ discovery.pc = "metas" /\ EndRun
  BY DEF Discovered, ParseFails, indexerVars, timerVars
<1>2. BeginDiscovery \/ discovery' = NoDiscovery
  BY <1>1 DEF EndRun
<1>3. discovery.rows \subseteq IndexedPools
  BY DEF DiscoveryInv, DiscoveryTypeOK
<1>4. /\ NoPoolSkipped' /\ missed' \subseteq IndexedPools /\ failures' \in 0..MaxFailures
      /\ pools' \subseteq IndexedPools \union Anchors /\ lastDiscovered' \in 0..MaxBlock
  <2>1. CASE Discovered
    <3>1. discovery.rows \subseteq Found /\ Found \subseteq IndexedPools \union Anchors
      BY <1>3 DEF Found
    <3>2. TakeOver(Found) /\ UNCHANGED <<missed, failures>>
      BY <2>1 DEF Discovered, failureVars
    <3> QED
      BY <1>1, <3>1, <3>2, TakeOverKeeps DEF DiscoveryInv, DiscoveryTypeOK
  <2>2. CASE ParseFails
    <3>1. /\ TakeOver(Anchors) /\ failures < MaxFailures /\ failures' = failures + 1
          /\ missed' = IF Anchors = {} THEN missed ELSE missed \union discovery.rows
      BY <2>2 DEF ParseFails
    <3>2. failures' \in 0..MaxFailures /\ missed' \subseteq IndexedPools
      BY <1>3, <3>1 DEF DiscoveryInv, DiscoveryTypeOK, DiscoveryConstants
    <3> QED
      BY <1>1, <3>1, <3>2, TakeOverKeeps
  <2> QED
    BY <2>1, <2>2
<1>5. DiscoveryTypeOK'
  <2>1. pendingRun' \in BOOLEAN
    BY <1>1 DEF EndRun
  <2> QED
    BY <1>1, <1>2, <1>4, <2>1, DiscoveryBegins DEF DiscoveryInv, DiscoveryTypeOK
<1> QED
  BY <1>2, <1>4, <1>5, DiscoveryBegins DEF DiscoveryInv

(* A block is written: its rows are after the cursor, or missed.             *)
LEMMA IndexBlockKeeps ==
  ASSUME DiscoveryConstants, DiscoveryInv, IndexBlock
  PROVE  DiscoveryInv'
<1> DEFINE n == indexedTo + 1
<1>1. PICK new \in SUBSET (IndexedPools \ Rows) :
        /\ createdBlock' = [p \in IndexedPools |-> IF p \in new THEN n ELSE createdBlock[p]]
        /\ missed' = (missed \ new) \union {p \in new : PastRow(n, p)}
  BY DEF IndexBlock
<1>2. /\ indexedTo < MaxBlock /\ indexedTo' = n
      /\ UNCHANGED <<pools, lastDiscovered, discovery, pendingRun, debounce, lastProgress,
                     failures, rollbacks>>
  BY DEF IndexBlock, timerVars
<1>3. /\ Rows' = Rows \union new /\ Rows \cap new = {}
      /\ \A p \in Rows : createdBlock'[p] = createdBlock[p]
      /\ \A p \in new : createdBlock'[p] = n
      /\ \A p \in Rows : p \in missed => p \in missed'
  BY <1>1, BlockTypes DEF Rows
<1>4. DiscoveryTypeOK'
  <2>1. createdBlock' \in [IndexedPools -> 0..indexedTo'] /\ indexedTo' \in 0..MaxBlock
    BY <1>1, <1>2, BlockTypes
  <2>2. missed' \subseteq IndexedPools
    BY <1>1 DEF DiscoveryInv, DiscoveryTypeOK
  <2> QED
    BY <1>2, <2>1, <2>2 DEF DiscoveryInv, DiscoveryTypeOK
<1>5. \A p \in Rows : AfterCursor(p, discovery.cursor)' <=> AfterCursor(p, discovery.cursor)
  BY <1>2, <1>3 DEF AfterCursor
<1>6. DiscoveryShape' /\ PagesLeft'
  BY <1>2 DEF DiscoveryInv, DiscoveryShape, PagesLeft
<1>7. \A p \in new : PastRow(n, p) => p \in missed'
  BY <1>1
<1>8. PagesComplete'
  <2>1. ASSUME discovery.pc = "page", discovery.cursor # <<>>, NEW p \in new,
               ~AfterCursor(p, discovery.cursor)'
        PROVE  PastRow(n, p)
    BY <1>2, <1>3, <2>1, BlockTypes DEF AfterCursor, PastRow
  <2> QED
    BY <1>2, <1>3, <1>5, <1>7, <2>1 DEF DiscoveryInv, PagesComplete
<1>9. ResultComplete'
  BY <1>2, <1>3, <1>7 DEF DiscoveryInv, ResultComplete, PastRow
<1>10. NoPoolSkipped'
  BY <1>2, <1>3, <1>7 DEF DiscoveryInv, NoPoolSkipped, PastRow
<1> QED
  BY <1>4, <1>6, <1>8, <1>9, <1>10 DEF DiscoveryInv

(* Blocks are rolled back: the rows that stay are where they were.           *)
LEMMA RollBackKeeps ==
  ASSUME DiscoveryConstants, DiscoveryInv, RollBack
  PROVE  DiscoveryInv'
<1>1. PICK b \in 0..(indexedTo - 1) :
        /\ indexedTo' = b
        /\ createdBlock' = [p \in IndexedPools |-> IF createdBlock[p] > b THEN 0
                                                   ELSE createdBlock[p]]
  BY DEF RollBack
<1>2. /\ UNCHANGED <<pools, lastDiscovered, discovery, pendingRun, debounce, lastProgress,
                     failures, missed>>
      /\ rollbacks < MaxRollbacks /\ rollbacks' = rollbacks + 1
  BY DEF RollBack, timerVars, failureVars
<1>3. Rows' \subseteq Rows /\ \A p \in Rows' : createdBlock'[p] = createdBlock[p]
  BY <1>1, BlockTypes DEF Rows
<1>4. DiscoveryTypeOK'
  <2>1. createdBlock' \in [IndexedPools -> 0..indexedTo'] /\ indexedTo' \in 0..MaxBlock
    BY <1>1, BlockTypes
  <2>2. rollbacks' \in 0..MaxRollbacks
    BY <1>2 DEF DiscoveryInv, DiscoveryTypeOK, DiscoveryConstants
  <2> QED
    BY <1>2, <2>1, <2>2 DEF DiscoveryInv, DiscoveryTypeOK
<1>5. DiscoveryShape' /\ PagesLeft'
  BY <1>2 DEF DiscoveryInv, DiscoveryShape, PagesLeft
<1>6. PagesComplete'
  BY <1>2, <1>3 DEF DiscoveryInv, PagesComplete, AfterCursor
<1>7. ResultComplete' /\ NoPoolSkipped'
  BY <1>2, <1>3 DEF DiscoveryInv, ResultComplete, NoPoolSkipped
<1> QED
  BY <1>4, <1>5, <1>6, <1>7 DEF DiscoveryInv

(* A step that leaves the table, the discovery and what was taken over alone,*)
(* or begins a discovery.                                                    *)
LEMMA OtherKeeps ==
  ASSUME DiscoveryConstants, DiscoveryInv,
         UNCHANGED <<indexerVars, pools, lastDiscovered, failureVars>>,
         BeginDiscovery \/ UNCHANGED discovery,
         pendingRun' \in BOOLEAN, {debounce', lastProgress'} \subseteq 0..MaxBlock
  PROVE  DiscoveryInv'
<1> USE DEF indexerVars, failureVars
<1>1. Rows' = Rows
  BY DEF Rows
<1>2. NoPoolSkipped'
  BY <1>1 DEF DiscoveryInv, NoPoolSkipped
<1>3. CASE BeginDiscovery
  <2>1. DiscoveryTypeOK'
    BY <1>3, DiscoveryBegins DEF DiscoveryInv, DiscoveryTypeOK
  <2> QED
    BY <1>2, <1>3, <2>1, DiscoveryBegins DEF DiscoveryInv
<1>4. CASE UNCHANGED discovery
  <2>1. DiscoveryTypeOK'
    BY <1>4 DEF DiscoveryInv, DiscoveryTypeOK
  <2>2. DiscoveryShape' /\ PagesComplete' /\ PagesLeft'
    BY <1>1, <1>4 DEF DiscoveryInv, DiscoveryShape, PagesComplete, PagesLeft, AfterCursor
  <2>3. ResultComplete'
    BY <1>1, <1>4 DEF DiscoveryInv, ResultComplete
  <2> QED
    BY <1>2, <2>1, <2>2, <2>3 DEF DiscoveryInv
<1> QED
  BY <1>3, <1>4

(* Every step keeps it.                                                      *)
LEMMA DiscoverySteps ==
  ASSUME DiscoveryConstants, DiscoveryInv, [DiscoveryNext]_discoveryVars
  PROVE  DiscoveryInv'
<1>1. pendingRun \in BOOLEAN /\ {debounce, lastProgress} \subseteq 0..MaxBlock /\ 0 \in 0..MaxBlock
  BY DEF DiscoveryInv, DiscoveryTypeOK, DiscoveryConstants
<1>2. CASE DiscoveryTimer
  BY <1>1, <1>2, OtherKeeps DEF DiscoveryTimer, timerVars
<1>3. CASE DebounceFires
  BY <1>1, <1>3, OtherKeeps DEF DebounceFires, Refused
<1>4. CASE ProgressAnnounced
  <2>1. {debounce', lastProgress'} \subseteq 0..MaxBlock
    BY <1>1, <1>4, BlockTypes DEF ProgressAnnounced
  <2> QED
    BY <1>1, <1>4, <2>1, OtherKeeps DEF ProgressAnnounced
<1>5. CASE UNCHANGED discoveryVars
  BY <1>1, <1>5, OtherKeeps DEF discoveryVars, indexerVars, failureVars
<1> QED
  BY <1>2, <1>3, <1>4, <1>5, ReadPageKeeps, PageFailsKeeps, DiscoveredKeeps,
     IndexBlockKeeps, RollBackKeeps DEF DiscoveryNext, DiscoveryStep

(* The inductive invariant holds.                                            *)
THEOREM DiscoveryInvariant ==
  ASSUME DiscoveryConstants
  PROVE  DiscoverySpec => []DiscoveryInv
BY DiscoveryStarts, DiscoverySteps, PTL DEF DiscoverySpec

(* The variables keep their types: no discovery goes on from a block that    *)
(* the indexer never wrote, or reads more pages than it may.                 *)
THEOREM DiscoveryTyped ==
  ASSUME DiscoveryConstants
  PROVE  DiscoverySpec => []DiscoveryTypeOK
BY DiscoveryInvariant, PTL DEF DiscoveryInv

(* For all tables, page sizes, caps, writes, rollbacks and failures: a pool  *)
(* at or below the block that discovery goes on from has been taken over, or *)
(* it was left in a block that the last page ended in, or was in a result    *)
(* that did not parse, or was written behind what had been read.             *)
THEOREM PoolsNeverSkipped ==
  ASSUME DiscoveryConstants
  PROVE  DiscoverySpec => []NoPoolSkipped
BY DiscoveryInvariant, PTL DEF DiscoveryInv

-----------------------------------------------------------------------------
(* The garbage tracker.                                                     *)

(* What is known and not late is in the file, or on its way to it; as long   *)
(* as no write is spoiled, so is what was ever written.                      *)
WrittenOrLate ==
  /\ flush = "none" => garbage \ late \subseteq Saved
  /\ flush = "writing" => ~file.ok /\ garbage \ late \subseteq list

KeptSomewhere ==
  ~spoiled =>
    /\ IF flush = "writing" THEN loaded /\ kept \subseteq list /\ list \subseteq garbage
       ELSE file.ok /\ kept \subseteq file.list
    /\ loaded => kept \subseteq garbage

GarbageInv == GarbageTrackerTypeOK /\ WrittenOrLate /\ KeptSomewhere

-----------------------------------------------------------------------------
(* A page of pools has garbage of its own.                                   *)
LEMMA PageGarbage ==
  ASSUME GarbageTrackerConstants, page \in 0..Over, page < Awaiting
  PROVE  Pages[page + 1] \in SUBSET Addresses
<1>1. Pages \in Seq(SUBSET Addresses) /\ Len(Pages) \in Nat
  BY DEF GarbageTrackerConstants
<1>2. page + 1 \in 1..Len(Pages)
  BY <1>1 DEF Awaiting, Over
<1> QED
  BY <1>1, <1>2

(* A mark keeps the invariant, whoever makes it.                             *)
LEMMA MarkKeeps ==
  ASSUME GarbageInv, NEW marks \in SUBSET Addresses, markAsGarbage(marks), page' \in 0..Over
  PROVE  GarbageInv'
<1> USE DEF GarbageInv, markAsGarbage, Added
<1>1. GarbageTrackerTypeOK'
  BY DEF GarbageTrackerTypeOK
<1>2. WrittenOrLate'
  BY DEF WrittenOrLate, GarbageTrackerTypeOK, Saved
<1>3. KeptSomewhere'
  BY DEF KeptSomewhere, GarbageTrackerTypeOK
<1> QED
  BY <1>1, <1>2, <1>3

(* Nothing is marked at first.                                               *)
LEMMA GarbageStarts ==
  ASSUME GarbageTrackerConstants, GarbageTrackerInit
  PROVE  GarbageInv
<1>1. 0 \in 0..Over /\ MaxRestarts \in Nat
  BY DEF GarbageTrackerConstants, Over
<1>2. GarbageTrackerTypeOK
  <2>1. loaded \in BOOLEAN /\ spoiled \in BOOLEAN
    BY DEF GarbageTrackerInit
  <2>2. flush \in {"none", "delay", "writing", "rejected"}
    BY DEF GarbageTrackerInit
  <2>3. file \in [ok : BOOLEAN, list : SUBSET Addresses]
    BY DEF GarbageTrackerInit
  <2>4. page \in 0..Over /\ restarts \in 0..MaxRestarts
    BY <1>1 DEF GarbageTrackerInit
  <2>5. /\ garbage \subseteq Addresses /\ list \subseteq Addresses /\ kept \subseteq Addresses
        /\ asked \subseteq garbage /\ late \subseteq asked
    BY DEF GarbageTrackerInit
  <2> QED
    BY <2>1, <2>2, <2>3, <2>4, <2>5 DEF GarbageTrackerTypeOK
<1>3. WrittenOrLate /\ KeptSomewhere
  BY DEF GarbageTrackerInit, WrittenOrLate, KeptSomewhere, Saved
<1> QED
  BY <1>2, <1>3 DEF GarbageInv

(* Every step of the tracker, its file and the process keeps the invariant.  *)
LEMMA GarbageStep ==
  ASSUME GarbageTrackerConstants, GarbageInv, [GarbageTrackerNext]_garbageVars
  PROVE  GarbageInv'
<1>0. Len(Pages) \in Nat /\ MaxRestarts \in Nat
  BY DEF GarbageTrackerConstants
<1> USE DEF GarbageInv
<1>1. CASE LoadEnds
  <2>1. GarbageTrackerTypeOK'
    BY <1>1 DEF LoadEnds, GarbageTrackerTypeOK, Saved
  <2>2. WrittenOrLate'
    BY <1>1 DEF LoadEnds, WrittenOrLate, Saved, KeptSomewhere
  <2>3. KeptSomewhere'
    BY <1>1 DEF LoadEnds, KeptSomewhere, Saved
  <2> QED BY <2>1, <2>2, <2>3
<1>2. CASE FlushWrites
  <2>1. GarbageTrackerTypeOK'
    BY <1>2 DEF FlushWrites, GarbageTrackerTypeOK
  <2>2. WrittenOrLate' /\ KeptSomewhere'
    BY <1>2 DEF FlushWrites, WrittenOrLate, KeptSomewhere, GarbageTrackerTypeOK
  <2> QED BY <2>1, <2>2
<1>3. CASE FlushEnds
  <2>1. GarbageTrackerTypeOK'
    BY <1>3 DEF FlushEnds, GarbageTrackerTypeOK
  <2>2. WrittenOrLate'
    BY <1>3 DEF FlushEnds, WrittenOrLate, Saved
  <2>3. KeptSomewhere'
    BY <1>3 DEF FlushEnds, KeptSomewhere
  <2> QED BY <2>1, <2>2, <2>3
<1>4. CASE FlushFails
  <2>1. GarbageTrackerTypeOK'
    BY <1>4 DEF FlushFails, GarbageTrackerTypeOK
  <2>2. WrittenOrLate' /\ KeptSomewhere'
    BY <1>4 DEF FlushFails, WrittenOrLate, KeptSomewhere, GarbageTrackerTypeOK
  <2> QED BY <2>1, <2>2
<1>5. CASE CleanUpPage
  <2>1. page' \in 0..Over
    BY <1>0, <1>5 DEF CleanUpPage, GarbageTrackerTypeOK, Over, Awaiting
  <2>2. Pages[page + 1] \ garbage \in SUBSET Addresses
    BY <1>5, PageGarbage DEF CleanUpPage, GarbageTrackerTypeOK
  <2> QED BY <1>5, <2>1, <2>2, MarkKeeps DEF CleanUpPage
<1>6. CASE CleanUpEnds \/ CleanUpFails
  <2>1. GarbageTrackerTypeOK'
    BY <1>0, <1>6 DEF CleanUpEnds, CleanUpFails, GarbageTrackerTypeOK, Over
  <2>2. WrittenOrLate' /\ KeptSomewhere'
    BY <1>6 DEF CleanUpEnds, CleanUpFails, WrittenOrLate, KeptSomewhere, Saved
  <2> QED BY <2>1, <2>2
<1>7. ASSUME NEW a \in Addresses, Mark(a) PROVE GarbageInv'
  <2>1. page' \in 0..Over /\ {a} \in SUBSET Addresses
    BY <1>0, <1>7 DEF Mark, GarbageTrackerTypeOK
  <2> QED BY <1>7, <2>1, MarkKeeps DEF Mark
<1>8. CASE ProcessRestart
  <2>1. 0 \in 0..Over
    BY <1>0 DEF Over
  <2>2. GarbageTrackerTypeOK'
    <3>1. (page \in 0..Over)' /\ (restarts \in 0..MaxRestarts)'
      BY <1>0, <1>8, <2>1 DEF ProcessRestart, GarbageTrackerTypeOK
    <3>2. (loaded \in BOOLEAN)' /\ (spoiled \in BOOLEAN)'
      BY <1>8 DEF ProcessRestart, GarbageTrackerTypeOK
    <3> QED
      BY <1>8, <3>1, <3>2 DEF ProcessRestart, GarbageTrackerTypeOK
  <2>3. WrittenOrLate' /\ KeptSomewhere'
    BY <1>8 DEF ProcessRestart, WrittenOrLate, KeptSomewhere, Saved
  <2> QED BY <2>2, <2>3
<1>9. CASE UNCHANGED garbageVars
  BY <1>9 DEF garbageVars, GarbageTrackerTypeOK, WrittenOrLate, KeptSomewhere, Saved
<1> QED
  BY <1>1, <1>2, <1>3, <1>4, <1>5, <1>6, <1>7, <1>8, <1>9 DEF GarbageTrackerNext

(* The strengthened invariant of the garbage tracker.                       *)
THEOREM GarbageInvariant ==
  ASSUME GarbageTrackerConstants
  PROVE  GarbageTrackerSpec => []GarbageInv
BY GarbageStarts, GarbageStep, PTL DEF GarbageTrackerSpec

-----------------------------------------------------------------------------
(* The variables keep their types: what was marked in a run is known in it.  *)
THEOREM GarbageTyped ==
  ASSUME GarbageTrackerConstants
  PROVE  GarbageTrackerSpec => []GarbageTrackerTypeOK
BY GarbageInvariant, PTL DEF GarbageInv

(* What is marked is in the file once no flush is under way, unless it came  *)
(* too late for the last one, and what was ever written is known once the    *)
(* file is read, unless a write was torn or overtook the load.               *)
THEOREM MarksPersistAlways ==
  ASSUME GarbageTrackerConstants
  PROVE  GarbageTrackerSpec => []MarksPersist
<1>1. GarbageInv => MarksPersist
  BY DEF GarbageInv, GarbageTrackerTypeOK, WrittenOrLate, KeptSomewhere, MarksPersist
<1> QED
  BY <1>1, GarbageInvariant, PTL

-----------------------------------------------------------------------------
(* The mempool service.                                                        *)

(* What an override writes: the swaps of some pools.                          *)
Diffs == UNION {[D -> Nat] : D \in SUBSET Pools}
Deltas == [pool : Pools, age : Nat, swaps : SUBSET Nat]
Emits == [pool : Pools, age : Nat]

OnePerPool(items) == \A i, j \in 1..Len(items) : items[i].pool = items[j].pool => i = j
Remembered(items, S, max) == items \in Seq(S) /\ Len(items) <= max /\ OnePerPool(items)

MempoolShape ==
  /\ stateCache \in [Pools -> [usable : BOOLEAN, ticks : BOOLEAN] \cup {NoState}]
  /\ knownPools \in SUBSET Pools /\ traces \in SUBSET Pools
  /\ entry \in [age : Nat, diff : Diffs, affected : SUBSET Pools]
  /\ DOMAIN entry.diff \subseteq entry.affected
  /\ Remembered(overlay, Deltas, maxPools)
  /\ Remembered(lastEmitByPool, Emits, maxEmits)
  /\ signal \in BOOLEAN /\ swaps \in Nat
  /\ heard \in [Pools -> SUBSET (1..swaps)]
  /\ latest \in [Pools -> [swap : Nat, age : Nat]]
  /\ \A p \in Pools : latest[p] = NoSwap \/ latest[p].swap \in heard[p]

(* An override is a swap since the last head, and the last override of a pool *)
(* is in the entry as long as it lives, for the entry is no older.            *)
OverridesPending ==
  /\ \A p \in DOMAIN entry.diff : entry.diff[p] \in heard[p]
  /\ \A p \in Pools :
       latest[p] # NoSwap /\ latest[p].age <= ttl =>
         /\ p \in DOMAIN entry.diff /\ entry.diff[p] = latest[p].swap
         /\ entry.age <= latest[p].age

(* A delta is of swaps since the last head, none of which became an override. *)
DeltasPending ==
  \A i \in 1..Len(overlay) :
    /\ overlay[i].swaps \subseteq heard[overlay[i].pool]
    /\ latest[overlay[i].pool].swap \notin overlay[i].swaps

MempoolInv == MempoolShape /\ OverridesPending /\ DeltasPending

-----------------------------------------------------------------------------
(* What is remembered of pools: one entry per pool, at most max, each of them *)
(* the new one or one there was.                                              *)
LEMMA TouchedSound ==
  ASSUME NEW S, NEW max \in Nat \ {0}, NEW items \in Seq(S), NEW e \in S,
         Len(items) <= max, OnePerPool(items)
  PROVE  /\ Remembered(Touched(items, e, max), S, max)
         /\ \A k \in 1..Len(Touched(items, e, max)) :
              Touched(items, e, max)[k] \in {e} \cup Range(items)
<1> DEFINE places == {i \in DOMAIN items : items[i].pool # e.pool}
           others == Kept(items, places)
           moved == Append(others, e)
<1>1. places \in SUBSET (1..Len(items)) /\ Len(items) \in Nat
  OBVIOUS
<1> HIDE DEF places
<1>2. others \in Seq(S) /\ Len(others) \in Nat /\ Len(others) <= Len(items)
  BY <1>1, KeptEntries
<1>3. PICK at \in [1..Len(others) -> places] :
        /\ \A k \in 1..Len(others) : others[k] = items[at[k]]
        /\ \A k, m \in 1..Len(others) : at[k] = at[m] => k = m
  BY <1>1, KeptEntries
<1> HIDE DEF others
<1>4. \A k \in 1..Len(others) : at[k] \in 1..Len(items) /\ others[k].pool # e.pool
  <2>1. \A i \in places : i \in 1..Len(items) /\ items[i].pool # e.pool
    BY DEF places
  <2> QED
    BY <1>3, <2>1
<1>5. /\ moved \in Seq(S) /\ Len(moved) = Len(others) + 1
      /\ moved[Len(others) + 1] = e
      /\ \A k \in 1..Len(others) : moved[k] = others[k]
  BY <1>2
<1> HIDE DEF moved
<1>6. ASSUME NEW k \in 1..Len(moved)
      PROVE  k = Len(moved) \/ k \in 1..Len(others)
  BY <1>2, <1>5
<1>7. OnePerPool(moved)
  <2> SUFFICES ASSUME NEW i \in 1..Len(moved), NEW j \in 1..Len(moved),
                      moved[i].pool = moved[j].pool
               PROVE  i = j
    BY DEF OnePerPool
  <2>1. CASE i \in 1..Len(others) /\ j \in 1..Len(others)
    <3>1. items[at[i]].pool = items[at[j]].pool
      BY <1>3, <1>5, <2>1
    <3>2. at[i] = at[j]
      BY <1>4, <2>1, <3>1 DEF OnePerPool
    <3> QED
      BY <1>3, <2>1, <3>2
  <2>2. CASE i = Len(moved) /\ j \in 1..Len(others)
    BY <1>4, <1>5, <2>2
  <2>3. CASE i \in 1..Len(others) /\ j = Len(moved)
    BY <1>4, <1>5, <2>3
  <2> QED
    BY <1>6, <2>1, <2>2, <2>3
<1>8. ASSUME NEW k \in 1..Len(moved)
      PROVE  moved[k] \in {e} \cup Range(items)
  <2>1. CASE k = Len(moved)
    BY <1>5, <2>1
  <2>2. CASE k \in 1..Len(others)
    <3>1. moved[k] = items[at[k]] /\ at[k] \in DOMAIN items
      BY <1>3, <1>4, <1>5, <2>2
    <3> QED
      BY <3>1 DEF Range
  <2> QED
    BY <1>6, <2>1, <2>2
<1>9. Touched(items, e, max) = IF Len(moved) > max THEN Tail(moved) ELSE moved
  BY DEF Touched, moved, others, places
<1>10. CASE Len(moved) > max
  <2> DEFINE rest == Tail(moved)
  <2>1. /\ rest \in Seq(S) /\ Len(rest) = Len(moved) - 1 /\ Len(moved) \in Nat
        /\ \A k \in 1..Len(rest) : rest[k] = moved[k + 1]
    BY <1>2, <1>5
  <2> HIDE DEF rest
  <2>2. \A k \in 1..Len(rest) : k + 1 \in 1..Len(moved) /\ k \in Nat
    BY <2>1
  <2>3. OnePerPool(rest)
    <3> SUFFICES ASSUME NEW i \in 1..Len(rest), NEW j \in 1..Len(rest),
                        rest[i].pool = rest[j].pool
                 PROVE  i = j
      BY DEF OnePerPool
    <3>1. i + 1 = j + 1
      BY <1>7, <2>1, <2>2 DEF OnePerPool
    <3> QED
      BY <2>2, <3>1
  <2>4. Len(rest) <= max
    BY <1>2, <1>5, <2>1
  <2>5. ASSUME NEW k \in 1..Len(rest)
        PROVE  rest[k] \in {e} \cup Range(items)
    BY <1>8, <2>1, <2>2
  <2>6. Touched(items, e, max) = rest
    BY <1>9, <1>10 DEF rest
  <2> QED
    BY <2>1, <2>3, <2>4, <2>5, <2>6 DEF Remembered
<1>11. CASE ~(Len(moved) > max)
  <2>1. Touched(items, e, max) = moved
    BY <1>9, <1>11
  <2>2. Len(moved) <= max
    BY <1>2, <1>5, <1>11
  <2> QED
    BY <1>5, <1>7, <1>8, <2>1, <2>2 DEF Remembered
<1> QED
  BY <1>10, <1>11

(* The deltas that are alive are deltas there are.                            *)
LEMMA LiveSound ==
  ASSUME NEW S, NEW max \in Nat, NEW items, Remembered(items, S, max)
  PROVE  Remembered(Live(items), S, max) /\ Range(Live(items)) \subseteq Range(items)
<1> DEFINE places == {i \in DOMAIN items : items[i].age <= ttl}
           alive == Kept(items, places)
<1>1. items \in Seq(S) /\ Len(items) \in Nat /\ Len(items) <= max /\ OnePerPool(items)
  BY DEF Remembered
<1>2. places \in SUBSET (1..Len(items)) /\ Live(items) = alive
  BY <1>1 DEF Live
<1> HIDE DEF places
<1>3. alive \in Seq(S) /\ Len(alive) <= Len(items)
      /\ \E at \in [1..Len(alive) -> places] :
           /\ \A k \in 1..Len(alive) : alive[k] = items[at[k]]
           /\ \A k, m \in 1..Len(alive) : at[k] = at[m] => k = m
  <2>1. items \in Seq(S) /\ places \in SUBSET (1..Len(items))
    BY <1>1, <1>2
  <2> QED
    BY <2>1, KeptEntries
<1>4. PICK at \in [1..Len(alive) -> places] :
        /\ \A k \in 1..Len(alive) : alive[k] = items[at[k]]
        /\ \A k, m \in 1..Len(alive) : at[k] = at[m] => k = m
  BY <1>3
<1> HIDE DEF alive
<1>5. \A k \in 1..Len(alive) : at[k] \in 1..Len(items)
  BY <1>2, <1>4
<1>6. OnePerPool(alive)
  BY <1>1, <1>4, <1>5 DEF OnePerPool
<1>7. Len(alive) <= max
  <2>1. Len(alive) \in Nat
    BY <1>3
  <2> QED
    BY <1>1, <1>3, <2>1
<1>8. Range(alive) \subseteq Range(items)
  <2>1. DOMAIN alive = 1..Len(alive) /\ DOMAIN items = 1..Len(items)
    BY <1>1, <1>3
  <2> QED
    BY <1>4, <1>5, <2>1 DEF Range
<1> QED
  BY <1>2, <1>3, <1>6, <1>7, <1>8 DEF Remembered

(* An update of the store keeps what is alive, but for the pools it writes.   *)
LEMMA StoreUpdatedSound ==
  ASSUME MempoolShape, NEW diff \in Diffs, NEW affected \in SUBSET Pools,
         DOMAIN diff \subseteq affected, NEW e, e = StoreUpdated(diff, affected)
  PROVE  /\ e \in [age : Nat, diff : Diffs, affected : SUBSET Pools]
         /\ DOMAIN e.diff \subseteq e.affected
         /\ e.age = 0
         /\ DOMAIN diff \subseteq DOMAIN e.diff
         /\ Active => DOMAIN entry.diff \subseteq DOMAIN e.diff
         /\ \A p \in DOMAIN e.diff :
              IF p \in DOMAIN diff THEN e.diff[p] = diff[p]
              ELSE p \in DOMAIN entry.diff /\ e.diff[p] = entry.diff[p]
<1> DEFINE merged == Merged(diff)
           all == affected \cup (IF Active THEN entry.affected ELSE {})
<1>1. /\ entry.diff \in Diffs /\ entry.affected \in SUBSET Pools
      /\ DOMAIN entry.diff \subseteq entry.affected
  BY DEF MempoolShape
<1>2. \A f \in Diffs : DOMAIN f \in SUBSET Pools /\ f \in [DOMAIN f -> Nat]
  BY DEF Diffs
<1>3. e = [age |-> 0, diff |-> merged, affected |-> all]
  BY DEF StoreUpdated
<1>4. CASE Active
  <2> DEFINE D == DOMAIN diff \cup DOMAIN entry.diff
  <2>1. merged = [p \in D |-> IF p \in DOMAIN diff THEN diff[p] ELSE entry.diff[p]]
    BY <1>4 DEF Merged
  <2>2. D \in SUBSET Pools
    BY <1>1, <1>2
  <2>3. \A p \in D : (IF p \in DOMAIN diff THEN diff[p] ELSE entry.diff[p]) \in Nat
    BY <1>1, <1>2
  <2> HIDE DEF merged
  <2>4. merged \in [D -> Nat] /\ DOMAIN merged = D
    BY <2>1, <2>3
  <2>5. merged \in Diffs
    <3> HIDE DEF D
    <3> QED
      BY <2>2, <2>4 DEF Diffs
  <2>6. D \subseteq all /\ all \in SUBSET Pools
    BY <1>1, <1>4
  <2> HIDE DEF all
  <2>7. \A p \in DOMAIN merged :
          IF p \in DOMAIN diff THEN merged[p] = diff[p]
          ELSE p \in DOMAIN entry.diff /\ merged[p] = entry.diff[p]
    BY <2>1, <2>4
  <2>8. DOMAIN diff \subseteq DOMAIN merged /\ DOMAIN entry.diff \subseteq DOMAIN merged
    BY <2>4
  <2>9. DOMAIN merged \subseteq all
    BY <2>4, <2>6
  <2>10. /\ e.age = 0 /\ e.diff = merged /\ e.affected = all
         /\ e \in [age : Nat, diff : Diffs, affected : SUBSET Pools]
    BY <1>3, <2>5, <2>6
  <2> QED
    BY <2>7, <2>8, <2>9, <2>10
<1>5. CASE ~Active
  <2>1. merged = diff /\ all = affected
    BY <1>5 DEF Merged
  <2> HIDE DEF merged, all
  <2> QED
    BY <1>3, <1>5, <2>1
<1> QED
  BY <1>4, <1>5

(* Nothing written, as <<>>.                                                  *)
LEMMA NothingWritten == <<>> \in Diffs /\ DOMAIN <<>> = {}
<1>1. <<>> \in [{} -> Nat]
  OBVIOUS
<1>2. {} \in SUBSET Pools
  OBVIOUS
<1> QED
  BY <1>1, <1>2 DEF Diffs

(* A signal, or none, keeps the times of the last ones.                       *)
LEMMA EmitKeeps ==
  ASSUME MempoolServiceConstants, MempoolShape, NEW p \in Pools,
         Emit(p) \/ UNCHANGED <<lastEmitByPool, signal>>
  PROVE  Remembered(lastEmitByPool', Emits, maxEmits) /\ signal' \in BOOLEAN
<1>1. CASE UNCHANGED <<lastEmitByPool, signal>>
  BY <1>1 DEF MempoolShape
<1>2. CASE /\ lastEmitByPool' = Touched(lastEmitByPool, [pool |-> p, age |-> 0], maxEmits)
           /\ signal' = TRUE
  <2>1. [pool |-> p, age |-> 0] \in Emits
    BY DEF Emits
  <2>2. /\ lastEmitByPool \in Seq(Emits) /\ Len(lastEmitByPool) <= maxEmits
        /\ OnePerPool(lastEmitByPool) /\ maxEmits \in Nat \ {0}
    BY DEF MempoolShape, Remembered, MempoolServiceConstants
  <2> HIDE DEF Emits
  <2>3. Remembered(lastEmitByPool', Emits, maxEmits)
    BY <1>2, <2>1, <2>2, TouchedSound
  <2> QED
    BY <1>2, <2>3
<1> QED
  BY <1>1, <1>2 DEF Emit

(* A delta of a pool: what there was of it that is alive, and the swap.       *)
LEMMA DeltaKeeps ==
  ASSUME MempoolServiceConstants, MempoolShape, DeltasPending, NEW p \in Pools,
         heard' = [heard EXCEPT ![p] = @ \cup {swaps + 1}],
         overlay' = OverlayUpdated(p, swaps + 1), UNCHANGED latest
  PROVE  Remembered(overlay', Deltas, maxPools) /\ DeltasPending'
<1> DEFINE live == Live(overlay)
           before == UNION {e.swaps : e \in OfPool(live, p)}
           delta == [pool |-> p, age |-> 0, swaps |-> before \cup {swaps + 1}]
<1>1. /\ Remembered(overlay, Deltas, maxPools) /\ overlay \in Seq(Deltas)
      /\ swaps \in Nat /\ heard \in [Pools -> SUBSET (1..swaps)]
      /\ latest \in [Pools -> [swap : Nat, age : Nat]]
      /\ maxPools \in Nat /\ maxPools \in Nat \ {0}
  BY DEF MempoolShape, Remembered, MempoolServiceConstants
<1>2. Remembered(live, Deltas, maxPools) /\ Range(live) \subseteq Range(overlay)
  BY <1>1, LiveSound
<1>3. /\ live \in Seq(Deltas) /\ Len(live) <= maxPools /\ OnePerPool(live)
      /\ DOMAIN live = 1..Len(live)
  BY <1>2 DEF Remembered
<1> HIDE DEF live
<1>4. ASSUME NEW e \in Range(overlay)
      PROVE  /\ e.pool \in Pools /\ e.swaps \in SUBSET Nat
             /\ e.swaps \subseteq heard[e.pool] /\ latest[e.pool].swap \notin e.swaps
  <2>1. PICK i \in 1..Len(overlay) : e = overlay[i]
    <3>1. DOMAIN overlay = 1..Len(overlay)
      BY <1>1
    <3> QED
      BY <3>1 DEF Range
  <2>2. overlay[i] \in Deltas
    BY <1>1
  <2> QED
    BY <2>1, <2>2 DEF DeltasPending, Deltas
<1>5. ASSUME NEW s \in before
      PROVE  s \in heard[p] /\ s # latest[p].swap
  <2>1. PICK e \in OfPool(live, p) : s \in e.swaps
    OBVIOUS
  <2>2. e \in Range(overlay) /\ e.pool = p
    BY <1>2, <2>1 DEF OfPool
  <2> QED
    BY <1>4, <2>1, <2>2
<1>6. heard[p] \in SUBSET (1..swaps) /\ heard[p] \in SUBSET Nat
  BY <1>1
<1>7. swaps + 1 \in Nat /\ swaps + 1 \notin 1..swaps /\ 0 \notin 1..swaps /\ swaps + 1 # 0
  BY <1>1
<1>8. latest[p].swap # swaps + 1
  <2>1. latest[p] = NoSwap \/ latest[p].swap \in heard[p]
    BY DEF MempoolShape
  <2>2. CASE latest[p] = NoSwap
    BY <1>7, <2>2 DEF NoSwap
  <2>3. CASE latest[p].swap \in heard[p]
    BY <1>6, <1>7, <2>3
  <2> QED
    BY <2>1, <2>2, <2>3
<1>9. before \cup {swaps + 1} \in SUBSET Nat
  BY <1>5, <1>6, <1>7
<1>10. latest[p].swap \notin before \cup {swaps + 1}
  BY <1>5, <1>8
<1>11. /\ heard'[p] = heard[p] \cup {swaps + 1}
       /\ \A q \in Pools : heard[q] \subseteq heard'[q]
  BY <1>1
<1>12. before \cup {swaps + 1} \subseteq heard'[p]
  BY <1>5, <1>11
<1>13. overlay' = Touched(live, delta, maxPools)
  BY DEF OverlayUpdated, live
<1> HIDE DEF before
<1>14. delta \in Deltas /\ delta.pool = p /\ delta.swaps = before \cup {swaps + 1}
  BY <1>9 DEF Deltas
<1> HIDE DEF delta
<1>15. /\ Remembered(overlay', Deltas, maxPools)
       /\ \A k \in 1..Len(overlay') : overlay'[k] \in {delta} \cup Range(live)
  BY <1>1, <1>3, <1>13, <1>14, TouchedSound
<1>16. ASSUME NEW k \in 1..Len(overlay')
       PROVE  /\ overlay'[k].swaps \subseteq heard'[overlay'[k].pool]
              /\ latest'[overlay'[k].pool].swap \notin overlay'[k].swaps
  <2>1. CASE overlay'[k] = delta
    BY <1>10, <1>12, <1>14, <2>1
  <2>2. CASE overlay'[k] \in Range(overlay)
    BY <1>4, <1>11, <2>2
  <2> QED
    BY <1>2, <1>15, <2>1, <2>2
<1> QED
  BY <1>15, <1>16 DEF DeltasPending

(* An override of a pool: the swap, or nothing for a pool of another kind.    *)
LEMMA DiffSound ==
  ASSUME NEW p \in Pools, NEW swap \in Nat
  PROVE  /\ DiffOf(p, swap) \in Diffs /\ DOMAIN DiffOf(p, swap) \subseteq {p}
         /\ \A q \in DOMAIN DiffOf(p, swap) : DiffOf(p, swap)[q] = swap
         /\ DiffOf(p, swap) # <<>> => p \in DOMAIN DiffOf(p, swap)
<1>1. CASE KindOf[p] \in {"v2", "v3"}
  <2>1. [q \in {p} |-> swap] \in [{p} -> Nat] /\ {p} \in SUBSET Pools
    OBVIOUS
  <2> QED
    BY <1>1, <2>1 DEF DiffOf, Diffs
<1>2. CASE KindOf[p] \notin {"v2", "v3"}
  BY <1>2, NothingWritten DEF DiffOf
<1> QED
  BY <1>1, <1>2

(* Without its ticks a state is a state.                                      *)
LEMMA StateKeeps ==
  ASSUME MempoolShape, NEW p \in Pools
  PROVE  invalidatePoolTicks(p)
           \in [Pools -> [usable : BOOLEAN, ticks : BOOLEAN] \cup {NoState}]
<1>1. stateCache \in [Pools -> [usable : BOOLEAN, ticks : BOOLEAN] \cup {NoState}]
  BY DEF MempoolShape
<1>2. CASE stateCache[p] = NoState
  BY <1>1, <1>2 DEF invalidatePoolTicks
<1>3. CASE stateCache[p] # NoState
  <2>1. stateCache[p] \in [usable : BOOLEAN, ticks : BOOLEAN]
    BY <1>1, <1>3
  <2>2. [stateCache[p] EXCEPT !.ticks = FALSE] \in [usable : BOOLEAN, ticks : BOOLEAN]
    BY <2>1
  <2>3. invalidatePoolTicks(p)
          = [stateCache EXCEPT ![p] = [stateCache[p] EXCEPT !.ticks = FALSE]]
    BY <1>3 DEF invalidatePoolTicks
  <2> QED
    BY <1>1, <2>2, <2>3
<1> QED
  BY <1>2, <1>3

(* An update of the store with swaps since the last head keeps the overrides, *)
(* where the overrides of the pools it writes are those it writes.            *)
LEMMA StoreKeeps ==
  ASSUME MempoolServiceConstants, MempoolShape, OverridesPending,
         NEW diff \in Diffs, NEW affected \in SUBSET Pools,
         DOMAIN diff \subseteq affected, entry' = StoreUpdated(diff, affected),
         \A q \in Pools : heard[q] \subseteq heard'[q],
         \A q \in DOMAIN diff : diff[q] \in heard'[q],
         \A q \in Pools :
           IF q \in DOMAIN diff THEN latest'[q] = [swap |-> diff[q], age |-> 0]
           ELSE latest'[q] = latest[q]
  PROVE  /\ entry' \in [age : Nat, diff : Diffs, affected : SUBSET Pools]
         /\ DOMAIN entry'.diff \subseteq entry'.affected
         /\ OverridesPending'
<1>1. /\ entry' \in [age : Nat, diff : Diffs, affected : SUBSET Pools]
      /\ DOMAIN entry'.diff \subseteq entry'.affected /\ entry'.age = 0
      /\ DOMAIN diff \subseteq DOMAIN entry'.diff
      /\ Active => DOMAIN entry.diff \subseteq DOMAIN entry'.diff
      /\ \A q \in DOMAIN entry'.diff :
           IF q \in DOMAIN diff THEN entry'.diff[q] = diff[q]
           ELSE q \in DOMAIN entry.diff /\ entry'.diff[q] = entry.diff[q]
  BY StoreUpdatedSound
<1>2. entry.age \in Nat /\ latest \in [Pools -> [swap : Nat, age : Nat]]
      /\ DOMAIN entry.diff \subseteq Pools /\ ttl \in Nat
  BY DEF MempoolShape, MempoolServiceConstants
<1>3. ASSUME NEW q \in DOMAIN entry'.diff
      PROVE  entry'.diff[q] \in heard'[q]
  BY <1>1, <1>2 DEF OverridesPending
<1>4. ASSUME NEW q \in Pools, latest'[q] # NoSwap, latest'[q].age <= ttl
      PROVE  /\ q \in DOMAIN entry'.diff /\ entry'.diff[q] = latest'[q].swap
             /\ entry'.age <= latest'[q].age
  <2>1. CASE q \in DOMAIN diff
    <3>1. latest'[q] = [swap |-> diff[q], age |-> 0]
      BY <2>1
    <3>2. latest'[q].swap = diff[q] /\ latest'[q].age = 0
      BY <3>1
    <3>3. q \in DOMAIN entry'.diff /\ entry'.diff[q] = diff[q] /\ entry'.age = 0
      BY <1>1, <2>1
    <3> QED
      BY <3>2, <3>3
  <2>2. CASE q \notin DOMAIN diff
    <3>1. latest'[q] = latest[q]
      BY <2>2
    <3>2. /\ q \in DOMAIN entry.diff /\ entry.diff[q] = latest[q].swap
          /\ entry.age <= latest[q].age
      BY <1>4, <3>1 DEF OverridesPending
    <3>3. latest[q].age \in Nat
      BY <1>2
    <3>4. Active
      <4>1. entry # NoEntry
        BY <3>2, NothingWritten DEF NoEntry
      <4>2. entry.age <= ttl
        BY <1>2, <1>4, <3>1, <3>2, <3>3
      <4> QED
        BY <4>1, <4>2 DEF Active
    <3>5. entry'.age <= latest'[q].age
      BY <1>1, <3>1, <3>3
    <3> QED
      BY <1>1, <2>2, <3>1, <3>2, <3>4, <3>5
  <2> QED
    BY <2>1, <2>2
<1> QED
  BY <1>1, <1>3, <1>4 DEF OverridesPending

(* The deltas stay as they are, and what is heard of only grows.              *)
LEMMA DeltasStay ==
  ASSUME MempoolServiceConstants, MempoolShape, DeltasPending, UNCHANGED overlay,
         \A q \in Pools : heard[q] \subseteq heard'[q],
         \A q \in Pools : latest'[q].swap \in {latest[q].swap, swaps + 1}
  PROVE  Remembered(overlay', Deltas, maxPools) /\ DeltasPending'
<1>1. /\ Remembered(overlay, Deltas, maxPools) /\ overlay \in Seq(Deltas)
      /\ swaps \in Nat /\ heard \in [Pools -> SUBSET (1..swaps)]
  BY DEF MempoolShape, Remembered
<1>2. ASSUME NEW i \in 1..Len(overlay)
      PROVE  /\ overlay[i].swaps \subseteq heard'[overlay[i].pool]
             /\ latest'[overlay[i].pool].swap \notin overlay[i].swaps
  <2>1. overlay[i] \in Deltas
    BY <1>1
  <2>2. overlay[i].pool \in Pools
    BY <2>1 DEF Deltas
  <2>3. overlay[i].swaps \subseteq 1..swaps
    BY <1>1, <2>2 DEF DeltasPending
  <2>4. swaps + 1 \notin 1..swaps
    BY <1>1
  <2> QED
    BY <2>2, <2>3, <2>4 DEF DeltasPending
<1> QED
  BY <1>1, <1>2 DEF DeltasPending

(* A pending swap.                                                            *)
LEMMA PendingSwapKeeps ==
  ASSUME MempoolServiceConstants, MempoolInv, NEW to, NEW mentioned, NEW kind,
         NEW executes, NEW small, PendingSwap(to, mentioned, kind, executes, small)
  PROVE  MempoolInv'
<1> DEFINE swap == swaps + 1
<1>1. PICK p \in DecodedPools(to, mentioned) :
        /\ swaps' = swap
        /\ heard' = [heard EXCEPT ![p] = @ \cup {swap}]
        /\ UNCHANGED knownPools
        /\ IF executes /\ Throws(p, kind)
           THEN UNCHANGED <<stateCache, entry, overlay, traces, lastEmitByPool, signal,
                            latest>>
           ELSE /\ IF executes /\ Overrides(p, kind)
                   THEN Override(p, swap) ELSE NoOverride(p, kind, swap)
                /\ IF to = p /\ ~LargeEnough(p, small)
                   THEN UNCHANGED <<lastEmitByPool, signal>> ELSE Emit(p)
  BY DEF PendingSwap
<1>2. MempoolShape /\ OverridesPending /\ DeltasPending
  BY DEF MempoolInv
<1>3. /\ swaps \in Nat /\ heard \in [Pools -> SUBSET (1..swaps)]
      /\ latest \in [Pools -> [swap : Nat, age : Nat]]
      /\ knownPools \in SUBSET Pools /\ traces \in SUBSET Pools
      /\ \A q \in Pools : latest[q] = NoSwap \/ latest[q].swap \in heard[q]
  BY <1>2 DEF MempoolShape
<1>4. p \in Pools
  BY <1>1, <1>3 DEF DecodedPools
<1>5. swap \in Nat /\ swap \in 1..swap /\ 1..swaps \subseteq 1..swap
  BY <1>3
<1>6. /\ heard' \in [Pools -> SUBSET (1..swap)]
      /\ swap \in heard'[p] /\ \A q \in Pools : heard[q] \subseteq heard'[q]
  <2> HIDE DEF swap
  <2>1. heard \in [Pools -> SUBSET (1..swap)]
    BY <1>3, <1>5
  <2> QED
    BY <1>1, <1>4, <1>5, <2>1
<1>7. Emit(p) \/ UNCHANGED <<lastEmitByPool, signal>>
  BY <1>1
<1>8. Remembered(lastEmitByPool', Emits, maxEmits) /\ signal' \in BOOLEAN
  BY <1>2, <1>4, <1>7, EmitKeeps
<1> DEFINE States == [Pools -> [usable : BOOLEAN, ticks : BOOLEAN] \cup {NoState}]
           Entries == [age : Nat, diff : Diffs, affected : SUBSET Pools]
<1>9. SUFFICES /\ stateCache' \in States /\ traces' \in SUBSET Pools
               /\ entry' \in Entries /\ DOMAIN entry'.diff \subseteq entry'.affected
               /\ OverridesPending'
               /\ Remembered(overlay', Deltas, maxPools) /\ DeltasPending'
               /\ latest' \in [Pools -> [swap : Nat, age : Nat]]
               /\ \A q \in Pools : latest'[q] = NoSwap \/ latest'[q].swap \in heard'[q]
  BY <1>1, <1>3, <1>5, <1>6, <1>8 DEF MempoolInv, MempoolShape
<1>10. stateCache \in States /\ entry \in Entries /\ DOMAIN entry.diff \subseteq entry.affected
  BY <1>2 DEF MempoolShape
<1>11. DOMAIN entry.diff \subseteq Pools
  BY <1>10
<1>12. ASSUME UNCHANGED <<entry, latest>>
       PROVE  /\ entry' \in Entries /\ DOMAIN entry'.diff \subseteq entry'.affected
              /\ OverridesPending'
              /\ latest' \in [Pools -> [swap : Nat, age : Nat]]
              /\ \A q \in Pools : latest'[q] = NoSwap \/ latest'[q].swap \in heard'[q]
  <2>1. OverridesPending'
    BY <1>2, <1>6, <1>11, <1>12 DEF OverridesPending
  <2> QED
    BY <1>3, <1>6, <1>10, <1>12, <2>1
<1> HIDE DEF States, Entries
<1>13. CASE UNCHANGED <<stateCache, entry, overlay, traces, latest>>
  <2>1. Remembered(overlay', Deltas, maxPools) /\ DeltasPending'
    BY <1>2, <1>6, <1>13, DeltasStay
  <2> QED
    BY <1>3, <1>10, <1>12, <1>13, <2>1
<1>14. CASE Override(p, swap)
  <2> DEFINE diff == DiffOf(p, swap)
  <2> HIDE DEF swap
  <2>1. /\ diff \in Diffs /\ DOMAIN diff \subseteq {p} /\ {p} \in SUBSET Pools
        /\ \A q \in DOMAIN diff : diff[q] = swap
        /\ diff # <<>> => p \in DOMAIN diff
    BY <1>4, <1>5, DiffSound
  <2>2. /\ entry' = StoreUpdated(diff, {p})
        /\ stateCache' = invalidatePoolTicks(p)
        /\ latest' = IF diff = <<>> THEN latest
                     ELSE [latest EXCEPT ![p] = [swap |-> swap, age |-> 0]]
        /\ UNCHANGED <<overlay, traces>>
    BY <1>14 DEF Override
  <2> HIDE DEF diff
  <2>3. stateCache' \in States
    BY <1>2, <1>4, <2>2, StateKeeps DEF States
  <2>4. diff = <<>> => DOMAIN diff = {}
    BY NothingWritten
  <2>5. ASSUME NEW q \in Pools
        PROVE  IF q \in DOMAIN diff THEN latest'[q] = [swap |-> diff[q], age |-> 0]
               ELSE latest'[q] = latest[q]
    BY <1>3, <2>1, <2>2, <2>4
  <2>6. \A q \in DOMAIN diff : diff[q] \in heard'[q]
    BY <1>6, <2>1
  <2>7. /\ entry' \in Entries /\ DOMAIN entry'.diff \subseteq entry'.affected
        /\ OverridesPending'
    BY <1>2, <1>6, <2>1, <2>2, <2>5, <2>6, StoreKeeps DEF Entries
  <2>8. ASSUME NEW q \in Pools
        PROVE  /\ latest'[q].swap \in {latest[q].swap, swap}
               /\ q \in DOMAIN diff => latest'[q].swap \in heard'[q]
    <3>1. CASE q \in DOMAIN diff
      <4>1. latest'[q] = [swap |-> diff[q], age |-> 0] /\ diff[q] = swap
        BY <2>1, <2>5, <3>1
      <4>2. latest'[q].swap = swap
        BY <4>1
      <4> QED
        BY <2>6, <3>1, <4>1, <4>2
    <3>2. CASE q \notin DOMAIN diff
      BY <2>5, <3>2
    <3> QED
      BY <3>1, <3>2
  <2>9. Remembered(overlay', Deltas, maxPools) /\ DeltasPending'
    BY <1>2, <1>6, <2>2, <2>8, DeltasStay DEF swap
  <2>10. latest' \in [Pools -> [swap : Nat, age : Nat]]
    <3>1. [swap |-> swap, age |-> 0] \in [swap : Nat, age : Nat]
      BY <1>5
    <3> QED
      BY <1>3, <2>2, <3>1
  <2>11. ASSUME NEW q \in Pools
         PROVE  latest'[q] = NoSwap \/ latest'[q].swap \in heard'[q]
    <3>1. CASE q \in DOMAIN diff
      BY <2>8, <3>1
    <3>2. CASE q \notin DOMAIN diff
      BY <1>3, <1>6, <2>5, <3>2
    <3> QED
      BY <3>1, <3>2
  <2> QED
    BY <1>3, <2>2, <2>3, <2>7, <2>9, <2>10, <2>11
<1>15. CASE NoOverride(p, kind, swap)
  <2>1. /\ traces' \in {traces, traces \cup {p}}
        /\ overlay' = overlay \/ overlay' = OverlayUpdated(p, swap)
        /\ UNCHANGED <<entry, stateCache, latest>>
    BY <1>15 DEF NoOverride, buildOverride
  <2>2. Remembered(overlay', Deltas, maxPools) /\ DeltasPending'
    <3>1. CASE overlay' = overlay
      <4>1. \A q \in Pools : latest'[q].swap \in {latest[q].swap, swaps + 1}
        BY <2>1
      <4> QED
        BY <1>2, <1>6, <3>1, <4>1, DeltasStay
    <3>2. CASE overlay' = OverlayUpdated(p, swap)
      BY <1>1, <1>2, <1>4, <2>1, <3>2, DeltaKeeps
    <3> QED
      BY <2>1, <3>1, <3>2
  <2>3. traces' \in SUBSET Pools
    BY <1>3, <1>4, <2>1
  <2> QED
    BY <1>10, <1>12, <2>1, <2>2, <2>3
<1> QED
  BY <1>1, <1>13, <1>14, <1>15

(* A trace that ends, however late.                                           *)
LEMMA TraceKeeps ==
  ASSUME MempoolServiceConstants, MempoolInv, NEW p, NEW changed \in BOOLEAN,
         TraceAnswers(p, changed)
  PROVE  MempoolInv'
<1> DEFINE affected == IF changed THEN {p} ELSE {}
<1>1. /\ MempoolShape /\ OverridesPending /\ DeltasPending
      /\ p \in traces /\ traces \in SUBSET Pools
      /\ stateCache \in [Pools -> [usable : BOOLEAN, ticks : BOOLEAN] \cup {NoState}]
      /\ entry \in [age : Nat, diff : Diffs, affected : SUBSET Pools]
      /\ DOMAIN entry.diff \subseteq entry.affected
  BY DEF MempoolInv, MempoolShape, TraceAnswers
<1>2. /\ traces' = traces \ {p}
      /\ IF changed THEN /\ entry' = StoreUpdated(<<>>, {p})
                         /\ stateCache' = invalidatePoolTicks(p)
         ELSE UNCHANGED <<entry, stateCache>>
      /\ UNCHANGED <<knownPools, overlay, lastEmitByPool, signal, swaps, heard, latest>>
  BY DEF TraceAnswers, debugTraceCall
<1>3. stateCache' \in [Pools -> [usable : BOOLEAN, ticks : BOOLEAN] \cup {NoState}]
  <2>1. CASE changed
    BY <1>1, <1>2, <2>1, StateKeeps
  <2> QED
    BY <1>1, <1>2, <2>1
<1>4. /\ entry' \in [age : Nat, diff : Diffs, affected : SUBSET Pools]
      /\ DOMAIN entry'.diff \subseteq entry'.affected
      /\ OverridesPending'
  <2>1. CASE changed
    <3>1. /\ <<>> \in Diffs /\ DOMAIN <<>> = {} /\ {p} \in SUBSET Pools
          /\ entry' = StoreUpdated(<<>>, {p})
      BY <1>1, <1>2, <2>1, NothingWritten
    <3>2. \A q \in Pools : heard[q] \subseteq heard'[q] /\ latest'[q] = latest[q]
      BY <1>2
    <3> HIDE <1>2
    <3> QED
      BY <1>1, <3>1, <3>2, StoreKeeps
  <2>2. CASE ~changed
    BY <1>1, <1>2, <2>2 DEF OverridesPending
  <2> QED
    BY <2>1, <2>2
<1>5. DeltasPending' /\ Remembered(overlay', Deltas, maxPools)
  BY <1>1, <1>2 DEF DeltasPending, MempoolShape
<1> QED
  BY <1>1, <1>2, <1>3, <1>4, <1>5 DEF MempoolInv, MempoolShape

(* Everything gets older, up to a unit past every time to live.               *)
LEMMA AgedSound ==
  ASSUME MempoolServiceConstants, NEW age \in Nat, NEW older \in Nat, age <= older
  PROVE  Aged(age) \in Nat /\ (Aged(older) <= ttl => older <= ttl /\ Aged(age) <= Aged(older))
  BY DEF Aged, MempoolServiceConstants

(* What is remembered of pools, a unit later.                                 *)
LEMMA AgedList ==
  ASSUME MempoolServiceConstants, NEW S, NEW max, NEW items, Remembered(items, S, max),
         \A e \in S : [e EXCEPT !.age = Aged(@)] \in S
                      /\ [e EXCEPT !.age = Aged(@)].pool = e.pool
  PROVE  Remembered([i \in DOMAIN items |-> [items[i] EXCEPT !.age = Aged(@)]], S, max)
<1> DEFINE older(e) == [e EXCEPT !.age = Aged(@)]
           aged == [i \in DOMAIN items |-> older(items[i])]
<1>1. /\ items \in Seq(S) /\ Len(items) <= max /\ OnePerPool(items)
      /\ Len(items) \in Nat /\ DOMAIN items = 1..Len(items)
  BY DEF Remembered
<1>2. \A i \in 1..Len(items) : older(items[i]) \in S /\ older(items[i]).pool = items[i].pool
  BY <1>1
<1> HIDE DEF older
<1>3. aged = [i \in 1..Len(items) |-> older(items[i])]
  BY <1>1
<1>4. aged \in Seq(S) /\ Len(aged) = Len(items)
  BY <1>1, <1>2, <1>3
<1>5. \A i \in 1..Len(items) : aged[i].pool = items[i].pool
  BY <1>2, <1>3
<1> HIDE DEF aged
<1>6. OnePerPool(aged)
  BY <1>1, <1>4, <1>5 DEF OnePerPool
<1>7. Remembered(aged, S, max)
  BY <1>1, <1>4, <1>6 DEF Remembered
<1> QED
  BY <1>7 DEF aged, older

(* All grows older at once: no override outlives one that came later.         *)
LEMMA AgeKeeps ==
  ASSUME MempoolServiceConstants, MempoolInv, OverridesAge
  PROVE  MempoolInv'
<1>1. MempoolShape /\ OverridesPending /\ DeltasPending
  BY DEF MempoolInv
<1>2. /\ entry \in [age : Nat, diff : Diffs, affected : SUBSET Pools]
      /\ DOMAIN entry.diff \subseteq entry.affected
      /\ Remembered(overlay, Deltas, maxPools) /\ Remembered(lastEmitByPool, Emits, maxEmits)
      /\ heard \in [Pools -> SUBSET (1..swaps)]
      /\ latest \in [Pools -> [swap : Nat, age : Nat]]
      /\ \A p \in Pools : latest[p] = NoSwap \/ latest[p].swap \in heard[p]
  BY <1>1 DEF MempoolShape
<1>3. /\ entry' = IF entry = NoEntry THEN entry ELSE [entry EXCEPT !.age = Aged(@)]
      /\ overlay' = [i \in DOMAIN overlay |-> [overlay[i] EXCEPT !.age = Aged(@)]]
      /\ lastEmitByPool' =
           [i \in DOMAIN lastEmitByPool |-> [lastEmitByPool[i] EXCEPT !.age = Aged(@)]]
      /\ latest' = [p \in Pools |-> IF latest[p] = NoSwap THEN NoSwap
                                    ELSE [latest[p] EXCEPT !.age = Aged(@)]]
      /\ UNCHANGED <<stateCache, knownPools, traces, signal, swaps, heard>>
  BY DEF OverridesAge
<1>4. /\ entry' \in [age : Nat, diff : Diffs, affected : SUBSET Pools]
      /\ entry'.diff = entry.diff /\ entry'.affected = entry.affected
      /\ entry'.age = IF entry = NoEntry THEN entry.age ELSE Aged(entry.age)
  <2>1. Aged(entry.age) \in Nat
    BY <1>2, AgedSound
  <2> QED
    BY <1>2, <1>3, <2>1
<1>5. ASSUME NEW p \in Pools
      PROVE  /\ latest'[p] \in [swap : Nat, age : Nat] /\ latest'[p].swap = latest[p].swap
             /\ latest[p] = NoSwap => latest'[p] = NoSwap
             /\ latest[p] # NoSwap => latest'[p].age = Aged(latest[p].age)
  <2>1. Aged(latest[p].age) \in Nat /\ latest[p] \in [swap : Nat, age : Nat]
    BY <1>2, AgedSound
  <2>2. CASE latest[p] = NoSwap
    BY <1>3, <2>1, <2>2
  <2>3. CASE latest[p] # NoSwap
    <3>1. latest'[p] = [latest[p] EXCEPT !.age = Aged(@)]
      BY <1>3, <2>3
    <3> QED
      BY <2>1, <2>3, <3>1
  <2> QED
    BY <2>2, <2>3
<1>6. latest' \in [Pools -> [swap : Nat, age : Nat]]
  <2>1. latest' = [p \in Pools |-> latest'[p]]
    BY <1>3
  <2> QED
    BY <1>5, <2>1
<1>7. /\ Remembered(overlay', Deltas, maxPools)
      /\ Remembered(lastEmitByPool', Emits, maxEmits)
  <2>1. ASSUME NEW e \in Deltas
        PROVE  [e EXCEPT !.age = Aged(@)] \in Deltas
               /\ [e EXCEPT !.age = Aged(@)].pool = e.pool
    <3>1. e.age \in Nat
      BY DEF Deltas
    <3>2. Aged(e.age) \in Nat
      BY <3>1, AgedSound
    <3> QED
      BY <3>2 DEF Deltas
  <2>2. ASSUME NEW e \in Emits
        PROVE  [e EXCEPT !.age = Aged(@)] \in Emits
               /\ [e EXCEPT !.age = Aged(@)].pool = e.pool
    <3>1. e.age \in Nat
      BY DEF Emits
    <3>2. Aged(e.age) \in Nat
      BY <3>1, AgedSound
    <3> QED
      BY <3>2 DEF Emits
  <2> HIDE DEF Deltas, Emits
  <2>3. Remembered(overlay', Deltas, maxPools)
    BY <1>2, <1>3, <2>1, AgedList
  <2>4. Remembered(lastEmitByPool', Emits, maxEmits)
    BY <1>2, <1>3, <2>2, AgedList
  <2> QED
    BY <2>3, <2>4
<1>8. MempoolShape'
  BY <1>1, <1>2, <1>3, <1>4, <1>5, <1>6, <1>7 DEF MempoolShape
<1>9. OverridesPending'
  <2>1. ASSUME NEW p \in DOMAIN entry'.diff
        PROVE  entry'.diff[p] \in heard'[p]
    BY <1>1, <1>3, <1>4 DEF OverridesPending
  <2>2. ASSUME NEW p \in Pools, latest'[p] # NoSwap, latest'[p].age <= ttl
        PROVE  /\ p \in DOMAIN entry'.diff /\ entry'.diff[p] = latest'[p].swap
               /\ entry'.age <= latest'[p].age
    <3>1. latest[p] # NoSwap /\ latest'[p].age = Aged(latest[p].age)
      BY <1>5, <2>2
    <3>2. latest[p].age \in Nat /\ entry.age \in Nat
      BY <1>2
    <3>3. latest[p].age <= latest[p].age
      BY <3>2
    <3>4. latest[p].age <= ttl
      BY <2>2, <3>1, <3>2, <3>3, AgedSound
    <3>5. /\ p \in DOMAIN entry.diff /\ entry.diff[p] = latest[p].swap
          /\ entry.age <= latest[p].age
      BY <1>1, <3>1, <3>4 DEF OverridesPending
    <3>6. entry # NoEntry
      BY <3>5, NothingWritten DEF NoEntry
    <3>7. entry'.age = Aged(entry.age)
      BY <1>4, <3>6
    <3>8. Aged(entry.age) <= Aged(latest[p].age)
      BY <2>2, <3>1, <3>2, <3>5, AgedSound
    <3> QED
      BY <1>4, <1>5, <3>1, <3>5, <3>7, <3>8
  <2> QED
    BY <2>1, <2>2 DEF OverridesPending
<1>10. DeltasPending'
  <2>1. overlay \in Seq(Deltas) /\ DOMAIN overlay = 1..Len(overlay) /\ Len(overlay) \in Nat
    BY <1>2 DEF Remembered
  <2>2. Len(overlay') = Len(overlay)
    <3>1. DOMAIN overlay' = 1..Len(overlay) /\ overlay' \in Seq(Deltas)
      BY <1>3, <1>7, <2>1 DEF Remembered
    <3> QED
      BY <2>1, <3>1
  <2>3. ASSUME NEW i \in 1..Len(overlay)
        PROVE  /\ overlay'[i].pool = overlay[i].pool /\ overlay'[i].swaps = overlay[i].swaps
               /\ overlay[i].pool \in Pools
    <3>1. overlay[i] \in Deltas
      BY <2>1
    <3>2. overlay'[i] = [overlay[i] EXCEPT !.age = Aged(@)]
      BY <1>3, <2>1
    <3> QED
      BY <3>1, <3>2 DEF Deltas
  <2>4. ASSUME NEW i \in 1..Len(overlay)
        PROVE  /\ overlay'[i].swaps \subseteq heard'[overlay'[i].pool]
               /\ latest'[overlay'[i].pool].swap \notin overlay'[i].swaps
    <3>1. /\ overlay[i].swaps \subseteq heard[overlay[i].pool]
          /\ latest[overlay[i].pool].swap \notin overlay[i].swaps
      BY <1>1 DEF DeltasPending
    <3>2. latest'[overlay[i].pool].swap = latest[overlay[i].pool].swap /\ heard' = heard
      BY <1>3, <1>5, <2>3
    <3> QED
      BY <2>3, <3>1, <3>2
  <2> QED
    BY <2>2, <2>4 DEF DeltasPending
<1> QED
  BY <1>8, <1>9, <1>10 DEF MempoolInv

(* A head: nothing is pending.                                                *)
LEMMA NothingPending ==
  ASSUME MempoolServiceConstants
  PROVE  /\ NoEntry \in [age : Nat, diff : Diffs, affected : SUBSET Pools]
         /\ DOMAIN NoEntry.diff = {}
         /\ NoSwap \in [swap : Nat, age : Nat]
         /\ Remembered(<<>>, Deltas, maxPools) /\ Remembered(<<>>, Emits, maxEmits)
<1>1. <<>> \in Seq(Deltas) /\ <<>> \in Seq(Emits) /\ Len(<<>>) = 0
  OBVIOUS
<1>2. maxPools \in Nat /\ maxEmits \in Nat
  BY DEF MempoolServiceConstants
<1> QED
  BY <1>1, <1>2, NothingWritten DEF NoEntry, NoSwap, Remembered, OnePerPool

(* A head leaves nothing pending, whatever it finds.                          *)
LEMMA NewHeadKeeps ==
  ASSUME MempoolServiceConstants, MempoolInv, NewHead
  PROVE  MempoolInv'
<1>1. MempoolShape
  BY DEF MempoolInv
<1>2. /\ entry' = NoEntry /\ overlay' = <<>>
      /\ heard' = [p \in Pools |-> {}] /\ latest' = [p \in Pools |-> NoSwap]
      /\ UNCHANGED <<stateCache, knownPools, traces, lastEmitByPool, signal, swaps>>
  BY DEF NewHead
<1>3. heard' \in [Pools -> SUBSET (1..swaps')]
  BY <1>2
<1>4. MempoolShape'
  BY <1>1, <1>2, <1>3, NothingPending DEF MempoolShape
<1>5. OverridesPending'
  BY <1>2, NothingPending DEF OverridesPending
<1>6. DeltasPending'
  BY <1>2 DEF DeltasPending
<1> QED
  BY <1>4, <1>5, <1>6 DEF MempoolInv

(* Nothing is pending at first.                                               *)
LEMMA MempoolInitial ==
  ASSUME MempoolServiceConstants, MempoolServiceInit
  PROVE  MempoolInv
<1>1. /\ stateCache = [p \in Pools |-> NoState] /\ knownPools = {}
      /\ entry = NoEntry /\ overlay = <<>> /\ traces = {}
      /\ lastEmitByPool = <<>> /\ signal = FALSE
      /\ swaps = 0 /\ heard = [p \in Pools |-> {}] /\ latest = [p \in Pools |-> NoSwap]
  BY DEF MempoolServiceInit
<1>2. heard \in [Pools -> SUBSET (1..swaps)]
  BY <1>1
<1>3. MempoolShape
  BY <1>1, <1>2, NothingPending DEF MempoolShape
<1>4. OverridesPending
  BY <1>1, NothingPending DEF OverridesPending
<1>5. DeltasPending
  BY <1>1 DEF DeltasPending
<1> QED
  BY <1>3, <1>4, <1>5 DEF MempoolInv

(* What is fetched of a pool, and what the service knows and signals, leave   *)
(* the overrides and the deltas as they are.                                  *)
LEMMA RestKeeps ==
  ASSUME MempoolServiceConstants, MempoolInv,
         UNCHANGED <<entry, overlay, traces, lastEmitByPool, swaps, heard, latest>>,
         stateCache' \in [Pools -> [usable : BOOLEAN, ticks : BOOLEAN] \cup {NoState}],
         knownPools' \in SUBSET Pools, signal' \in BOOLEAN
  PROVE  MempoolInv'
<1>1. MempoolShape'
  BY DEF MempoolInv, MempoolShape
<1> QED
  BY <1>1 DEF MempoolInv, OverridesPending, DeltasPending

(* Every operation of the service keeps the invariant.                        *)
LEMMA MempoolStep ==
  ASSUME MempoolServiceConstants, MempoolInv, [MempoolServiceNext]_mempoolVars
  PROVE  MempoolInv'
<1>1. /\ stateCache \in [Pools -> [usable : BOOLEAN, ticks : BOOLEAN] \cup {NoState}]
      /\ knownPools \in SUBSET Pools /\ signal \in BOOLEAN
  BY DEF MempoolInv, MempoolShape
<1>2. CASE \E p \in Pools, executes, small \in BOOLEAN :
             \E to \in {p, Router}, kind \in {KindOf[p], "v2", "v4"} :
               PendingSwap(to, p, kind, executes, small)
  BY <1>2, PendingSwapKeeps
<1>3. CASE \E p \in Pools, changed \in BOOLEAN : TraceAnswers(p, changed)
  BY <1>3, TraceKeeps
<1>4. CASE setKnownPools(Pools)
  BY <1>1, <1>4, RestKeeps DEF setKnownPools
<1>5. CASE NewHead
  BY <1>5, NewHeadKeeps
<1>6. CASE TakeSignal
  BY <1>1, <1>6, RestKeeps DEF TakeSignal
<1>7. CASE StateChanges
  <2>1. PICK p \in Pools :
          \E state \in [usable : BOOLEAN, ticks : {KindOf[p] = "v3", FALSE}] \cup {NoState} :
            stateCache' = [stateCache EXCEPT ![p] = state]
    BY <1>7 DEF StateChanges
  <2>2. PICK state \in [usable : BOOLEAN, ticks : {KindOf[p] = "v3", FALSE}] \cup {NoState} :
          stateCache' = [stateCache EXCEPT ![p] = state]
    BY <2>1
  <2>3. state \in [usable : BOOLEAN, ticks : BOOLEAN] \cup {NoState}
    OBVIOUS
  <2>4. stateCache' \in [Pools -> [usable : BOOLEAN, ticks : BOOLEAN] \cup {NoState}]
    BY <1>1, <2>2, <2>3
  <2> QED
    BY <1>1, <1>7, <2>4, RestKeeps DEF StateChanges
<1>8. CASE OverridesAge
  BY <1>8, AgeKeeps
<1>9. CASE UNCHANGED mempoolVars
  BY <1>1, <1>9, RestKeeps DEF mempoolVars
<1> QED
  BY <1>2, <1>3, <1>4, <1>5, <1>6, <1>7, <1>8, <1>9 DEF MempoolServiceNext

(* For all pools, kinds, times to live and limits: what is pending of a pool is*)
(* what came since the last head, and the last override of it is in the entry *)
(* for as long as it may live.                                                *)
THEOREM MempoolInvariant ==
  ASSUME MempoolServiceConstants
  PROVE  MempoolServiceSpec => []MempoolInv
<1>1. MempoolServiceInit => MempoolInv
  BY MempoolInitial
<1>2. MempoolInv /\ [MempoolServiceNext]_mempoolVars => MempoolInv'
  BY MempoolStep
<1> QED
  BY <1>1, <1>2, PTL DEF MempoolServiceSpec

-----------------------------------------------------------------------------
(* The swaps in a view are those of the entry, or of the delta that is alive. *)
LEMMA InViewSound ==
  ASSUME MempoolServiceConstants, MempoolInv, NEW p \in Pools, NEW s \in InView(p)
  PROVE  /\ s \in heard[p]
         /\ (Active /\ p \in DOMAIN entry.diff) \/ s # latest[p].swap
<1>1. MempoolShape /\ OverridesPending /\ DeltasPending
  BY DEF MempoolInv
<1>2. CASE Active /\ p \in entry.affected
  <2>1. p \in DOMAIN entry.diff /\ s = entry.diff[p]
    BY <1>2 DEF InView
  <2> QED
    BY <1>1, <1>2, <2>1 DEF OverridesPending
<1>3. CASE ~(Active /\ p \in entry.affected)
  <2>1. PICK e \in OfPool(Live(overlay), p) : s \in e.swaps
    BY <1>3 DEF InView
  <2>2. Remembered(overlay, Deltas, maxPools) /\ maxPools \in Nat
    BY <1>1 DEF MempoolShape, MempoolServiceConstants
  <2>3. Range(Live(overlay)) \subseteq Range(overlay)
    BY <2>2, LiveSound
  <2>4. e \in Range(overlay) /\ e.pool = p
    BY <2>1, <2>3 DEF OfPool
  <2>5. PICK i \in 1..Len(overlay) : e = overlay[i]
    BY <2>2, <2>4 DEF Range, Remembered
  <2> QED
    BY <1>1, <2>1, <2>4, <2>5 DEF DeltasPending
<1> QED
  BY <1>2, <1>3

(* For all pools, times to live and limits: the types of MempoolService.      *)
THEOREM MempoolServiceTyped ==
  ASSUME MempoolServiceConstants
  PROVE  MempoolServiceSpec => []MempoolServiceTypeOK
<1>1. MempoolInv => MempoolServiceTypeOK
  <2> SUFFICES ASSUME MempoolInv PROVE MempoolServiceTypeOK
    OBVIOUS
  <2>1. MempoolShape
    BY DEF MempoolInv
  <2>2. /\ Remembered(overlay, Deltas, maxPools) /\ Remembered(lastEmitByPool, Emits, maxEmits)
        /\ DOMAIN overlay = 1..Len(overlay)
    BY <2>1 DEF MempoolShape, Remembered
  <2>3. ASSUME NEW p \in Pools
        PROVE  Cardinality(OfPool(overlay, p)) <= 1
    <3>1. CASE OfPool(overlay, p) = {}
      BY <3>1, FS_EmptySet
    <3>2. CASE OfPool(overlay, p) # {}
      <4>1. PICK e \in OfPool(overlay, p) : TRUE
        BY <3>2
      <4>2. OfPool(overlay, p) = {e}
        BY <2>2, <4>1 DEF OfPool, Range, Remembered, OnePerPool
      <4> QED
        BY <4>2, FS_Singleton
    <3> QED
      BY <3>1, <3>2
  <2> QED
    BY <2>1, <2>2, <2>3 DEF MempoolServiceTypeOK, MempoolShape, Remembered
<1> QED
  BY <1>1, MempoolInvariant, PTL

(* A pool is simulated with the last pending swap that could be applied to    *)
(* it, and with none from before the last head, and a V3 state with that swap *)
(* has no ticks from before it.                                               *)
THEOREM ProjectionSound ==
  ASSUME MempoolServiceConstants
  PROVE  MempoolServiceSpec => []ProjectionFollowsPending
<1>1. MempoolInv => ProjectionFollowsPending
  <2> SUFFICES ASSUME MempoolInv, NEW p \in Pools
               PROVE  /\ InView(p) \subseteq heard[p]
                      /\ latest[p] # NoSwap /\ latest[p].age <= ttl
                           => latest[p].swap \in InView(p)
                      /\ KindOf[p] = "v3" /\ InView(p) \cap {latest[p].swap} # {}
                           => ~TicksInView(p)
    BY DEF ProjectionFollowsPending
  <2>1. InView(p) \subseteq heard[p]
    BY InViewSound
  <2>2. ASSUME latest[p] # NoSwap, latest[p].age <= ttl
        PROVE  latest[p].swap \in InView(p)
    <3>1. /\ p \in DOMAIN entry.diff /\ entry.diff[p] = latest[p].swap
          /\ entry.age <= latest[p].age
      BY <2>2 DEF MempoolInv, OverridesPending
    <3>2. /\ entry.age \in Nat /\ latest[p].age \in Nat /\ ttl \in Nat
          /\ p \in entry.affected
      BY <3>1 DEF MempoolInv, MempoolShape, MempoolServiceConstants
    <3>3. entry.age <= ttl
      BY <2>2, <3>1, <3>2
    <3>4. entry # NoEntry
      BY <3>1, NothingWritten DEF NoEntry
    <3> QED
      BY <3>1, <3>2, <3>3, <3>4 DEF InView, Active
  <2>3. ASSUME KindOf[p] = "v3", InView(p) \cap {latest[p].swap} # {}
        PROVE  ~TicksInView(p)
    <3>1. latest[p].swap \in InView(p)
      BY <2>3
    <3>2. Active /\ p \in DOMAIN entry.diff
      BY <3>1, InViewSound
    <3> QED
      BY <2>3, <3>2 DEF TicksInView
  <2> QED
    BY <2>1, <2>2, <2>3
<1> QED
  BY <1>1, MempoolInvariant, PTL
===============================================================================
