------------------------ MODULE NonceManagerProofs --------------------------
(***************************************************************************)
(* For every bound, every limit of the stale set and every set of          *)
(* recoveries: the type invariant of NonceManager, that a nonce is handed  *)
(* out once between two resyncs, that no nonce above the watermark is      *)
(* forgotten, and that the manager implements NonceAllocator.              *)
(***************************************************************************)
EXTENDS NonceManager, FiniteSetTheorems, TLAPS

\* The inductive invariant: the types (with the bound of the counter, which the
\* type of pendingCount rests on), and the two properties, each inductive given
\* the types.
IInv ==
    /\ TypeOK
    /\ IssuedBelowNext
    /\ NoNonceForgotten

-----------------------------------------------------------------------------
(* Lemmas about the methods. *)

\* Restricting the insertion order to a set gives pairs of that set.
LEMMA OrderWithinType ==
    ASSUME NEW order, NEW S
    PROVE  OrderWithin(order, S) \in SUBSET (S \X S)
BY DEF OrderWithin

\* The order of a set restricted to a part of it is a total order of the part.
LEMMA SmallerOrder ==
    ASSUME StaleOrderTotal, NEW S \in SUBSET staleNonces, SetStale(S, staleOrder)
    PROVE  StaleOrderTotal'
<1> SUFFICES ASSUME NEW m \in S, NEW n \in S
             PROVE  /\ m # n => (<<m, n>> \in staleOrder' \/ <<n, m>> \in staleOrder')
                    /\ <<m, n>> \in staleOrder' => <<n, m>> \notin staleOrder'
  BY DEF StaleOrderTotal, SetStale
<1>1. \A p : p \in staleOrder' <=> p \in staleOrder /\ p \in S \X S
  BY DEF SetStale, OrderWithin
<1> QED
  BY <1>1 DEF StaleOrderTotal

\* Adding a nonce at the end, and dropping some, keeps a total order.
LEMMA AddedOrder ==
    ASSUME TypeOK, NEW n, NEW S \in SUBSET (staleNonces \union {n}),
           SetStale(S, OrderAfterAdd(n))
    PROVE  StaleOrderTotal'
<1> SUFFICES ASSUME NEW a \in S, NEW b \in S
             PROVE  /\ a # b => (<<a, b>> \in staleOrder' \/ <<b, a>> \in staleOrder')
                    /\ <<a, b>> \in staleOrder' => <<b, a>> \notin staleOrder'
  BY DEF StaleOrderTotal, SetStale
<1>1. \A x, y \in S : <<x, y>> \in staleOrder' <=> <<x, y>> \in OrderAfterAdd(n)
  BY DEF SetStale, OrderWithin
<1>2. CASE n \in staleNonces
  BY <1>1, <1>2 DEF OrderAfterAdd, StaleOrderTotal, TypeOK
<1>3. CASE n \notin staleNonces
  <2>1. \A x, y \in S : <<x, y>> \in staleOrder' <=>
            <<x, y>> \in staleOrder \/ (x \in staleNonces /\ y = n)
    BY <1>1, <1>3 DEF OrderAfterAdd
  <2>2. \A x, y : <<x, y>> \in staleOrder => x \in staleNonces /\ y \in staleNonces
    BY DEF TypeOK
  <2> QED
    BY <1>3, <2>1, <2>2 DEF StaleOrderTotal, TypeOK
<1> QED
  BY <1>2, <1>3

\* What confirmNonce does to the counters: the counter never goes back, and
\* the window between watermark and counter only loses the nonces up to the
\* confirmed one. (The new values have names of their own: the provers treat
\* a primed sum as opaque.)
LEMMA ConfirmCounters ==
    ASSUME TypeOK, NEW n \in Nonces, ConfirmNonce(n),
           NEW local, local = localNonce',
           NEW pending, pending = pendingCount'
    PROVE  /\ localNonce = None => local = None /\ pending = 0
           /\ localNonce # None =>
                 /\ localNonce \in Nat
                 /\ pendingCount \in Nat
                 /\ local \in 0..MaxNonce + 1
                 /\ pending \in Nat
                 /\ local + pending <= MaxNonce + 1
                 /\ localNonce <= local
                 /\ localNonce + pendingCount <= local + pending
                 /\ \/ local + pending = localNonce + pendingCount
                    \/ pending = 0
                 /\ n < local
<1> USE NonceManagerAssumption DEF TypeOK, CounterOK, Nonces
<1>1. CASE localNonce = None \/ n < localNonce
  <2>1. local = localNonce /\ pending = pendingCount
    BY <1>1 DEF ConfirmNonce
  <2> QED
    BY <1>1, <2>1
<1>2. CASE localNonce # None /\ n >= localNonce
  <2>1. localNonce \in Nat /\ n \in Nat /\ n <= MaxNonce
    BY <1>2
  <2>2. /\ local = n + 1
        /\ pending = IF pendingCount > n - localNonce + 1
                     THEN pendingCount - (n - localNonce + 1) ELSE 0
    BY <1>2, <2>1 DEF ConfirmNonce
  <2> QED
    BY <1>2, <2>1, <2>2
<1> QED
  BY <1>1, <1>2

\* A nonce stays in the stale set when another one is confirmed below it.
LEMMA ConfirmKeepsAbove ==
    ASSUME TypeOK, NEW n \in Nonces, ConfirmNonce(n),
           NEW m \in Nonces, m > n
    PROVE  /\ m \in inFlight => m \in inFlight'
           /\ m \in staleNonces => m \in staleNonces'
BY NonceManagerAssumption DEF ConfirmNonce, SetStale, StaleAfterConfirm, TypeOK, Nonces

\* markStale moves a nonce from the submissions to the stale set, and only
\* eviction removes one from there.
LEMMA MarkStaleFacts ==
    ASSUME TypeOK, NEW n \in Nonces, MarkStale(n)
    PROVE  /\ UNCHANGED <<localNonce, pendingCount>>
           /\ inFlight' = inFlight \ {n}
           /\ staleNonces' \in SUBSET Nonces
           /\ staleOrder' \in SUBSET (staleNonces' \X staleNonces')
           /\ StaleOrderTotal'
<1>1. PICK S \in SUBSET (staleNonces \union {n}) : SetStale(S, OrderAfterAdd(n))
  BY DEF MarkStale
<1>2. StaleOrderTotal'
  BY <1>1, AddedOrder
<1> QED
  BY <1>1, <1>2, OrderWithinType DEF MarkStale, SetStale, TypeOK

-----------------------------------------------------------------------------
(* The inductive invariant. *)

LEMMA InitIInv == Init => IInv
<1> SUFFICES ASSUME Init PROVE IInv
  OBVIOUS
<1> USE NonceManagerAssumption DEF Init, ManagerInit
<1>1. TypeOK
  BY DEF TypeOK, CounterOK, StaleOrderTotal, Nonces
<1>2. IssuedBelowNext /\ NoNonceForgotten
  BY DEF IssuedBelowNext, NoNonceForgotten
<1> QED
  BY <1>1, <1>2 DEF IInv

LEMMA NextIInv == IInv /\ [Next]_vars => IInv'
<1> SUFFICES ASSUME IInv, [Next]_vars PROVE IInv'
  OBVIOUS
<1> USE NonceManagerAssumption DEF IInv
<1>1. CASE Reserve
  <2>1. /\ localNonce \in Nat
        /\ localNonce + pendingCount \in Nonces
        /\ localNonce' = localNonce
        /\ pendingCount' = pendingCount + 1
        /\ inFlight' = inFlight \union {localNonce + pendingCount}
        /\ issued' = issued \union {localNonce + pendingCount}
        /\ everIssued' = everIssued \union {localNonce + pendingCount}
        /\ UNCHANGED <<staleNonces, staleOrder, recovering, dropped>>
    BY <1>1 DEF Reserve, ReserveNonce, expectedNextNonce, TypeOK, Nonces
  <2>2. CounterOK' /\ StaleOrderTotal'
    BY <2>1 DEF TypeOK, CounterOK, StaleOrderTotal, Nonces
  <2>3. TypeOK'
    BY <2>1, <2>2 DEF TypeOK, Nonces
  <2>4. IssuedBelowNext'
    BY <2>1 DEF TypeOK, IssuedBelowNext, Nonces
  <2>5. NoNonceForgotten'
    BY <2>1 DEF TypeOK, NoNonceForgotten, Nonces
  <2> QED
    BY <2>2, <2>3, <2>4, <2>5
<1>2. ASSUME NEW c \in Nonces, Resync(c)
      PROVE  IInv'
  <2>1. CounterOK' /\ StaleOrderTotal'
    BY <1>2 DEF Resync, ResyncTo, CounterOK, StaleOrderTotal, Nonces
  <2>2. TypeOK'
    BY <1>2, <2>1 DEF Resync, ResyncTo, TypeOK, Nonces
  <2>3. IssuedBelowNext'
    BY <1>2 DEF Resync, IssuedBelowNext
  <2>4. NoNonceForgotten'
    BY <1>2 DEF Resync, ResyncTo, NoNonceForgotten, Nonces
  <2> QED
    BY <2>1, <2>2, <2>3, <2>4
<1>3. ASSUME NEW n \in everIssued, Confirm(n)
      PROVE  IInv'
  <2>1. n \in Nonces
    BY DEF TypeOK
  <2>2. ConfirmNonce(n) /\ UNCHANGED <<recovering, issued, everIssued, dropped>>
    BY <1>3 DEF Confirm
  <2>3. /\ inFlight' \subseteq inFlight
        /\ staleNonces' \subseteq staleNonces
        /\ staleOrder' \in SUBSET (staleNonces' \X staleNonces')
        /\ StaleOrderTotal'
    <3>1. CASE UNCHANGED <<staleNonces, staleOrder>>
      BY <3>1, <2>2 DEF ConfirmNonce, StaleOrderTotal, TypeOK
    <3>2. CASE SetStale(StaleAfterConfirm(n), staleOrder)
      <4>1. StaleAfterConfirm(n) \in SUBSET staleNonces
        BY DEF StaleAfterConfirm
      <4>2. StaleOrderTotal'
        BY <3>2, <4>1, SmallerOrder DEF TypeOK
      <4> QED
        BY <2>2, <3>2, <4>1, <4>2, OrderWithinType DEF ConfirmNonce, SetStale
    <3> QED
      BY <2>2, <3>1, <3>2 DEF ConfirmNonce
  <2> DEFINE local == localNonce'
             pending == pendingCount'
  <2>4. local = localNonce' /\ pending = pendingCount'
    OBVIOUS
  <2> HIDE DEF local, pending
  <2>5. /\ localNonce = None => local = None /\ pending = 0
        /\ localNonce # None =>
              /\ localNonce \in Nat
              /\ pendingCount \in Nat
              /\ local \in 0..MaxNonce + 1
              /\ pending \in Nat
              /\ local + pending <= MaxNonce + 1
              /\ localNonce <= local
              /\ localNonce + pendingCount <= local + pending
              /\ \/ local + pending = localNonce + pendingCount
                 \/ pending = 0
              /\ n < local
    BY <2>1, <2>2, <2>4, ConfirmCounters
  <2>6. /\ local \in 0..MaxNonce + 1 \union {None}
        /\ pending \in 0..MaxNonce + 1
        /\ localNonce = None <=> local = None
    BY <2>5
  <2>7. CounterOK'
    BY <2>5, <2>6 DEF CounterOK, local, pending
  <2>8. TypeOK'
    BY <2>2, <2>3, <2>6, <2>7 DEF TypeOK, local, pending
  <2>9. IssuedBelowNext'
    <3>1. ASSUME NEW m \in issued
          PROVE  local # None /\ m < local + pending
      <4>1. localNonce # None /\ m < localNonce + pendingCount
        BY DEF IssuedBelowNext
      <4>2. m \in Nat
        BY DEF TypeOK, Nonces
      <4> QED
        BY <4>1, <4>2, <2>5
    <3> QED
      BY <3>1, <2>2 DEF IssuedBelowNext, local, pending
  <2>10. NoNonceForgotten'
    <3>1. ASSUME local # None, NEW m \in local..local + pending - 1
          PROVE  m \in inFlight' \union staleNonces' \union dropped
      <4>1. /\ n \in Nat
            /\ localNonce # None
        BY <2>1, <2>6, <3>1 DEF Nonces
      <4>2. localNonce + pendingCount <= MaxNonce + 1
        BY <4>1 DEF TypeOK, CounterOK
      <4>3. m > n /\ m \in Nonces /\ m \in localNonce..localNonce + pendingCount - 1
        BY <2>5, <3>1, <4>1, <4>2 DEF Nonces
      <4>4. m \in inFlight \union staleNonces \union dropped
        BY <4>1, <4>3 DEF NoNonceForgotten
      <4> QED
        BY <2>1, <2>2, <4>3, <4>4, ConfirmKeepsAbove
    <3> QED
      BY <3>1, <2>2 DEF NoNonceForgotten, local, pending
  <2> QED
    BY <2>7, <2>8, <2>9, <2>10
<1>4. ASSUME NEW n \in everIssued, Stale(n)
      PROVE  IInv'
  <2>1. n \in Nonces
    BY DEF TypeOK
  <2>2. /\ MarkStale(n)
        /\ dropped' = dropped \union ((staleNonces \union {n}) \ staleNonces')
        /\ UNCHANGED <<recovering, issued, everIssued>>
    BY <1>4 DEF Stale
  <2>3. /\ UNCHANGED <<localNonce, pendingCount>>
        /\ inFlight' = inFlight \ {n}
        /\ staleNonces' \in SUBSET Nonces
        /\ staleOrder' \in SUBSET (staleNonces' \X staleNonces')
        /\ StaleOrderTotal'
    BY <2>1, <2>2, MarkStaleFacts
  <2>4. CounterOK' /\ IssuedBelowNext'
    BY <2>2, <2>3 DEF TypeOK, CounterOK, IssuedBelowNext
  <2>5. TypeOK'
    BY <2>1, <2>2, <2>3, <2>4 DEF TypeOK
  <2>6. NoNonceForgotten'
    BY <2>2, <2>3 DEF NoNonceForgotten
  <2> QED
    BY <2>4, <2>5, <2>6
<1>5. ASSUME NEW t \in Tasks, RecoverStart(t)
      PROVE  IInv'
  <2>1. /\ recovering' \in [Tasks -> Nonces \union {None}]
        /\ UNCHANGED <<localNonce, pendingCount, inFlight, staleNonces,
                       staleOrder, issued, everIssued, dropped>>
    BY <1>5 DEF RecoverStart, RecoverStaleStart, TypeOK
  <2>2. CounterOK' /\ StaleOrderTotal'
    BY <2>1 DEF TypeOK, CounterOK, StaleOrderTotal
  <2> QED
    BY <2>1, <2>2 DEF TypeOK, IssuedBelowNext, NoNonceForgotten
<1>6. ASSUME NEW t \in Tasks, RecoverDone(t)
      PROVE  IInv'
  <2>1. /\ recovering[t] \in Nonces
        /\ recovering' \in [Tasks -> Nonces \union {None}]
        /\ staleNonces' = staleNonces \ {recovering[t]}
        /\ SetStale(staleNonces \ {recovering[t]}, staleOrder)
        /\ staleOrder' \in SUBSET (staleNonces' \X staleNonces')
        /\ dropped' = dropped \union {recovering[t]}
        /\ UNCHANGED <<localNonce, pendingCount, inFlight, issued, everIssued>>
    BY <1>6, OrderWithinType DEF RecoverDone, RecoverStaleDone, SetStale, TypeOK
  <2>2. CounterOK' /\ StaleOrderTotal'
    BY <2>1, SmallerOrder DEF TypeOK, CounterOK
  <2> QED
    BY <2>1, <2>2 DEF TypeOK, IssuedBelowNext, NoNonceForgotten
<1>7. ASSUME NEW t \in Tasks, RecoverFailed(t)
      PROVE  IInv'
  <2>1. /\ recovering' \in [Tasks -> Nonces \union {None}]
        /\ UNCHANGED <<localNonce, pendingCount, inFlight, staleNonces,
                       staleOrder, issued, everIssued, dropped>>
    BY <1>7 DEF RecoverFailed, RecoverStaleFailed, TypeOK
  <2>2. CounterOK' /\ StaleOrderTotal'
    BY <2>1 DEF TypeOK, CounterOK, StaleOrderTotal
  <2> QED
    BY <2>1, <2>2 DEF TypeOK, IssuedBelowNext, NoNonceForgotten
<1>8. CASE UNCHANGED vars
  <2>1. CounterOK' /\ StaleOrderTotal'
    BY <1>8 DEF vars, TypeOK, CounterOK, StaleOrderTotal
  <2> QED
    BY <1>8, <2>1 DEF vars, TypeOK, IssuedBelowNext, NoNonceForgotten
<1> QED
  BY <1>1, <1>2, <1>3, <1>4, <1>5, <1>6, <1>7, <1>8 DEF Next

-----------------------------------------------------------------------------
(* The theorems. *)

\* The inductive invariant holds in every reachable state.
THEOREM InductiveInvariant == Spec => []IInv
BY InitIInv, NextIInv, PTL DEF Spec

\* The state of the manager keeps its types.
THEOREM TypeCorrect == Spec => []TypeOK
<1>1. IInv => TypeOK
  BY DEF IInv
<1> QED
  BY <1>1, InductiveInvariant, PTL

\* getNextNonce never returns a nonce it returned since the last resync: the
\* ones it returned are all below the counter.
THEOREM NoncesUnique == Spec => []IssuedBelowNext
<1>1. IInv => IssuedBelowNext
  BY DEF IInv
<1> QED
  BY <1>1, InductiveInvariant, PTL

\* A nonce above the confirmed watermark is in flight, waits for recovery, or
\* left the stale set by recovery or eviction.
THEOREM NothingForgotten == Spec => []NoNonceForgotten
<1>1. IInv => NoNonceForgotten
  BY DEF IInv
<1> QED
  BY <1>1, InductiveInvariant, PTL

-----------------------------------------------------------------------------
(* The limit of the stale set. *)

LEMMA InitStaleBounded == Init => StaleBounded
<1> SUFFICES ASSUME Init PROVE StaleBounded
  OBVIOUS
<1>1. Cardinality({}) = 0
  BY FS_EmptySet
<1> QED
  BY <1>1, NonceManagerAssumption DEF Init, ManagerInit, StaleBounded

\* A set that only loses members keeps within the limit.
LEMMA SmallerStale ==
    ASSUME TypeOK, StaleBounded, staleNonces' \subseteq staleNonces
    PROVE  StaleBounded'
<1>1. IsFiniteSet(Nonces)
  BY FS_Interval, NonceManagerAssumption DEF Nonces
<1>2. IsFiniteSet(staleNonces)
  BY <1>1, FS_Subset DEF TypeOK
<1>3. Cardinality(staleNonces') <= Cardinality(staleNonces)
  BY <1>2, FS_Subset
<1>4. /\ Cardinality(staleNonces) \in Nat
      /\ Cardinality(staleNonces') \in Nat
  BY <1>2, FS_Subset, FS_CardinalityType
<1> QED
  BY <1>3, <1>4, NonceManagerAssumption DEF StaleBounded

\* Adding one and, over the limit, evicting one keeps within the limit.
LEMMA MarkStaleBounded ==
    ASSUME TypeOK, StaleBounded, NEW n \in Nonces, MarkStale(n)
    PROVE  StaleBounded'
<1>1. IsFiniteSet(Nonces)
  BY FS_Interval, NonceManagerAssumption DEF Nonces
<1>2. IsFiniteSet(staleNonces)
  BY <1>1, FS_Subset DEF TypeOK
<1> DEFINE S == staleNonces \union {n}
<1>3. /\ IsFiniteSet(S)
      /\ Cardinality(S) \in Nat
      /\ Cardinality(staleNonces) \in Nat
      /\ Cardinality(S) <= Cardinality(staleNonces) + 1
  <2>1. Cardinality(S) = Cardinality(staleNonces)
           \/ Cardinality(S) = Cardinality(staleNonces) + 1
    BY <1>2, FS_AddElement
  <2> QED
    BY <2>1, <1>2, FS_AddElement, FS_CardinalityType
<1>4. CASE ~Overfull(n)
  <2>1. staleNonces' = S
    BY <1>4 DEF MarkStale, SetStale
  <2>2. ~(Cardinality(S) > MaxStale)
    BY <1>4 DEF Overfull
  <2> QED
    BY <2>1, <2>2, <1>3, NonceManagerAssumption DEF StaleBounded
<1>5. CASE Overfull(n)
  <2>1. PICK oldest \in S : staleNonces' = S \ {oldest}
    BY <1>5 DEF MarkStale, SetStale
  <2>2. Cardinality(S \ {oldest}) = Cardinality(S) - 1
    BY <1>3, FS_RemoveElement
  <2> QED
    BY <2>1, <2>2, <1>3, NonceManagerAssumption DEF StaleBounded
<1> QED
  BY <1>4, <1>5

\* markStale keeps the recovery set at its limit, whatever the limit.
THEOREM StaleSetBounded == Spec => []StaleBounded
<1>1. TypeOK /\ StaleBounded /\ [Next]_vars => StaleBounded'
  <2> SUFFICES ASSUME TypeOK, StaleBounded, [Next]_vars PROVE StaleBounded'
    OBVIOUS
  <2>1. CASE Reserve
    BY <2>1, SmallerStale DEF Reserve, ReserveNonce
  <2>2. ASSUME NEW c \in Nonces, Resync(c) PROVE StaleBounded'
    BY <2>2, SmallerStale DEF Resync, ResyncTo
  <2>3. ASSUME NEW n \in everIssued, Confirm(n) PROVE StaleBounded'
    <3>1. staleNonces' \subseteq staleNonces
      BY <2>3 DEF Confirm, ConfirmNonce, SetStale, StaleAfterConfirm
    <3> QED
      BY <3>1, SmallerStale
  <2>4. ASSUME NEW n \in everIssued, Stale(n) PROVE StaleBounded'
    <3>1. n \in Nonces /\ MarkStale(n)
      BY <2>4 DEF Stale, TypeOK
    <3> QED
      BY <3>1, MarkStaleBounded
  <2>5. ASSUME NEW t \in Tasks,
               RecoverStart(t) \/ RecoverDone(t) \/ RecoverFailed(t)
        PROVE  StaleBounded'
    <3>1. staleNonces' \subseteq staleNonces
      BY <2>5 DEF RecoverStart, RecoverDone, RecoverFailed, RecoverStaleStart,
                  RecoverStaleDone, RecoverStaleFailed, SetStale
    <3> QED
      BY <3>1, SmallerStale
  <2>6. CASE UNCHANGED vars
    BY <2>6, SmallerStale DEF vars
  <2> QED
    BY <2>1, <2>2, <2>3, <2>4, <2>5, <2>6 DEF Next
<1> QED
  BY <1>1, InitStaleBounded, TypeCorrect, PTL DEF Spec

-----------------------------------------------------------------------------
(* Refinement. *)

\* The manager is a nonce allocator: each step hands out a fresh number,
\* skips ahead, restarts, or changes nothing a caller sees.
THEOREM ManagerIsAllocator == Spec => AllocatorSpec
<1> USE NonceManagerAssumption
<1>1. Init => Allocator!Init
  BY DEF Init, ManagerInit, Allocator!Init, expectedNextNonce
<1>2. IInv /\ [Next]_vars => [Allocator!Next]_(Allocator!vars)
  <2> SUFFICES ASSUME IInv, [Next]_vars
               PROVE  [Allocator!Next]_(Allocator!vars)
    OBVIOUS
  <2> USE DEF IInv, Allocator!vars
  <2>1. CASE Reserve
    <3>1. /\ localNonce # None
          /\ localNonce \in Nat
          /\ pendingCount \in Nat
          /\ localNonce' = localNonce
          /\ pendingCount' = pendingCount + 1
          /\ issued' = issued \union {expectedNextNonce}
      BY <2>1 DEF Reserve, ReserveNonce, TypeOK, Nonces
    <3>2. expectedNextNonce = localNonce + pendingCount
      BY <3>1 DEF expectedNextNonce
    <3>3. expectedNextNonce # None /\ expectedNextNonce \notin issued
      BY <3>1, <3>2 DEF IssuedBelowNext
    <3>4. expectedNextNonce' = expectedNextNonce + 1
      BY <3>1, <3>2 DEF expectedNextNonce
    <3>5. Allocator!HandOut
      BY <3>1, <3>3, <3>4 DEF Allocator!HandOut
    <3> QED
      BY <3>5 DEF Allocator!Next
  <2>2. ASSUME NEW c \in Nonces, Resync(c)
        PROVE  [Allocator!Next]_(Allocator!vars)
    <3>1. c \in 0..MaxNonce + 1 /\ c \in Nat /\ c # None
      BY DEF Nonces
    <3>2. localNonce' = c /\ pendingCount' = 0 /\ issued' = {}
      BY <2>2 DEF Resync, ResyncTo
    <3>3. expectedNextNonce' = c
      BY <3>1, <3>2 DEF expectedNextNonce
    <3>4. Allocator!Restart(c)
      BY <3>2, <3>3 DEF Allocator!Restart
    <3> QED
      BY <3>1, <3>4 DEF Allocator!Next
  <2>3. ASSUME NEW n \in everIssued, Confirm(n)
        PROVE  [Allocator!Next]_(Allocator!vars)
    <3> DEFINE local == localNonce'
               pending == pendingCount'
    <3>1. /\ n \in Nonces
          /\ ConfirmNonce(n)
          /\ UNCHANGED issued
      BY <2>3 DEF Confirm, TypeOK
    <3>2. local = localNonce' /\ pending = pendingCount'
      OBVIOUS
    <3>3. expectedNextNonce' = IF local = None THEN None ELSE local + pending
      BY DEF expectedNextNonce
    <3> HIDE DEF local, pending
    <3>4. /\ localNonce = None => local = None /\ pending = 0
          /\ localNonce # None =>
                /\ localNonce \in Nat
                /\ pendingCount \in Nat
                /\ local \in 0..MaxNonce + 1
                /\ pending \in Nat
                /\ local + pending <= MaxNonce + 1
                /\ localNonce + pendingCount <= local + pending
      BY <3>1, <3>2, ConfirmCounters
    <3>5. CASE localNonce = None
      BY <3>1, <3>3, <3>4, <3>5 DEF expectedNextNonce
    <3>6. CASE localNonce # None
      <4> DEFINE old == localNonce + pendingCount
                 new == local + pending
      <4>1. /\ old \in Nat
            /\ new \in 0..MaxNonce + 1
            /\ old <= new
            /\ local # None
        BY <3>4, <3>6
      <4>2. expectedNextNonce = old /\ expectedNextNonce' = new
        BY <3>3, <3>6, <4>1 DEF expectedNextNonce
      <4> HIDE DEF old, new
      <4>3. CASE new = old
        BY <3>1, <4>2, <4>3
      <4>4. CASE new # old
        <5>1. old < new /\ old # None
          BY <4>1, <4>4
        <5>2. Allocator!SkipTo(new)
          BY <3>1, <4>2, <5>1 DEF Allocator!SkipTo
        <5> QED
          BY <4>1, <5>2 DEF Allocator!Next
      <4> QED
        BY <4>3, <4>4
    <3> QED
      BY <3>5, <3>6
  <2>4. ASSUME NEW n \in everIssued, Stale(n)
        PROVE  [Allocator!Next]_(Allocator!vars)
    BY <2>4 DEF Stale, MarkStale, expectedNextNonce
  <2>5. ASSUME NEW t \in Tasks,
               RecoverStart(t) \/ RecoverDone(t) \/ RecoverFailed(t)
        PROVE  [Allocator!Next]_(Allocator!vars)
    BY <2>5 DEF RecoverStart, RecoverDone, RecoverFailed, RecoverStaleStart,
                RecoverStaleDone, RecoverStaleFailed, expectedNextNonce
  <2>6. CASE UNCHANGED vars
    BY <2>6 DEF vars, expectedNextNonce
  <2> QED
    BY <2>1, <2>2, <2>3, <2>4, <2>5, <2>6 DEF Next
<1> QED
  BY <1>1, <1>2, InductiveInvariant, PTL DEF Spec, AllocatorSpec, Allocator!Spec

=============================================================================
