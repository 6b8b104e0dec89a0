----------------------- MODULE ExecutionServiceProofs -----------------------
(***************************************************************************)
(* For every set of routes, every number of recovery ticks, every bound    *)
(* and every configuration of the MEV path: the service uses the nonce     *)
(* manager as NonceManager.tla allows, and keeps its marks, its nonces and *)
(* the tracker's records in step with the transactions it has sent. At the *)
(* end, on its own, what the calls of a transaction may spend              *)
(* (RouteCalldata.tla).                                                    *)
(***************************************************************************)
EXTENDS ExecutionService, RouteCalldata, ListProofs

\* What is proved of the manager on its own, for the ticks as its tasks.
NMP == INSTANCE NonceManagerProofs WITH Tasks <- Ticks

-----------------------------------------------------------------------------
(* The inductive invariant, by its parts. *)

\* The account's mined transactions have the nonces below its transaction count.
MinedInOrder ==
    /\ IsFiniteSet(mined)
    /\ chainNonce \in 0..MaxNonce + 1
    /\ \A tx \in mined : tx.nonce < chainNonce

\* The pass holds transactions of routes, under nonces it was given.
HeldIssued ==
    \A tx \in Held : tx.route \in Routes /\ tx.nonce \in everIssued

\* The points where the nonce of the current transaction is not settled yet.
Unsettled == {"submit", "batchSubmit", "bundle", "inclusion", "bundleReceipt"}

\* Of the nonces in flight, only the current transaction's will be settled: a
\* confirmed one waits for its receipt without being in flight.
InFlightUnsettled ==
    \A n \in inFlight :
        n \in leaked \/ (hfPc \in Unsettled /\ n = current.nonce)

\* The marks are those of held transactions; while a bundle waits for its
\* inclusion its route has none, so confirmExecution never finds it marked.
MarksHeld ==
    /\ InFlightRouteHeld
    /\ hfPc \in {"bundle", "inclusion"} => inFlightRoutes = {}

\* A group holds one transaction of each route, and none of those to come.
RoutesApart ==
    /\ \A tx1, tx2 \in Held : tx1.route = tx2.route => tx1 = tx2
    /\ hfPc \in {"batch", "batchSubmit"} => \A tx \in Held : tx.route \notin todo

\* Only mined transactions have a recorded outcome.
RecordedMined == recorded \subseteq mined

\* No transaction is lost sight of while it may be mined, or after it was.
SentTracked ==
    \A tx \in InAir \union mined :
        \/ tx.route = Cancel
        \/ tx \in recorded \union Held
        \/ tx.nonce \in givenUp \union leaked

\* Nothing happens before start() has initialised the manager.
NothingBeforeStart ==
    localNonce = None =>
        /\ hfPc = "idle" /\ staleNonces = {}
        /\ transit = {} /\ pool = {} /\ mined = {}

\* The inductive invariant.
IInv ==
    /\ NMP!IInv
    /\ TypeOK
    /\ NothingBeforeStart
    /\ MinedInOrder
    /\ HeldIssued
    /\ InFlightUnsettled
    /\ MarksHeld
    /\ RoutesApart
    /\ RecordedMined
    /\ SentTracked
    /\ NonceAccounted

-----------------------------------------------------------------------------
(* What steps do, by the state they change. *)

\* The chain grows by one transaction at a time, the account's next.
LEMMA MinedOnlyByMine ==
    ASSUME [Next]_vars
    PROVE  mined' = mined \/ \E tx \in pool : Mine(tx)
<1> USE DEF netVars
<1>1. CASE Execute
  BY <1>1 DEF Execute, ExecuteRefused, ExecuteSubmit, ExecuteSubmitted,
              ExecuteFailed, ExecuteReceipt, ReserveFor, Accepted
<1>2. CASE Batch
  BY <1>2 DEF Batch, BatchSkip, BatchSubmit, BatchSubmitted, BatchSubmitFailed,
              BatchAllSubmitted, BatchReceipt, ReserveFor, Accepted
<1>3. CASE Bundle
  BY <1>3 DEF Bundle, BundleRejected, BundleAccepted, BundleIncluded,
              BundleTimedOut, InclusionFailed, BundleReceipt
<1>4. ASSUME NEW t \in Ticks, TickStart(t) \/ TickStep(t)
      PROVE  mined' = mined
  BY <1>4 DEF TickStart, TickStep, TickRecover, TickRecovered, TickResync,
              TickReads, TickResynced, TickResyncFailed
<1>5. CASE Network
  BY <1>5 DEF Network, Deliver, Lose, Evict
<1>6. CASE Start \/ GasArrives
  BY <1>6 DEF Start, GasArrives
<1>7. ASSUME NEW r \in Routes,
             QuarantineExpires(r) \/ InFlightRouteExpires(r) \/ BundleSubmit(r)
      PROVE  mined' = mined
  BY <1>7 DEF QuarantineExpires, InFlightRouteExpires, BundleSubmit, ReserveFor
<1>8. ASSUME NEW G \in SUBSET Routes \ {{}}, StartGroup(G)
      PROVE  mined' = mined
  BY <1>8 DEF StartGroup
<1>9. CASE UNCHANGED vars
  BY <1>9 DEF vars
<1> QED
  BY <1>1, <1>2, <1>3, <1>4, <1>5, <1>6, <1>7, <1>8, <1>9 DEF Next, GroupStep

\* Every step of the service is a call of one of the manager's methods, with an
\* argument the manager allows, or leaves the manager alone.
LEMMA ManagerStep ==
    ASSUME IInv, [Next]_vars
    PROVE  [NM!Next]_(NM!vars)
<1> USE DEF managerVars, NM!vars, KeepManager
<1>1. \A tx \in Held : tx.nonce \in everIssued
  BY DEF IInv, HeldIssued
<1>2. hfPc \in {"submit", "receipt", "batchSubmit", "bundle", "inclusion", "bundleReceipt"}
        => current.nonce \in everIssued
  BY <1>1 DEF IInv, TypeOK, ControlOK, Held
<1>3. CASE Execute
  BY <1>2, <1>3 DEF Execute, ExecuteRefused, ExecuteSubmit, ExecuteSubmitted,
       ExecuteFailed, ExecuteReceipt, ReserveFor, ConfirmNonce, MarkStale, NM!Next
<1>4. CASE Batch
  <2>1. ASSUME NEW tx \in waiting PROVE tx.nonce \in everIssued
    BY <1>1 DEF Held
  <2> QED
    BY <1>2, <1>4, <2>1 DEF Batch, BatchSkip, BatchSubmit, BatchSubmitted,
       BatchSubmitFailed, BatchAllSubmitted, BatchReceipt, ReserveFor,
       ConfirmNonce, MarkStale, NM!Next
<1>5. CASE Bundle
  BY <1>2, <1>5 DEF Bundle, BundleRejected, BundleAccepted, BundleIncluded,
       BundleTimedOut, InclusionFailed, BundleReceipt, ConfirmNonce, MarkStale, NM!Next
<1>6. ASSUME NEW t \in Ticks, TickStart(t)
      PROVE  [NM!Next]_(NM!vars)
  BY <1>6 DEF TickStart, TickRecover, TickResync, NM!Next
<1>7. ASSUME NEW t \in Ticks, TickStep(t)
      PROVE  [NM!Next]_(NM!vars)
  <2>1. CASE TickResynced(t)
    <3>1. tickRead[t] \in NM!Nonces
      BY <2>1 DEF TickResynced, IInv, TypeOK, NM!Nonces
    <3> QED
      BY <2>1, <3>1 DEF TickResynced, NM!Next
  <2>2. CASE TickRecovered(t)
    BY <2>2 DEF TickRecovered, NM!Next
  <2> QED
    BY <1>7, <2>1, <2>2 DEF TickStep, TickReads, TickResyncFailed
<1>8. CASE Start
  <2>1. chainNonce = 0
    BY <1>8, FS_EmptySet DEF Start, IInv, NothingBeforeStart, chainNonce
  <2>2. chainNonce \in NM!Nonces
    BY <2>1, ExecutionAssumption DEF NM!Nonces
  <2> QED
    BY <1>8, <2>2 DEF Start, NM!Next
<1>9. ASSUME NEW r \in Routes,
             QuarantineExpires(r) \/ InFlightRouteExpires(r) \/ BundleSubmit(r)
      PROVE  [NM!Next]_(NM!vars)
  BY <1>9 DEF QuarantineExpires, InFlightRouteExpires, BundleSubmit, ReserveFor, NM!Next
<1>10. ASSUME NEW G \in SUBSET Routes \ {{}}, StartGroup(G)
       PROVE  [NM!Next]_(NM!vars)
  BY <1>10 DEF StartGroup
<1>11. CASE GasArrives \/ Network \/ UNCHANGED vars
  BY <1>11 DEF GasArrives, Network, Deliver, Lose, Evict, Mine, BotRest, vars
<1> QED
  BY <1>3, <1>4, <1>5, <1>6, <1>7, <1>8, <1>9, <1>10, <1>11 DEF Next, GroupStep

\* The manager's invariant is kept, by the induction of NonceManagerProofs.
LEMMA ManagerInvariantKept ==
    ASSUME IInv, [Next]_vars
    PROVE  NMP!IInv'
<1>1. NMP!NonceManagerAssumption
  BY ExecutionAssumption DEF NMP!NonceManagerAssumption
<1>2. [NM!Next]_(NM!vars)
  BY ManagerStep
<1>3. [NMP!Next]_(NMP!vars)
  <2>1. ASSUME NM!Reserve PROVE NMP!Reserve
    BY <2>1 DEF NM!Reserve, NM!ReserveNonce, NM!expectedNextNonce, NM!Nonces,
       NMP!Reserve, NMP!ReserveNonce, NMP!expectedNextNonce, NMP!Nonces
  <2>2. ASSUME NEW c, NM!Resync(c) PROVE NMP!Resync(c)
    BY <2>2 DEF NM!Resync, NM!ResyncTo, NMP!Resync, NMP!ResyncTo
  <2>3. ASSUME NEW n, NM!Confirm(n) PROVE NMP!Confirm(n)
    BY <2>3 DEF NM!Confirm, NM!ConfirmNonce, NM!SetStale, NM!OrderWithin,
       NM!StaleAfterConfirm, NMP!Confirm, NMP!ConfirmNonce, NMP!SetStale,
       NMP!OrderWithin, NMP!StaleAfterConfirm
  <2>4. ASSUME NEW n, NM!Stale(n) PROVE NMP!Stale(n)
    <3>1. NM!OrderAfterAdd(n) = NMP!OrderAfterAdd(n)
      BY Zenon DEF NM!OrderAfterAdd, NMP!OrderAfterAdd
    <3>2. NM!Overfull(n) <=> NMP!Overfull(n)
      BY DEF NM!Overfull, NMP!Overfull, NM!Cardinality, NMP!Cardinality
    <3>3. \A m, S, order : NM!IsOldest(m, S, order) <=> NMP!IsOldest(m, S, order)
      BY DEF NM!IsOldest, NMP!IsOldest
    <3>4. \A S, order : NM!SetStale(S, order) <=> NMP!SetStale(S, order)
      BY DEF NM!SetStale, NMP!SetStale, NM!OrderWithin, NMP!OrderWithin
    <3>5. NMP!MarkStale(n)
      BY <2>4, <3>1, <3>2, <3>3, <3>4 DEF NM!Stale, NM!MarkStale, NMP!MarkStale
    <3> QED
      BY <2>4, <3>5 DEF NM!Stale, NMP!Stale
  <2>5. ASSUME NEW t, NM!RecoverStart(t) PROVE NMP!RecoverStart(t)
    BY <2>5 DEF NM!RecoverStart, NM!RecoverStaleStart, NM!IsOldest,
       NMP!RecoverStart, NMP!RecoverStaleStart, NMP!IsOldest
  <2>6. ASSUME NEW t, NM!RecoverDone(t) PROVE NMP!RecoverDone(t)
    BY <2>6 DEF NM!RecoverDone, NM!RecoverStaleDone, NM!SetStale, NM!OrderWithin,
       NMP!RecoverDone, NMP!RecoverStaleDone, NMP!SetStale, NMP!OrderWithin
  <2>7. ASSUME NEW t, NM!RecoverFailed(t) PROVE NMP!RecoverFailed(t)
    BY <2>7 DEF NM!RecoverFailed, NM!RecoverStaleFailed,
       NMP!RecoverFailed, NMP!RecoverStaleFailed
  <2> QED
    BY <1>2, <2>1, <2>2, <2>3, <2>4, <2>5, <2>6, <2>7
       DEF NM!Next, NM!vars, NM!Nonces, NMP!Next, NMP!vars, NMP!Nonces
<1> QED
  BY <1>1, <1>3, NMP!NextIInv DEF IInv

-----------------------------------------------------------------------------
(* Types, and the control state. *)

\* The types the manager's invariant gives, under the names of this module.
LEMMA ManagerTypes ==
    ASSUME NMP!IInv
    PROVE  /\ localNonce \in 0..MaxNonce + 1 \union {None}
           /\ staleNonces \in SUBSET NM!Nonces
           /\ everIssued \in SUBSET NM!Nonces
           /\ issued \in SUBSET NM!Nonces
           /\ recovering \in [Ticks -> NM!Nonces \union {None}]
BY DEF NMP!IInv, NMP!TypeOK, NMP!Nonces, NM!Nonces

\* The points the HF pass can be at.
HfStates == {"idle", "execute", "submit", "receipt", "batch", "batchSubmit",
             "batchReceipts", "bundle", "inclusion", "bundleReceipt"}

\* The part of TypeOK about the HF pass.
HfTypeOK ==
    /\ current # None <=> hfPc \in {"submit", "receipt", "batchSubmit", "bundle",
                                   "inclusion", "bundleReceipt"}
    /\ waiting # {} => hfPc \in {"batch", "batchSubmit", "batchReceipts"}
    /\ hfPc \in HfStates
    /\ todo \in SUBSET Routes
    /\ current \in Txs \union {None}
    /\ waiting \in SUBSET Txs

\* About what the bot remembers.
MemoryTypeOK ==
    /\ inFlightRoutes \in SUBSET Routes
    /\ quarantined \in SUBSET Routes
    /\ recorded \in SUBSET Txs
    /\ staleFailures \in 0..MaxFailures
    /\ gasKnown \in BOOLEAN
    /\ forgotten \in SUBSET NM!Nonces
    /\ givenUp \in SUBSET NM!Nonces
    /\ leaked \in SUBSET NM!Nonces

\* About the recovery ticks and the network.
TickTypeOK ==
    /\ \A t \in Ticks : tickPc[t] = "recovering" <=> recovering[t] # None
    /\ tickPc \in [Ticks -> {"idle", "recovering", "resync"}]
    /\ tickRead \in [Ticks -> NM!Nonces \union {None}]

\* About the network.
NetTypeOK ==
    /\ transit \in SUBSET Txs
    /\ pool \in SUBSET Txs
    /\ mined \in SUBSET Txs

\* Together they are TypeOK.
LEMMA TypeParts == TypeOK <=> HfTypeOK /\ MemoryTypeOK /\ TickTypeOK /\ NetTypeOK
BY DEF TypeOK, ControlOK, HfTypeOK, MemoryTypeOK, TickTypeOK, NetTypeOK, HfStates,
   NM!Nonces

\* A reservation makes a transaction of the route current and sends it.
LEMMA ReservedType ==
    ASSUME NEW r \in Routes, ReserveFor(r)
    PROVE  /\ current' \in Txs /\ current' # None
           /\ current'.route = r
           /\ current'.nonce \in NM!Nonces
           /\ transit' = transit \union {current'}
           /\ pool' = pool /\ mined' = mined
           /\ inFlight' = inFlight \union {current'.nonce}
           /\ issued' = issued \union {current'.nonce}
           /\ everIssued' = everIssued \union {current'.nonce}
           /\ localNonce # None /\ localNonce' = localNonce
           /\ UNCHANGED <<staleNonces, recovering, dropped, historyVars>>
<1>1. NM!expectedNextNonce \in NM!Nonces
  BY DEF ReserveFor, NM!Reserve, NM!Nonces
<1>2. Tx(NM!expectedNextNonce, r) \in Txs /\ None \notin Txs
  BY <1>1, ExecutionAssumption DEF Tx, Txs, NM!Nonces
<1> QED
  BY <1>1, <1>2 DEF ReserveFor, NM!Reserve, NM!ReserveNonce, Tx

\* The steps that are not of the HF pass leave it where it is.
LEMMA OutsideHf ==
    ASSUME [Next]_vars
    PROVE  \/ GroupStep
           \/ \E r \in Routes : BundleSubmit(r)
           \/ \E G \in SUBSET Routes \ {{}} : StartGroup(G)
           \/ UNCHANGED hfVars /\ UNCHANGED recorded
<1>1. ASSUME NEW t \in Ticks, TickStart(t) \/ TickStep(t)
      PROVE  UNCHANGED hfVars /\ UNCHANGED recorded
  BY <1>1 DEF TickStart, TickStep, TickRecover, TickRecovered, TickResync,
     TickReads, TickResynced, TickResyncFailed, TickRest, routeVars
<1>2. CASE Start \/ GasArrives \/ Network \/ UNCHANGED vars
  BY <1>2 DEF Start, GasArrives, Network, Deliver, Lose, Evict, Mine, BotRest,
     routeVars, vars
<1>3. ASSUME NEW r \in Routes, QuarantineExpires(r) \/ InFlightRouteExpires(r)
      PROVE  UNCHANGED hfVars /\ UNCHANGED recorded
  BY <1>3 DEF QuarantineExpires, InFlightRouteExpires
<1> QED
  BY <1>1, <1>2, <1>3 DEF Next

\* The HF pass goes from one await point to the next with the transaction it
\* is about.
LEMMA HfTypesKept ==
    ASSUME IInv, [Next]_vars
    PROVE  HfTypeOK'
<1>1. HfTypeOK
  BY TypeParts DEF IInv
<1> USE <1>1 DEF HfTypeOK, HfStates, GroupDone
<1>2. CASE Execute
  <2>1. ASSUME NEW r \in Routes, ExecuteSubmit(r)
        PROVE  HfTypeOK'
    BY <2>1, ReservedType DEF ExecuteSubmit
  <2> QED
    BY <1>2, <2>1 DEF Execute, ExecuteRefused, ExecuteSubmitted, ExecuteFailed,
       ExecuteReceipt
<1>3. CASE Batch
  <2>1. ASSUME NEW r \in Routes, BatchSubmit(r)
        PROVE  HfTypeOK'
    BY <2>1, ReservedType DEF BatchSubmit
  <2> QED
    BY <1>3, <2>1 DEF Batch, BatchSkip, BatchSubmitted, BatchSubmitFailed,
       BatchAllSubmitted, BatchReceipt
<1>4. CASE Bundle
  BY <1>4 DEF Bundle, BundleRejected, BundleAccepted, BundleIncluded,
     BundleTimedOut, InclusionFailed, BundleReceipt
<1>5. ASSUME NEW r \in Routes, BundleSubmit(r)
      PROVE  HfTypeOK'
  BY <1>5, ReservedType DEF BundleSubmit
<1>6. ASSUME NEW G \in SUBSET Routes \ {{}}, StartGroup(G)
      PROVE  HfTypeOK'
  BY <1>6 DEF StartGroup
<1>7. CASE UNCHANGED hfVars
  BY <1>7 DEF hfVars
<1> QED
  BY <1>2, <1>3, <1>4, <1>5, <1>6, <1>7, OutsideHf DEF GroupStep

\* What is sent is a transaction of a route or a cancellation.
LEMMA NetTypesKept ==
    ASSUME IInv, [Next]_vars
    PROVE  NetTypeOK'
<1>1. HfTypeOK /\ NetTypeOK
  BY TypeParts DEF IInv
<1> USE <1>1 DEF NetTypeOK, netVars
<1>2. CASE Execute
  <2>1. ASSUME NEW r \in Routes, ExecuteSubmit(r)
        PROVE  NetTypeOK'
    BY <2>1, ReservedType DEF ExecuteSubmit
  <2> QED
    BY <1>2, <2>1 DEF Execute, ExecuteRefused, ExecuteSubmitted, ExecuteFailed,
       ExecuteReceipt, Accepted
<1>3. CASE Batch
  <2>1. ASSUME NEW r \in Routes, BatchSubmit(r)
        PROVE  NetTypeOK'
    BY <2>1, ReservedType DEF BatchSubmit
  <2> QED
    BY <1>3, <2>1 DEF Batch, BatchSkip, BatchSubmitted, BatchSubmitFailed,
       BatchAllSubmitted, BatchReceipt, Accepted
<1>4. CASE Bundle
  BY <1>4 DEF Bundle, BundleRejected, BundleAccepted, BundleIncluded,
     BundleTimedOut, InclusionFailed, BundleReceipt
<1>5. ASSUME NEW r \in Routes,
             QuarantineExpires(r) \/ InFlightRouteExpires(r) \/ BundleSubmit(r)
      PROVE  NetTypeOK'
  BY <1>5, ReservedType DEF QuarantineExpires, InFlightRouteExpires, BundleSubmit
<1>6. ASSUME NEW G \in SUBSET Routes \ {{}}, StartGroup(G)
      PROVE  NetTypeOK'
  BY <1>6 DEF StartGroup
<1>7. ASSUME NEW t \in Ticks, TickStart(t) \/ TickStep(t)
      PROVE  NetTypeOK'
  <2>1. CASE TickRecover(t)
    <3>1. recovering'[t] \in NM!Nonces
      BY <2>1, ManagerTypes
         DEF TickRecover, NM!RecoverStart, NM!RecoverStaleStart, NM!IsOldest, IInv
    <3>2. Tx(recovering'[t], Cancel) \in Txs
      BY <3>1 DEF Tx, Txs, NM!Nonces
    <3> QED
      BY <2>1, <3>2 DEF TickRecover
  <2> QED
    BY <1>7, <2>1 DEF TickStart, TickStep, TickRecovered, TickResync, TickReads,
       TickResynced, TickResyncFailed
<1>8. CASE Network
  BY <1>8 DEF Network, Deliver, Lose, Evict, Mine
<1>9. CASE Start \/ GasArrives \/ UNCHANGED vars
  BY <1>9 DEF Start, GasArrives, vars
<1> QED
  BY <1>2, <1>3, <1>4, <1>5, <1>6, <1>7, <1>8, <1>9 DEF Next, GroupStep

\* What a transaction that the pass holds is made of.
LEMMA HeldTypes ==
    ASSUME IInv
    PROVE  /\ \A tx \in Held : tx.nonce \in NM!Nonces /\ tx.route \in Routes
           /\ current # None => current \in Held
           /\ waiting \subseteq Held
BY ManagerTypes DEF IInv, HeldIssued, Held

\* The marks, the quarantine, the records and the history keep their types.
LEMMA MemoryTypesKept ==
    ASSUME IInv, [Next]_vars
    PROVE  MemoryTypeOK'
<1>1. MemoryTypeOK /\ HfTypeOK
  BY TypeParts DEF IInv
<1>2. staleNonces \in SUBSET NM!Nonces
  BY ManagerTypes DEF IInv
<1>3. MaxFailures \in Nat \ {0}
  BY ExecutionAssumption
<1>4. current # None => current.nonce \in NM!Nonces /\ current.route \in Routes
  BY HeldTypes
<1>5. \A tx \in waiting : tx.nonce \in NM!Nonces /\ tx.route \in Routes
  BY HeldTypes
<1>6. \A tx, outcome : tx \in Txs /\ tx.route \in Routes /\ Finalize(tx, outcome) =>
        /\ inFlightRoutes' \in SUBSET Routes
        /\ quarantined' \in SUBSET Routes
        /\ recorded' \in SUBSET Txs
  BY <1>1 DEF Finalize, MemoryTypeOK
<1> USE <1>1, <1>2 DEF MemoryTypeOK, historyVars, routeVars, KeepManager, HfRest
<1>7. CASE Execute
  <2>1. ASSUME NEW r \in Routes, ExecuteSubmit(r)
        PROVE  MemoryTypeOK'
    BY <2>1, ReservedType DEF ExecuteSubmit
  <2>2. ASSUME NEW outcome \in Outcomes, ExecuteReceipt(outcome)
        PROVE  MemoryTypeOK'
    <3>1. current \in Txs /\ current # None
      BY <2>2 DEF ExecuteReceipt, HfTypeOK
    <3> QED
      BY <2>2, <3>1, <1>3, <1>4, <1>6 DEF ExecuteReceipt, MarkStale
  <2>3. CASE ExecuteSubmitted
    BY <2>3 DEF ExecuteSubmitted, ConfirmNonce
  <2>4. CASE ExecuteFailed
    BY <2>4, <1>4 DEF ExecuteFailed, MarkStale, HfTypeOK
  <2> QED
    BY <1>7, <2>1, <2>2, <2>3, <2>4 DEF Execute, ExecuteRefused
<1>8. CASE Batch
  <2>1. ASSUME NEW r \in Routes, BatchSubmit(r)
        PROVE  MemoryTypeOK'
    BY <2>1, ReservedType DEF BatchSubmit
  <2>2. ASSUME NEW tx \in waiting, NEW outcome \in Outcomes, BatchReceipt(tx, outcome)
        PROVE  MemoryTypeOK'
    <3>1. /\ inFlightRoutes' \in SUBSET Routes
          /\ quarantined' \in SUBSET Routes
          /\ recorded' \in SUBSET Txs
      BY <2>2, <1>5, <1>6 DEF BatchReceipt, HfTypeOK
    <3>2. UNCHANGED <<staleFailures, gasKnown, forgotten, leaked>>
      BY <2>2 DEF BatchReceipt, MarkStale
    <3>3. givenUp' \in SUBSET NM!Nonces
      BY <2>2, <1>5 DEF BatchReceipt, MarkStale
    <3> QED
      BY <3>1, <3>2, <3>3
  <2>3. CASE BatchSubmitted
    BY <2>3 DEF BatchSubmitted, ConfirmNonce
  <2>4. CASE BatchSubmitFailed
    BY <2>4, <1>4 DEF BatchSubmitFailed, MarkStale, HfTypeOK
  <2> QED
    BY <1>8, <2>1, <2>2, <2>3, <2>4 DEF Batch, BatchSkip, BatchAllSubmitted
<1>9. CASE Bundle
  <2>1. ASSUME NEW outcome \in Outcomes, BundleReceipt(outcome)
        PROVE  MemoryTypeOK'
    <3>1. current \in Txs /\ current # None
      BY <2>1 DEF BundleReceipt, HfTypeOK
    <3> QED
      BY <2>1, <3>1, <1>4, <1>6 DEF BundleReceipt, MarkStale, ConfirmNonce
  <2>2. CASE BundleIncluded
    BY <2>2, <1>4 DEF BundleIncluded, HfTypeOK
  <2> QED
    BY <1>9, <2>1, <2>2, <1>4 DEF Bundle, BundleRejected, BundleAccepted,
       BundleTimedOut, InclusionFailed, MarkStale, HfTypeOK
<1>10. ASSUME NEW r \in Routes,
              QuarantineExpires(r) \/ InFlightRouteExpires(r) \/ BundleSubmit(r)
       PROVE  MemoryTypeOK'
  BY <1>10, ReservedType DEF QuarantineExpires, InFlightRouteExpires, BundleSubmit
<1>11. ASSUME NEW G \in SUBSET Routes \ {{}}, StartGroup(G)
       PROVE  MemoryTypeOK'
  BY <1>11 DEF StartGroup
<1>12. ASSUME NEW t \in Ticks, TickStart(t) \/ TickStep(t)
       PROVE  MemoryTypeOK'
  <2>1. UNCHANGED <<inFlightRoutes, quarantined, recorded, gasKnown, forgotten,
                    givenUp, leaked>>
    BY <1>12 DEF TickStart, TickStep, TickRecover, TickRecovered, TickResync,
       TickReads, TickResynced, TickResyncFailed, TickRest
  <2>2. staleFailures' = staleFailures \/ staleFailures' = 0
    BY <1>12 DEF TickStart, TickStep, TickRecover, TickRecovered, TickResync,
       TickReads, TickResynced, TickResyncFailed
  <2> QED
    BY <2>1, <2>2, <1>3
<1>13. CASE Start \/ GasArrives \/ Network \/ UNCHANGED vars
  BY <1>13 DEF Start, GasArrives, Network, Deliver, Lose, Evict, Mine, BotRest, vars
<1> QED
  BY <1>7, <1>8, <1>9, <1>10, <1>11, <1>12, <1>13 DEF Next, GroupStep

\* The manager's record of recoveries is only written by the ticks.
LEMMA RecoveringKept ==
    ASSUME [Next]_vars
    PROVE  \/ \E t \in Ticks : TickStart(t) \/ TickStep(t)
           \/ UNCHANGED <<recovering, tickPc, tickRead>>
<1> USE DEF tickVars, managerVars, KeepManager, HfRest, ReserveFor, NM!Reserve,
        ConfirmNonce, NM!Confirm, MarkStale, NM!Stale
<1>1. CASE Execute
  BY <1>1 DEF Execute, ExecuteRefused, ExecuteSubmit, ExecuteSubmitted,
     ExecuteFailed, ExecuteReceipt
<1>2. CASE Batch
  BY <1>2 DEF Batch, BatchSkip, BatchSubmit, BatchSubmitted, BatchSubmitFailed,
     BatchAllSubmitted, BatchReceipt
<1>3. CASE Bundle
  BY <1>3 DEF Bundle, BundleRejected, BundleAccepted, BundleIncluded,
     BundleTimedOut, InclusionFailed, BundleReceipt
<1>4. ASSUME NEW r \in Routes,
             QuarantineExpires(r) \/ InFlightRouteExpires(r) \/ BundleSubmit(r)
      PROVE  UNCHANGED <<recovering, tickPc, tickRead>>
  BY <1>4 DEF QuarantineExpires, InFlightRouteExpires, BundleSubmit
<1>5. ASSUME NEW G \in SUBSET Routes \ {{}}, StartGroup(G)
      PROVE  UNCHANGED <<recovering, tickPc, tickRead>>
  BY <1>5 DEF StartGroup
<1>6. CASE Start \/ GasArrives \/ Network \/ UNCHANGED vars
  BY <1>6 DEF Start, NM!Resync, GasArrives, Network, Deliver, Lose, Evict, Mine,
     BotRest, vars
<1> QED
  BY <1>1, <1>2, <1>3, <1>4, <1>5, <1>6 DEF Next, GroupStep

\* A tick recovers or resyncs, and the answer it reads is a nonce.
LEMMA TickTypesKept ==
    ASSUME IInv, [Next]_vars
    PROVE  TickTypeOK'
<1>1. TickTypeOK
  BY TypeParts DEF IInv
<1>2. recovering \in [Ticks -> NM!Nonces \union {None}]
  BY ManagerTypes DEF IInv
<1>3. None \notin NM!Nonces /\ staleNonces \in SUBSET NM!Nonces
  BY ExecutionAssumption, ManagerTypes DEF IInv, NM!Nonces
<1> USE <1>1, <1>2, <1>3 DEF TickTypeOK, managerVars, KeepManager
<1>4. ASSUME NEW t \in Ticks, TickRecover(t)
      PROVE  TickTypeOK'
  BY <1>4 DEF TickRecover, NM!RecoverStart, NM!RecoverStaleStart, NM!IsOldest
<1>5. ASSUME NEW t \in Ticks, TickRecovered(t)
      PROVE  TickTypeOK'
  BY <1>5 DEF TickRecovered, NM!RecoverDone, NM!RecoverStaleDone
<1>6. ASSUME NEW t \in Ticks, TickReads(t)
      PROVE  TickTypeOK'
  <2>1. PICK n \in NM!Nonces : tickRead' = [tickRead EXCEPT ![t] = n]
    <3>1. PICK n \in CountableNonces : tickRead' = [tickRead EXCEPT ![t] = n]
      BY <1>6 DEF TickReads
    <3>2. chainNonce \in Nat
      BY DEF IInv, MinedInOrder
    <3>3. n \in NM!Nonces
      BY <3>1, <3>2, ExecutionAssumption DEF CountableNonces, NM!Nonces
    <3> QED
      BY <3>1, <3>3
  <2> QED
    BY <1>6, <2>1 DEF TickReads
<1>7. ASSUME NEW t \in Ticks, TickResync(t) \/ TickResynced(t) \/ TickResyncFailed(t)
      PROVE  TickTypeOK'
  BY <1>7 DEF TickResync, TickResynced, NM!Resync, TickResyncFailed
<1>8. CASE UNCHANGED <<recovering, tickPc, tickRead>>
  BY <1>8
<1> QED
  BY <1>4, <1>5, <1>6, <1>7, <1>8, RecoveringKept DEF TickStart, TickStep

\* Every step keeps the types.
LEMMA TypesKept ==
    ASSUME IInv, [Next]_vars
    PROVE  TypeOK'
<1>1. HfTypeOK' /\ MemoryTypeOK' /\ TickTypeOK' /\ NetTypeOK'
  BY HfTypesKept, MemoryTypesKept, TickTypesKept, NetTypesKept
<1> QED
  BY <1>1 DEF TypeOK, ControlOK, HfTypeOK, MemoryTypeOK, TickTypeOK, NetTypeOK,
     HfStates, NM!Nonces

-----------------------------------------------------------------------------
(* What steps do to the history, to what was sent and to what is held. *)

\* The outcomes of transactions are recorded once they are mined, and what was
\* recorded, given up or left behind stays so.
LEMMA HistoryGrows ==
    ASSUME IInv, [Next]_vars
    PROVE  /\ recorded \subseteq recorded' /\ recorded' \subseteq recorded \union mined
           /\ givenUp \subseteq givenUp' /\ leaked \subseteq leaked'
<1> USE DEF historyVars, routeVars, KeepManager, ReserveFor, ConfirmNonce, MarkStale
<1>1. \A tx, outcome : ReceiptOutcome(tx, outcome) /\ Finalize(tx, outcome) =>
        recorded \subseteq recorded' /\ recorded' \subseteq recorded \union mined
  BY DEF ReceiptOutcome, Finalize
<1>2. CASE Execute
  BY <1>1, <1>2 DEF Execute, ExecuteRefused, ExecuteSubmit, ExecuteSubmitted,
     ExecuteFailed, ExecuteReceipt
<1>3. CASE Batch
  BY <1>1, <1>3 DEF Batch, BatchSkip, BatchSubmit, BatchSubmitted,
     BatchSubmitFailed, BatchAllSubmitted, BatchReceipt
<1>4. CASE Bundle
  BY <1>1, <1>4 DEF Bundle, BundleRejected, BundleAccepted, BundleIncluded,
     BundleTimedOut, InclusionFailed, BundleReceipt
<1>5. ASSUME NEW t \in Ticks, TickStart(t) \/ TickStep(t)
      PROVE  UNCHANGED <<recorded, givenUp, leaked>>
  BY <1>5 DEF TickStart, TickStep, TickRecover, TickRecovered, TickResync,
     TickReads, TickResynced, TickResyncFailed, TickRest
<1>6. ASSUME NEW r \in Routes,
             QuarantineExpires(r) \/ InFlightRouteExpires(r) \/ BundleSubmit(r)
      PROVE  UNCHANGED <<recorded, givenUp, leaked>>
  BY <1>6 DEF QuarantineExpires, InFlightRouteExpires, BundleSubmit
<1>7. ASSUME NEW G \in SUBSET Routes \ {{}}, StartGroup(G)
      PROVE  UNCHANGED <<recorded, givenUp, leaked>>
  BY <1>7 DEF StartGroup
<1>8. CASE Start \/ GasArrives \/ Network \/ UNCHANGED vars
  BY <1>8 DEF Start, GasArrives, Network, Deliver, Lose, Evict, Mine, BotRest, vars
<1> QED
  BY <1>2, <1>3, <1>4, <1>5, <1>6, <1>7, <1>8 DEF Next, GroupStep

\* What is on its way or mined was so before, is held, or is a cancellation.
LEMMA SentGrows ==
    ASSUME IInv, [Next]_vars, NEW tx \in InAir' \union mined'
    PROVE  tx \in InAir \union mined \/ tx \in Held' \/ tx.route = Cancel
<1> USE DEF InAir, netVars
<1>1. \A r \in Routes : ReserveFor(r) =>
        (tx \in InAir \union mined \/ tx \in Held' \/ tx.route = Cancel)
  BY ReservedType DEF Held
<1>2. CASE Execute
  BY <1>1, <1>2 DEF Execute, ExecuteRefused, ExecuteSubmit, ExecuteSubmitted,
     ExecuteFailed, ExecuteReceipt, Accepted
<1>3. CASE Batch
  BY <1>1, <1>3 DEF Batch, BatchSkip, BatchSubmit, BatchSubmitted,
     BatchSubmitFailed, BatchAllSubmitted, BatchReceipt, Accepted
<1>4. CASE Bundle
  BY <1>4 DEF Bundle, BundleRejected, BundleAccepted, BundleIncluded,
     BundleTimedOut, InclusionFailed, BundleReceipt
<1>5. ASSUME NEW t \in Ticks, TickStart(t) \/ TickStep(t)
      PROVE  tx \in InAir \union mined \/ tx.route = Cancel
  BY <1>5 DEF TickStart, TickStep, TickRecover, TickRecovered, TickResync,
     TickReads, TickResynced, TickResyncFailed, Tx
<1>6. ASSUME NEW r \in Routes,
             QuarantineExpires(r) \/ InFlightRouteExpires(r) \/ BundleSubmit(r)
      PROVE  tx \in InAir \union mined \/ tx \in Held' \/ tx.route = Cancel
  BY <1>1, <1>6 DEF QuarantineExpires, InFlightRouteExpires, BundleSubmit
<1>7. ASSUME NEW G \in SUBSET Routes \ {{}}, StartGroup(G)
      PROVE  tx \in InAir \union mined
  BY <1>7 DEF StartGroup
<1>8. CASE Start \/ GasArrives \/ Network \/ UNCHANGED vars
  BY <1>8 DEF Start, GasArrives, Network, Deliver, Lose, Evict, Mine, vars
<1> QED
  BY <1>2, <1>3, <1>4, <1>5, <1>6, <1>7, <1>8 DEF Next, GroupStep

\* The pass comes to hold a transaction by reserving a nonce for its route.
LEMMA HeldGrows ==
    ASSUME IInv, [Next]_vars
    PROVE  \/ Held' \subseteq Held
           \/ \E r \in Routes : ReserveFor(r) /\ Held' \subseteq Held \union {current'}
<1>1. HfTypeOK
  BY TypeParts DEF IInv
<1> USE <1>1 DEF Held, GroupDone, HfTypeOK
<1>2. CASE Execute
  BY <1>2 DEF Execute, ExecuteRefused, ExecuteSubmit, ExecuteSubmitted,
     ExecuteFailed, ExecuteReceipt
<1>3. CASE Batch
  BY <1>3 DEF Batch, BatchSkip, BatchSubmit, BatchSubmitted, BatchSubmitFailed,
     BatchAllSubmitted, BatchReceipt
<1>4. CASE Bundle
  BY <1>4 DEF Bundle, BundleRejected, BundleAccepted, BundleIncluded,
     BundleTimedOut, InclusionFailed, BundleReceipt
<1>5. ASSUME NEW r \in Routes, BundleSubmit(r)
      PROVE  ReserveFor(r) /\ Held' \subseteq Held \union {current'}
  BY <1>5 DEF BundleSubmit
<1>6. ASSUME NEW G \in SUBSET Routes \ {{}}, StartGroup(G)
      PROVE  Held' = Held
  BY <1>6 DEF StartGroup
<1>7. CASE UNCHANGED hfVars
  BY <1>7 DEF hfVars
<1> QED
  BY <1>2, <1>3, <1>4, <1>5, <1>6, <1>7, OutsideHf DEF GroupStep

\* It lets go of a transaction once it is mined and recorded, once its nonce is
\* given up and left to recovery, or when a failed inclusion wait leaks it.
LEMMA HeldFate ==
    ASSUME IInv, [Next]_vars, NEW tx \in Held
    PROVE  \/ tx \in Held'
           \/ tx \in recorded' /\ tx \in mined
           \/ tx.nonce \in givenUp' /\ tx.nonce \in staleNonces' \union dropped'
           \/ tx.nonce \in leaked'
<1> DEFINE Fate == \/ tx \in Held'
                   \/ tx \in recorded' /\ tx \in mined
                   \/ tx.nonce \in givenUp' /\ tx.nonce \in staleNonces' \union dropped'
                   \/ tx.nonce \in leaked'
<1>1. HfTypeOK
  BY TypeParts DEF IInv
<1>2. \A n : MarkStale(n) => n \in givenUp' /\ n \in staleNonces' \union dropped'
  BY DEF MarkStale, NM!Stale
<1>3. \A m, outcome : ReceiptOutcome(m, outcome) /\ Finalize(m, outcome) =>
        outcome = "timeout" \/ (m \in recorded' /\ m \in mined)
  BY DEF ReceiptOutcome, Finalize
<1> USE <1>1 DEF Held, GroupDone, HfTypeOK
<1>4. CASE Execute
  BY <1>2, <1>3, <1>4 DEF Execute, ExecuteRefused, ExecuteSubmit, ExecuteSubmitted,
     ExecuteFailed, ExecuteReceipt
<1>5. CASE Batch
  <2>1. ASSUME NEW m \in waiting, NEW outcome \in Outcomes, BatchReceipt(m, outcome)
        PROVE  Fate
    <3>1. waiting' = waiting \ {m} /\ current = None
      BY <2>1 DEF BatchReceipt
    <3>2. CASE tx = m
      BY <2>1, <3>2, <1>2, <1>3 DEF BatchReceipt
    <3>3. CASE tx # m
      BY <3>1, <3>3
    <3> QED
      BY <3>2, <3>3
  <2> QED
    BY <1>2, <1>5, <2>1 DEF Batch, BatchSkip, BatchSubmit, BatchSubmitted,
       BatchSubmitFailed, BatchAllSubmitted
<1>6. CASE Bundle
  <2>1. CASE BundleIncluded
    <3>1. current.route \notin inFlightRoutes
      BY <2>1 DEF BundleIncluded, IInv, MarksHeld
    <3> QED
      BY <2>1, <3>1 DEF BundleIncluded
  <2>2. ASSUME NEW outcome \in Outcomes, BundleReceipt(outcome)
        PROVE  Fate
    BY <1>2, <1>3, <2>2 DEF BundleReceipt
  <2> QED
    BY <1>2, <1>6, <2>1, <2>2 DEF Bundle, BundleRejected, BundleAccepted,
       BundleTimedOut, InclusionFailed
<1>7. ASSUME NEW r \in Routes, BundleSubmit(r)
      PROVE  tx \in Held'
  BY <1>7 DEF BundleSubmit
<1>8. ASSUME NEW G \in SUBSET Routes \ {{}}, StartGroup(G)
      PROVE  tx \in Held'
  BY <1>8 DEF StartGroup
<1>9. CASE UNCHANGED hfVars
  BY <1>9 DEF hfVars
<1> QED
  BY <1>4, <1>5, <1>6, <1>7, <1>8, <1>9, OutsideHf DEF GroupStep

\* A nonce is handed out with a transaction that is then held; and until the
\* next resync what the recovery set loses is dropped or forgotten.
LEMMA IssuedAndStale ==
    ASSUME IInv, [Next]_vars
    PROVE  /\ issued' \subseteq issued \union HeldNonces'
           /\ \/ issued' = {}
              \/ staleNonces \union dropped \union forgotten
                   \subseteq staleNonces' \union dropped' \union forgotten'
<1> DEFINE Accounted == staleNonces \union dropped \union forgotten
                          \subseteq staleNonces' \union dropped' \union forgotten'
<1>1. \A r \in Routes : ReserveFor(r) => issued' \subseteq issued \union HeldNonces' /\ Accounted
  BY ReservedType DEF HeldNonces, Held, historyVars
<1>2. \A n : ConfirmNonce(n) => issued' = issued /\ Accounted
  BY DEF ConfirmNonce, NM!Confirm
<1>3. \A n : MarkStale(n) => issued' = issued /\ Accounted
  BY DEF MarkStale, NM!Stale
<1>4. \A c : NM!Resync(c) => issued' = {}
  BY DEF NM!Resync
<1>5. KeepManager => issued' = issued /\ Accounted
  BY DEF KeepManager, managerVars, historyVars
<1>6. CASE Execute
  BY <1>1, <1>2, <1>3, <1>5, <1>6 DEF Execute, ExecuteRefused, ExecuteSubmit,
     ExecuteSubmitted, ExecuteFailed, ExecuteReceipt
<1>7. CASE Batch
  BY <1>1, <1>2, <1>3, <1>5, <1>7 DEF Batch, BatchSkip, BatchSubmit,
     BatchSubmitted, BatchSubmitFailed, BatchAllSubmitted, BatchReceipt
<1>8. CASE Bundle
  BY <1>2, <1>3, <1>5, <1>8 DEF Bundle, BundleRejected, BundleAccepted,
     BundleIncluded, BundleTimedOut, InclusionFailed, BundleReceipt, managerVars
<1>9. ASSUME NEW t \in Ticks, TickStart(t) \/ TickStep(t)
      PROVE  issued' = {} \/ (issued' = issued /\ Accounted)
  <2>1. NM!RecoverStart(t) /\ UNCHANGED historyVars => issued' = issued /\ Accounted
    BY DEF NM!RecoverStart, NM!RecoverStaleStart, historyVars
  <2>2. NM!RecoverDone(t) /\ UNCHANGED historyVars => issued' = issued /\ Accounted
    BY DEF NM!RecoverDone, NM!RecoverStaleDone, NM!SetStale, historyVars
  <2> QED
    BY <1>4, <1>5, <1>9, <2>1, <2>2 DEF TickStart, TickStep, TickRecover,
       TickRecovered, TickResync, TickReads, TickResynced, TickResyncFailed
<1>10. ASSUME NEW r \in Routes,
              QuarantineExpires(r) \/ InFlightRouteExpires(r) \/ BundleSubmit(r)
       PROVE  issued' \subseteq issued \union HeldNonces' /\ Accounted
  BY <1>1, <1>10 DEF QuarantineExpires, InFlightRouteExpires, BundleSubmit,
     managerVars, historyVars
<1>11. ASSUME NEW G \in SUBSET Routes \ {{}}, StartGroup(G)
       PROVE  issued' = issued /\ Accounted
  BY <1>5, <1>11 DEF StartGroup
<1>12. CASE Start \/ GasArrives \/ Network \/ UNCHANGED vars
  BY <1>4, <1>12 DEF Start, GasArrives, Network, Deliver, Lose, Evict, Mine,
     BotRest, vars, managerVars, historyVars
<1> QED
  BY <1>6, <1>7, <1>8, <1>9, <1>10, <1>11, <1>12 DEF Next, GroupStep

-----------------------------------------------------------------------------
(* The parts of the invariant, one by one. *)

\* Once the manager has a nonce it keeps one.
LEMMA StartedForGood ==
    ASSUME IInv, [Next]_vars, localNonce # None
    PROVE  localNonce' # None
<1>1. None \notin NM!Nonces /\ None \notin Nat
  BY ExecutionAssumption DEF NM!Nonces
<1>2. NM!Nonces \subseteq Nat /\ \A n \in NM!Nonces : n + 1 \in Nat
  BY ExecutionAssumption DEF NM!Nonces
<1>3. [NM!Next]_(NM!vars)
  BY ManagerStep
<1>4. everIssued \subseteq NM!Nonces
  BY ManagerTypes DEF IInv
<1> QED
  BY <1>1, <1>2, <1>3, <1>4 DEF NM!Next, NM!vars, NM!Resync, NM!ResyncTo, NM!Reserve,
     NM!ReserveNonce, NM!Confirm, NM!ConfirmNonce, NM!Stale, NM!MarkStale,
     NM!RecoverStart, NM!RecoverStaleStart, NM!RecoverDone, NM!RecoverStaleDone,
     NM!RecoverFailed, NM!RecoverStaleFailed

\* Until then no group starts, no nonce is recovered and nothing is sent.
LEMMA NothingBeforeStartKept ==
    ASSUME IInv, [Next]_vars
    PROVE  NothingBeforeStart'
<1> SUFFICES ASSUME localNonce' = None
             PROVE  /\ hfPc' = "idle" /\ staleNonces' = {}
                    /\ transit' = {} /\ pool' = {} /\ mined' = {}
  BY DEF NothingBeforeStart
<1>1. localNonce = None
  BY StartedForGood
<1>2. /\ hfPc = "idle" /\ staleNonces = {}
      /\ transit = {} /\ pool = {} /\ mined = {}
  BY <1>1 DEF IInv, NothingBeforeStart
<1>3. current = None /\ waiting = {}
  BY <1>2 DEF IInv, TypeOK, ControlOK
<1>4. ~GroupStep
  BY <1>2 DEF GroupStep, Execute, Batch, Bundle, ExecuteRefused, ExecuteSubmit,
     ExecuteSubmitted, ExecuteFailed, ExecuteReceipt, BatchSkip, BatchSubmit,
     BatchSubmitted, BatchSubmitFailed, BatchAllSubmitted, BatchReceipt,
     BundleRejected, BundleAccepted, BundleIncluded, BundleTimedOut,
     InclusionFailed, BundleReceipt
<1>5. ~(\E r \in Routes : BundleSubmit(r)) /\ ~(\E G \in SUBSET Routes \ {{}} : StartGroup(G))
  BY <1>1 DEF BundleSubmit, StartGroup, NoncesLeft
<1>6. ASSUME NEW t \in Ticks, TickStart(t) \/ TickStep(t)
      PROVE  UNCHANGED <<transit, pool, mined>> /\ staleNonces' = {}
  <2>1. ~TickRecover(t)
    BY <1>2 DEF TickRecover, NM!RecoverStart, NM!RecoverStaleStart
  <2>2. TickRecovered(t) => UNCHANGED <<transit, pool, mined>> /\ staleNonces' = {}
    BY <1>2 DEF TickRecovered, NM!RecoverDone, NM!RecoverStaleDone, NM!SetStale, netVars
  <2> QED
    BY <1>2, <1>6, <2>1, <2>2 DEF TickStart, TickStep, TickResync, TickReads,
       TickResynced, TickResyncFailed, NM!Resync, NM!ResyncTo, KeepManager,
       managerVars, netVars
<1>7. CASE Start \/ GasArrives \/ UNCHANGED vars
  BY <1>2, <1>7 DEF Start, NM!Resync, NM!ResyncTo, GasArrives, vars, managerVars,
     hfVars, netVars
<1>8. ~Network
  BY <1>2 DEF Network
<1>9. ASSUME NEW r \in Routes, QuarantineExpires(r) \/ InFlightRouteExpires(r)
      PROVE  UNCHANGED <<hfPc, staleNonces, transit, pool, mined>>
  BY <1>9 DEF QuarantineExpires, InFlightRouteExpires, managerVars, hfVars, netVars
<1>10. ASSUME NEW t \in Ticks, TickStart(t) \/ TickStep(t)
       PROVE  hfPc' = hfPc
  BY <1>10 DEF TickStart, TickStep, TickRecover, TickRecovered, TickResync,
     TickReads, TickResynced, TickResyncFailed, TickRest, hfVars
<1> QED
  BY <1>2, <1>4, <1>5, <1>6, <1>7, <1>8, <1>9, <1>10 DEF Next

\* The chain's transactions keep their nonces below its count.
LEMMA MinedInOrderKept ==
    ASSUME IInv, [Next]_vars
    PROVE  MinedInOrder' /\ chainNonce' >= chainNonce /\ mined \subseteq mined'
<1>1. MinedInOrder
  BY DEF IInv
<1>2. CASE mined' = mined
  <2>1. chainNonce' = chainNonce
    BY <1>2 DEF chainNonce
  <2>2. chainNonce \in Int
    BY <1>1, ExecutionAssumption DEF MinedInOrder
  <2> QED
    BY <1>1, <1>2, <2>1, <2>2 DEF MinedInOrder
<1>3. ASSUME NEW tx \in pool, Mine(tx)
      PROVE  MinedInOrder' /\ chainNonce' >= chainNonce /\ mined \subseteq mined'
  <2>1. tx.nonce = chainNonce /\ mined' = mined \union {tx}
    BY <1>3 DEF Mine
  <2>2. tx \notin mined
    BY <1>1, <2>1 DEF MinedInOrder
  <2>3. IsFiniteSet(mined') /\ Cardinality(mined') = Cardinality(mined) + 1
    BY <1>1, <2>1, <2>2, FS_AddElement DEF MinedInOrder
  <2>4. tx.nonce \in 0..MaxNonce
    BY DEF IInv, TypeOK, Txs
  <2>5. chainNonce' = chainNonce + 1
    BY <2>3 DEF chainNonce
  <2>6. chainNonce \in 0..MaxNonce
    BY <2>1, <2>4
  <2>7. \A m \in mined' : m.nonce < chainNonce'
    <3> TAKE m \in mined'
    <3>1. CASE m = tx
      BY <2>1, <2>5, <2>6, <3>1
    <3>2. CASE m \in mined
      <4>1. m.nonce \in Int /\ m.nonce < chainNonce
        BY <1>1, <3>2, ExecutionAssumption DEF MinedInOrder, IInv, TypeOK, Txs
      <4> QED
        BY <2>5, <2>6, <4>1
    <3> QED
      BY <2>1, <3>1, <3>2
  <2> QED
    BY <2>1, <2>3, <2>5, <2>6, <2>7, ExecutionAssumption DEF MinedInOrder
<1> QED
  BY <1>2, <1>3, MinedOnlyByMine

\* The manager forgets no nonce it ever handed out.
LEMMA EverIssuedGrows ==
    ASSUME IInv, [Next]_vars
    PROVE  everIssued \subseteq everIssued'
<1>1. [NM!Next]_(NM!vars)
  BY ManagerStep
<1> QED
  BY <1>1 DEF NM!Next, NM!vars, NM!Resync, NM!Reserve, NM!Confirm, NM!Stale,
     NM!RecoverStart, NM!RecoverDone, NM!RecoverFailed

\* What the pass holds was handed out.
LEMMA HeldIssuedKept ==
    ASSUME IInv, [Next]_vars
    PROVE  HeldIssued'
<1>1. \A tx \in Held : tx.route \in Routes /\ tx.nonce \in everIssued'
  BY EverIssuedGrows DEF IInv, HeldIssued
<1>2. CASE Held' \subseteq Held
  BY <1>1, <1>2 DEF HeldIssued
<1>3. ASSUME NEW r \in Routes, ReserveFor(r), Held' \subseteq Held \union {current'}
      PROVE  HeldIssued'
  BY <1>1, <1>3, ReservedType DEF HeldIssued
<1> QED
  BY <1>2, <1>3, HeldGrows

\* A receipt is the record of a mined transaction, and the chain keeps those.
LEMMA RecordedMinedKept ==
    ASSUME IInv, [Next]_vars
    PROVE  RecordedMined'
BY HistoryGrows, MinedInOrderKept DEF IInv, RecordedMined

\* What was sent is accounted for.
LEMMA SentTrackedKept ==
    ASSUME IInv, [Next]_vars
    PROVE  SentTracked'
<1> SUFFICES ASSUME NEW tx \in InAir' \union mined', tx.route # Cancel,
                    tx \notin Held'
             PROVE  tx \in recorded' \/ tx.nonce \in givenUp' \union leaked'
  BY DEF SentTracked
<1>1. tx \in InAir \union mined
  BY SentGrows
<1>2. tx \in recorded \union Held \/ tx.nonce \in givenUp \union leaked
  BY <1>1 DEF IInv, SentTracked
<1>3. CASE tx \in Held
  BY <1>3, HeldFate
<1> QED
  BY <1>2, <1>3, HistoryGrows

\* What was handed out is accounted for.
LEMMA NonceAccountedKept ==
    ASSUME IInv, [Next]_vars
    PROVE  NonceAccounted'
<1> SUFFICES ASSUME NEW n \in issued', n \notin HeldNonces', ~(n < chainNonce')
             PROVE  n \in staleNonces' \union dropped' \union forgotten' \union leaked'
  BY DEF NonceAccounted
<1>1. n \in issued
  BY IssuedAndStale
<1>2. staleNonces \union dropped \union forgotten
        \subseteq staleNonces' \union dropped' \union forgotten'
  BY IssuedAndStale
<1>3. n \in NM!Nonces /\ n \in Nat
  BY <1>1, ManagerTypes, ExecutionAssumption DEF IInv, NM!Nonces
<1>4. chainNonce \in Nat /\ chainNonce' \in Nat /\ chainNonce' >= chainNonce
  BY MinedInOrderKept, ExecutionAssumption DEF IInv, MinedInOrder
<1>5. ~(n < chainNonce)
  BY <1>3, <1>4
<1>6. CASE n \in HeldNonces
  <2>1. PICK tx \in Held : tx.nonce = n
    BY <1>6 DEF HeldNonces
  <2>2. tx \notin Held'
    BY <2>1 DEF HeldNonces
  <2>3. tx \notin mined
    BY <1>5, <2>1 DEF IInv, MinedInOrder
  <2> QED
    BY <2>1, <2>2, <2>3, HeldFate
<1>7. CASE n \in staleNonces \union dropped \union forgotten
  BY <1>2, <1>7
<1>8. CASE n \in leaked
  BY <1>8, HistoryGrows
<1> QED
  BY <1>1, <1>5, <1>6, <1>7, <1>8 DEF IInv, NonceAccounted

\* A nonce that is reserved is settled on every path out of the pass but one.
LEMMA InFlightUnsettledKept ==
    ASSUME IInv, [Next]_vars
    PROVE  InFlightUnsettled'
<1>1. InFlightUnsettled /\ HfTypeOK
  BY TypeParts DEF IInv
<1>2. ASSUME NEW r \in Routes, ReserveFor(r), hfPc \notin Unsettled, hfPc' \in Unsettled
      PROVE  InFlightUnsettled'
  BY <1>1, <1>2, ReservedType DEF InFlightUnsettled, historyVars
<1>3. \A n : ConfirmNonce(n) \/ MarkStale(n) => inFlight' = inFlight \ {n} /\ leaked' = leaked
  BY DEF ConfirmNonce, MarkStale, NM!Confirm, NM!ConfirmNonce, NM!Stale, NM!MarkStale
<1>4. KeepManager => inFlight' = inFlight /\ leaked' = leaked
  BY DEF KeepManager, managerVars, historyVars
<1> USE DEF Unsettled, GroupDone
<1>5. CASE Execute
  BY <1>1, <1>2, <1>3, <1>4, <1>5 DEF Execute, ExecuteRefused, ExecuteSubmit,
     ExecuteSubmitted, ExecuteFailed, ExecuteReceipt, InFlightUnsettled
<1>6. CASE Batch
  BY <1>1, <1>2, <1>3, <1>4, <1>6 DEF Batch, BatchSkip, BatchSubmit, BatchSubmitted,
     BatchSubmitFailed, BatchAllSubmitted, BatchReceipt, InFlightUnsettled
<1>7. CASE Bundle
  <2>1. hfPc = "inclusion" => current.route \notin inFlightRoutes
    BY DEF IInv, MarksHeld
  <2> QED
    BY <1>1, <1>3, <1>4, <1>7, <2>1 DEF Bundle, BundleRejected, BundleAccepted,
       BundleIncluded, BundleTimedOut, InclusionFailed, BundleReceipt,
       InFlightUnsettled, managerVars
<1>8. ASSUME NEW r \in Routes,
             QuarantineExpires(r) \/ InFlightRouteExpires(r) \/ BundleSubmit(r)
      PROVE  InFlightUnsettled'
  BY <1>1, <1>2, <1>8 DEF QuarantineExpires, InFlightRouteExpires, BundleSubmit,
     InFlightUnsettled, managerVars, historyVars, hfVars
<1>9. ASSUME NEW G \in SUBSET Routes \ {{}}, StartGroup(G)
      PROVE  InFlightUnsettled'
  BY <1>1, <1>4, <1>9 DEF StartGroup, InFlightUnsettled
<1>10. ASSUME NEW t \in Ticks, TickStart(t) \/ TickStep(t)
       PROVE  InFlightUnsettled'
  <2>1. inFlight' \subseteq inFlight
    BY <1>4, <1>10 DEF TickStart, TickStep, TickRecover, NM!RecoverStart,
       NM!RecoverStaleStart, TickRecovered, NM!RecoverDone, NM!RecoverStaleDone,
       TickResync, TickReads, TickResynced, NM!Resync, NM!ResyncTo, TickResyncFailed
  <2>2. UNCHANGED <<hfPc, current, leaked>>
    BY <1>4, <1>10 DEF TickStart, TickStep, TickRecover, TickRecovered, TickResync,
       TickReads, TickResynced, TickResyncFailed, TickRest, hfVars, historyVars
  <2> QED
    BY <1>1, <2>1, <2>2 DEF InFlightUnsettled
<1>11. CASE Start \/ GasArrives \/ Network \/ UNCHANGED vars
  BY <1>1, <1>11 DEF Start, NM!Resync, NM!ResyncTo, GasArrives, Network, Deliver,
     Lose, Evict, Mine, BotRest, vars, managerVars, historyVars, hfVars,
     InFlightUnsettled
<1> QED
  BY <1>5, <1>6, <1>7, <1>8, <1>9, <1>10, <1>11 DEF Next, GroupStep

\* Outside a group, and on entering execute(), the pass holds nothing.
LEMMA NothingHeld ==
    ASSUME IInv, hfPc \in {"idle", "execute"}
    PROVE  Held = {} /\ inFlightRoutes = {}
<1>1. Held = {}
  BY TypeParts DEF IInv, HfTypeOK, Held
<1> QED
  BY <1>1 DEF IInv, MarksHeld, InFlightRouteHeld

\* A mark is set with the transaction it is for, and cleared before the pass
\* lets go of it.
LEMMA MarksHeldKept ==
    ASSUME IInv, [Next]_vars
    PROVE  MarksHeld'
<1>1. InFlightRouteHeld /\ HfTypeOK
  BY TypeParts DEF IInv, MarksHeld
<1>2. hfPc \in {"bundle", "inclusion"} => inFlightRoutes = {}
  BY DEF IInv, MarksHeld
<1>3. hfPc \in {"idle", "execute"} => Held = {} /\ inFlightRoutes = {}
  BY NothingHeld
<1>4. \A tx, outcome : Finalize(tx, outcome) => inFlightRoutes' = inFlightRoutes \ {tx.route}
  BY DEF Finalize
<1> USE DEF MarksHeld, InFlightRouteHeld, Held, GroupDone, HfTypeOK
<1>5. CASE Execute
  <2>1. ASSUME NEW r \in Routes, ExecuteSubmit(r)
        PROVE  MarksHeld'
    BY <1>1, <1>3, <2>1, ReservedType DEF ExecuteSubmit
  <2>2. ASSUME NEW outcome \in Outcomes, ExecuteReceipt(outcome)
        PROVE  MarksHeld'
    BY <1>1, <1>4, <2>2 DEF ExecuteReceipt
  <2> QED
    BY <1>1, <1>3, <1>5, <2>1, <2>2 DEF Execute, ExecuteRefused, ExecuteSubmitted,
       ExecuteFailed, routeVars
<1>6. CASE Batch
  <2>1. ASSUME NEW r \in Routes, BatchSubmit(r)
        PROVE  MarksHeld'
    BY <1>1, <2>1, ReservedType DEF BatchSubmit
  <2>2. ASSUME NEW tx \in waiting, NEW outcome \in Outcomes, BatchReceipt(tx, outcome)
        PROVE  MarksHeld'
    BY <1>1, <1>4, <2>2 DEF BatchReceipt
  <2> QED
    BY <1>1, <1>6, <2>1, <2>2 DEF Batch, BatchSkip, BatchSubmitted,
       BatchSubmitFailed, BatchAllSubmitted, routeVars
<1>7. CASE Bundle
  <2>1. ASSUME NEW outcome \in Outcomes, BundleReceipt(outcome)
        PROVE  MarksHeld'
    BY <1>1, <1>4, <2>1 DEF BundleReceipt
  <2> QED
    BY <1>1, <1>2, <1>7, <2>1 DEF Bundle, BundleRejected, BundleAccepted,
       BundleIncluded, BundleTimedOut, InclusionFailed, routeVars
<1>8. ASSUME NEW r \in Routes,
             QuarantineExpires(r) \/ InFlightRouteExpires(r) \/ BundleSubmit(r)
      PROVE  MarksHeld'
  BY <1>1, <1>2, <1>3, <1>8 DEF QuarantineExpires, InFlightRouteExpires,
     BundleSubmit, hfVars, routeVars
<1>9. ASSUME NEW G \in SUBSET Routes \ {{}}, StartGroup(G)
      PROVE  MarksHeld'
  BY <1>1, <1>3, <1>9 DEF StartGroup, routeVars
<1>10. CASE UNCHANGED <<hfVars, inFlightRoutes>>
  BY <1>1, <1>2, <1>10 DEF hfVars
<1>11. ASSUME NEW t \in Ticks, TickStart(t) \/ TickStep(t)
       PROVE  MarksHeld'
  BY <1>10, <1>11 DEF TickStart, TickStep, TickRecover, TickRecovered, TickResync,
     TickReads, TickResynced, TickResyncFailed, TickRest, routeVars
<1>12. CASE Start \/ GasArrives \/ Network \/ UNCHANGED vars
  BY <1>10, <1>12 DEF Start, GasArrives, Network, Deliver, Lose, Evict, Mine, BotRest,
     routeVars, vars
<1> QED
  BY ONLY <1>5, <1>6, <1>7, <1>8, <1>9, <1>11, <1>12, [Next]_vars DEF Next, GroupStep

\* A group submits each of its routes once.
LEMMA RoutesApartKept ==
    ASSUME IInv, [Next]_vars
    PROVE  RoutesApart'
<1>1. RoutesApart /\ HfTypeOK
  BY TypeParts DEF IInv
<1>2. hfPc \in {"idle", "execute"} => Held = {}
  BY NothingHeld
<1> USE DEF RoutesApart, Held, GroupDone, HfTypeOK
<1>3. CASE Execute
  <2>1. ASSUME NEW r \in Routes, ExecuteSubmit(r)
        PROVE  RoutesApart'
    BY <1>1, <1>2, <2>1 DEF ExecuteSubmit
  <2> QED
    BY <1>1, <1>3, <2>1 DEF Execute, ExecuteRefused, ExecuteSubmitted,
       ExecuteFailed, ExecuteReceipt
<1>4. CASE Batch
  <2>1. ASSUME NEW r \in Routes, BatchSubmit(r)
        PROVE  RoutesApart'
    BY <1>1, <2>1, ReservedType DEF BatchSubmit
  <2> QED
    BY <1>1, <1>4, <2>1 DEF Batch, BatchSkip, BatchSubmitted, BatchSubmitFailed,
       BatchAllSubmitted, BatchReceipt
<1>5. CASE Bundle
  BY <1>1, <1>5 DEF Bundle, BundleRejected, BundleAccepted, BundleIncluded,
     BundleTimedOut, InclusionFailed, BundleReceipt
<1>6. ASSUME NEW r \in Routes, BundleSubmit(r)
      PROVE  RoutesApart'
  BY <1>1, <1>2, <1>6 DEF BundleSubmit
<1>7. ASSUME NEW G \in SUBSET Routes \ {{}}, StartGroup(G)
      PROVE  RoutesApart'
  BY <1>2, <1>7 DEF StartGroup
<1>8. CASE UNCHANGED hfVars
  BY <1>1, <1>8 DEF hfVars
<1> QED
  BY <1>3, <1>4, <1>5, <1>6, <1>7, <1>8, OutsideHf DEF GroupStep

-----------------------------------------------------------------------------
(* The theorems. *)

\* The bot starts with nothing sent, held or marked.
LEMMA InitIInv == Init => IInv
<1> SUFFICES ASSUME Init PROVE IInv
  OBVIOUS
<1> USE ExecutionAssumption DEF Init
<1>1. NMP!IInv
  <2>1. NMP!NonceManagerAssumption
    BY DEF NMP!NonceManagerAssumption
  <2>2. NMP!Init
    BY DEF NM!Init, NM!ManagerInit, NMP!Init, NMP!ManagerInit
  <2> QED
    BY <2>1, <2>2, NMP!InitIInv
<1>2. TypeOK
  <2>1. HfTypeOK /\ NetTypeOK
    BY DEF HfTypeOK, HfStates, NetTypeOK
  <2>2. MemoryTypeOK
    <3>1. staleFailures \in 0..MaxFailures
      OBVIOUS
    <3>2. gasKnown \in BOOLEAN
      BY Zenon
    <3> QED
      BY <3>1, <3>2 DEF MemoryTypeOK
  <2>3. TickTypeOK
    BY DEF TickTypeOK, NM!Init, NM!ManagerInit
  <2> QED
    BY <2>1, <2>2, <2>3, TypeParts
<1>3. MinedInOrder /\ chainNonce = 0
  BY FS_EmptySet DEF MinedInOrder, chainNonce
<1>4. Held = {} /\ inFlight = {} /\ staleNonces = {} /\ issued = {}
  BY DEF Held, NM!Init, NM!ManagerInit
<1>5. HeldIssued /\ InFlightUnsettled /\ NothingBeforeStart
  BY <1>4 DEF HeldIssued, InFlightUnsettled, NothingBeforeStart
<1>6. MarksHeld /\ RoutesApart /\ RecordedMined
  BY <1>4 DEF MarksHeld, InFlightRouteHeld, RoutesApart, RecordedMined
<1>7. SentTracked /\ NonceAccounted
  BY <1>4 DEF SentTracked, InAir, NonceAccounted
<1> QED
  BY <1>1, <1>2, <1>3, <1>5, <1>6, <1>7 DEF IInv

\* Every step keeps every part.
LEMMA NextIInv == IInv /\ [Next]_vars => IInv'
BY ManagerInvariantKept, TypesKept, NothingBeforeStartKept, MinedInOrderKept,
   HeldIssuedKept, InFlightUnsettledKept, MarksHeldKept, RoutesApartKept,
   RecordedMinedKept, SentTrackedKept, NonceAccountedKept DEF IInv

\* The inductive invariant holds in every state of the service.
THEOREM ExecutionInvariant == Spec => []IInv
BY InitIInv, NextIInv, PTL DEF Spec

\* The state of the service keeps its types, and its control state agrees with
\* what it holds.
THEOREM ExecutionTyped == Spec => []TypeOK
<1>1. IInv => TypeOK
  BY DEF IInv
<1> QED
  BY <1>1, ExecutionInvariant, PTL

\* No path out of execute, batchExecute or confirmExecution leaves a route
\* marked in flight.
THEOREM MarksNeverOutlive == Spec => []InFlightRouteHeld
<1>1. IInv => InFlightRouteHeld
  BY DEF IInv, MarksHeld
<1> QED
  BY <1>1, ExecutionInvariant, PTL

\* Nor a nonce in flight, unless the wait for a bundle's inclusion threw.
THEOREM NoncesSettled == Spec => []InFlightNonceHeld
<1>1. IInv => InFlightNonceHeld
  <2> SUFFICES ASSUME IInv, NEW n \in inFlight, n \notin leaked
               PROVE  n \in HeldNonces
    BY DEF InFlightNonceHeld
  <2>1. hfPc \in Unsettled /\ n = current.nonce
    BY DEF IInv, InFlightUnsettled
  <2>2. current \in Held
    BY <2>1 DEF IInv, TypeOK, ControlOK, Unsettled, Held
  <2> QED
    BY <2>1, <2>2 DEF HeldNonces
<1> QED
  BY <1>1, ExecutionInvariant, PTL

\* A nonce handed out and not mined is held, waits for recovery, or left through
\* one of the three doors.
THEOREM NoncesAccounted == Spec => []NonceAccounted
<1>1. IInv => NonceAccounted
  BY DEF IInv
<1> QED
  BY <1>1, ExecutionInvariant, PTL

\* The tracker misses no mined trade but those whose nonce the bot gave up.
THEOREM TradesRecorded == Spec => []MinedTradeRecorded
<1>1. IInv => MinedTradeRecorded
  BY DEF IInv, SentTracked, MinedTradeRecorded
<1> QED
  BY <1>1, ExecutionInvariant, PTL

\* A route's trade can be mined a second time only after the bot gave up the
\* nonce of one of the two.
THEOREM RoutesNotRepeated == Spec => []RouteTwiceOnlyIfGivenUp
<1>1. IInv => RouteTwiceOnlyIfGivenUp
  <2> SUFFICES ASSUME IInv, NEW tx1 \in Minable, NEW tx2 \in Minable,
                      tx1.route = tx2.route, tx1.route # Cancel, tx1 # tx2
               PROVE  {tx1.nonce, tx2.nonce} \intersect (givenUp \union leaked) # {}
    BY DEF RouteTwiceOnlyIfGivenUp
  <2>1. ASSUME NEW tx \in Minable, tx.route # Cancel
        PROVE  tx \in Held \/ tx.nonce \in givenUp \union leaked
    <3>1. tx.nonce \in Nat /\ chainNonce \in Nat /\ tx.nonce >= chainNonce
      BY ExecutionAssumption DEF Minable, InAir, IInv, TypeOK, Txs, MinedInOrder
    <3>2. tx \notin recorded
      BY <3>1 DEF IInv, RecordedMined, MinedInOrder
    <3> QED
      BY <2>1, <3>2 DEF IInv, SentTracked, Minable
  <2>2. ~(tx1 \in Held /\ tx2 \in Held)
    BY DEF IInv, RoutesApart
  <2> QED
    BY <2>1, <2>2
<1> QED
  BY <1>1, ExecutionInvariant, PTL

\* The service, its ticks and the network drive the manager only as

\* NonceManager.tla allows: the manager's theorems hold of it in the composition.
THEOREM ServiceDrivesManager == Spec => ManagerSpec
<1>1. Init => NM!Init
  BY DEF Init
<1>2. IInv /\ [Next]_vars => [NM!Next]_(NM!vars)
  BY ManagerStep
<1> QED
  BY <1>1, <1>2, ExecutionInvariant, PTL DEF Spec, ManagerSpec, NM!Spec

\* So getNextNonce never returns, during the whole operation of the service, a
\* nonce it returned since the last resync.
THEOREM ServiceNoncesUnique == Spec => []NM!IssuedBelowNext
<1>1. IInv => NM!IssuedBelowNext
  BY DEF IInv, NMP!IInv, NMP!IssuedBelowNext, NM!IssuedBelowNext
<1> QED
  BY <1>1, ExecutionInvariant, PTL

-----------------------------------------------------------------------------
(***************************************************************************)
(* Candidate building and calldata: for every set of routes and every      *)
(* combination of amounts and shortfalls, no pool after the first is paid, *)
(* and no transaction of a candidate settles.                              *)
(***************************************************************************)

(* slippageAdjustedAmountOut is an amount, and nothing of nothing.          *)
LEMMA SlippedNat ==
  ASSUME RouteCalldataConstants, NEW x \in Nat, NEW bps \in 0..Bps
  PROVE  Slipped(x, bps) \in Nat /\ Slipped(0, bps) = 0
<1>1. Bps - bps \in Nat /\ Bps \in Nat \ {0}
  BY DEF RouteCalldataConstants
<1>2. x * (Bps - bps) \in Nat /\ 0 * (Bps - bps) = 0
  BY <1>1
<1>3. 0 \div Bps = 0
  BY <1>1
<1> QED
  BY <1>1, <1>2, <1>3 DEF Slipped

(* What is drawn for a candidate.                                          *)
RouteOk == route \in CandidateRoutes /\ principal \in Principals /\ slippage \in Slippages

(* A candidate's route, amounts and rates.                                  *)
LEMMA RouteTypes ==
  ASSUME RouteCalldataConstants, RouteOk
  PROVE  /\ Hops = 1..Len(route) /\ Len(route) \in Nat /\ 1 \in Hops /\ Len(route) > 1
         /\ \A i \in Hops : /\ route[i].kind \in Kinds /\ route[i].in \in Nat \ {0}
                            /\ route[i].out \in Nat
         /\ principal \in Nat \ {0} /\ slippage \in 0..(Bps - transferBuffer)
         /\ Bps \in Nat \ {0} /\ feeNumerator \in Nat \ {0} /\ transferBuffer \in 0..Bps
         /\ slippage \in 0..Bps /\ slippage + transferBuffer \in 0..Bps
<1> DEFINE Hop == [kind : Kinds, in : Nat \ {0}, out : Nat, encodable : BOOLEAN]
<1>1. route \in Seq(Hop) /\ Len(route) > 1
  BY DEF RouteCalldataConstants, RouteOk
<1>2. Hops = 1..Len(route) /\ Len(route) \in Nat /\ Len(route) > 1
  BY <1>1 DEF Hops
<1>3. \A i \in Hops : route[i] \in Hop
  <2> HIDE DEF Hop
  <2> QED
    BY <1>1, <1>2
<1>4. principal \in Nat \ {0} /\ slippage \in 0..(Bps - transferBuffer)
  BY DEF RouteCalldataConstants, RouteOk
<1>5. Bps \in Nat \ {0} /\ feeNumerator \in Nat \ {0} /\ transferBuffer \in 0..Bps
  BY DEF RouteCalldataConstants
<1>6. slippage \in 0..Bps /\ slippage + transferBuffer \in 0..Bps
  BY <1>4, <1>5
<1> QED
  BY <1>2, <1>3, <1>4, <1>5, <1>6

(* What a pool pays is an amount, and nothing for nothing.                  *)
LEMMA QuoteNat ==
  ASSUME RouteCalldataConstants, RouteOk, NEW i \in Hops, NEW x \in Nat
  PROVE  Quote(i, x) \in Nat /\ Quote(i, 0) = 0
<1>1. route[i].in \in Nat \ {0} /\ route[i].out \in Nat /\ Bps \in Nat \ {0} /\ feeNumerator \in Nat
  BY RouteTypes
<1>2. x * feeNumerator \in Nat
  BY <1>1
<1>3. x * feeNumerator * route[i].out \in Nat
  BY <1>1, <1>2
<1>4. route[i].in * Bps \in Nat \ {0}
  BY <1>1
<1>5. route[i].in * Bps + x * feeNumerator \in Nat \ {0}
  BY <1>2, <1>4
<1>6. Quote(i, 0) = 0
  <2>1. 0 * feeNumerator = 0 /\ 0 * route[i].out = 0
    BY <1>1
  <2>2. route[i].in * Bps + 0 = route[i].in * Bps /\ 0 \div (route[i].in * Bps) = 0
    BY <1>4
  <2> QED
    BY <2>1, <2>2 DEF Quote
<1>7. Quote(i, x) \in Nat
  BY <1>3, <1>5 DEF Quote
<1> QED
  BY <1>6, <1>7

-----------------------------------------------------------------------------
(* What HopAmount stands for exists: its values up to some hop do, one after*)
(* the other, and they do not depend on how far they are taken.             *)
AmountAfter(i, x) == IF i <= 1 THEN principal ELSE Quote(i - 1, x)
UpTo(g, n) == g = [i \in 0..n |-> AmountAfter(i, g[i - 1])]

(* They exist up to any hop.                                                *)
LEMMA AmountsUpTo ==
  ASSUME NEW n \in Nat
  PROVE  \E g : UpTo(g, n)
<1> DEFINE S == {k \in Nat : ~\E g : UpTo(g, k)}
<1>1. SUFFICES ASSUME S # {} PROVE FALSE
  OBVIOUS
<1>2. PICK m \in S : \A k \in S : m <= k
  <2> HIDE DEF S
  <2>1. S \in SUBSET Nat
    BY DEF S
  <2> QED
    BY <1>1, <2>1, LeastNumber
<1>3. CASE m = 0
  <2> DEFINE g == [i \in 0..0 |-> principal]
  <2>1. UpTo(g, 0)
    BY DEF UpTo, AmountAfter
  <2> QED
    BY <1>2, <1>3, <2>1
<1>4. CASE m # 0
  <2>1. m \in Nat \ {0} /\ m - 1 \in Nat /\ m - 1 \notin S
    BY <1>2, <1>4
  <2>2. PICK g : UpTo(g, m - 1)
    BY <2>1
  <2> DEFINE h == [i \in 0..m |-> AmountAfter(i, g[i - 1])]
  <2>3. \A i \in 0..(m - 1) : h[i] = g[i]
    BY <2>1, <2>2 DEF UpTo
  <2>4. \A i \in 0..m : AmountAfter(i, h[i - 1]) = AmountAfter(i, g[i - 1])
    <3> SUFFICES ASSUME NEW i \in 0..m
                 PROVE  AmountAfter(i, h[i - 1]) = AmountAfter(i, g[i - 1])
      OBVIOUS
    <3>1. CASE i <= 1
      BY <3>1 DEF AmountAfter
    <3>2. CASE ~(i <= 1)
      <4>1. i - 1 \in 0..(m - 1)
        BY <2>1, <3>2
      <4> QED
        BY <2>3, <4>1
    <3> QED
      BY <3>1, <3>2
  <2>5. h = [i \in 0..m |-> AmountAfter(i, h[i - 1])]
    BY <2>4
  <2>6. UpTo(h, m)
    BY <2>5 DEF UpTo
  <2> QED
    BY <1>2, <2>6
<1> QED
  BY <1>3, <1>4

(* Taken farther, they begin the same.                                      *)
LEMMA AmountsAgree ==
  ASSUME NEW m \in Nat, NEW n \in Nat, m <= n, NEW g, NEW h, UpTo(g, m), UpTo(h, n)
  PROVE  \A i \in 0..m : g[i] = h[i]
<1> DEFINE S == {i \in 0..m : g[i] # h[i]}
<1>1. SUFFICES ASSUME S # {} PROVE FALSE
  OBVIOUS
<1>2. PICK d \in S : \A i \in S : d <= i
  <2> HIDE DEF S
  <2>1. S \in SUBSET Nat
    BY DEF S
  <2> QED
    BY <1>1, <2>1, LeastNumber
<1>3. g[d] = AmountAfter(d, g[d - 1]) /\ h[d] = AmountAfter(d, h[d - 1])
  BY <1>2 DEF UpTo
<1>4. CASE d <= 1
  BY <1>2, <1>3, <1>4 DEF AmountAfter
<1>5. CASE ~(d <= 1)
  <2>1. d - 1 \in 0..m /\ d - 1 \notin S
    BY <1>2, <1>5
  <2> QED
    BY <1>2, <1>3, <2>1
<1> QED
  BY <1>4, <1>5

(* So HopAmount is what simulateRoute computes, hop after hop.              *)
LEMMA HopAmounts ==
  \A i \in Nat : HopAmount[i] = IF i <= 1 THEN principal ELSE Quote(i - 1, HopAmount[i - 1])
<1> DEFINE part(n) == CHOOSE g : UpTo(g, n)
           f == [n \in Nat |-> part(n)[n]]
           Body(g) == [i \in Nat |-> IF i <= 1 THEN principal ELSE Quote(i - 1, g[i - 1])]
<1>1. \A n \in Nat : UpTo(part(n), n)
  BY AmountsUpTo
<1> HIDE DEF part
<1>2. ASSUME NEW i \in Nat
      PROVE  f[i] = IF i <= 1 THEN principal ELSE Quote(i - 1, f[i - 1])
  <2>1. f[i] = AmountAfter(i, part(i)[i - 1])
    BY <1>1 DEF UpTo
  <2>2. CASE i <= 1
    BY <2>1, <2>2 DEF AmountAfter
  <2>3. CASE ~(i <= 1)
    <3>1. i - 1 \in Nat /\ i - 1 <= i /\ i - 1 \in 0..(i - 1)
      BY <2>3
    <3>2. part(i - 1)[i - 1] = part(i)[i - 1]
      BY <1>1, <3>1, AmountsAgree
    <3>3. f[i - 1] = part(i)[i - 1]
      BY <3>1, <3>2
    <3> QED
      BY <2>1, <2>3, <3>3 DEF AmountAfter
  <2> QED
    BY <2>2, <2>3
<1> HIDE DEF f
<1>3. f = Body(f)
  <2>1. DOMAIN f = Nat /\ f = [n \in Nat |-> f[n]]
    BY DEF f
  <2> QED
    BY <1>2, <2>1
<1>4. HopAmount = CHOOSE g : g = Body(g)
  BY DEF HopAmount
<1>5. HopAmount = Body(HopAmount)
  <2> HIDE DEF Body
  <2> QED
    BY <1>3, <1>4
<1> QED
  BY <1>5

-----------------------------------------------------------------------------
(* The invariant.                                                           *)
Paid(i) == route[i].kind \in {"V2", "DODO"}
Hopping == phase \notin {"candidate", "refused"}

(* What is built and done so far: the calls are those of the route, and     *)
(* each hop done has its shortfall.                                         *)
CalldataShape ==
  /\ RouteOk
  /\ RouteCalldataTypeOK
  /\ short \in Seq(Shortfalls)
  /\ phase = "candidate" => pc = [hop |-> 1, at |-> 1] /\ short = <<>>
  /\ Hopping => calls = EncodedRoute /\ pc \in [hop : Nat, at : Nat]
  /\ phase = "calls" => Len(short) = pc.hop - 1

(* The principal leaves with the first hop, and nothing is sent after it.   *)
FundsHeld ==
  phase = "calls" =>
    /\ pc.hop = 1 /\ Paid(1) => held[1] = IF pc.at = 1 THEN principal ELSE 0
    /\ pc.hop > 1 => held[1] = 0 /\ sent = 0

CalldataInv == CalldataShape /\ FundsHeld /\ NoRouteSettles

(* The amounts of a call.                                                   *)
LEMMA AmountTypes ==
  ASSUME RouteCalldataConstants, RouteOk
  PROVE  /\ \A i \in Hops : /\ HopAmount[i] \in Nat /\ Simulated(i) \in Nat
                            /\ Committed(i) \in Nat /\ MinOut(i) \in Nat
         /\ Committed(1) = principal
<1>1. /\ Hops = 1..Len(route) /\ Len(route) \in Nat /\ 1 \in Hops /\ principal \in Nat
      /\ slippage \in 0..Bps /\ slippage + transferBuffer \in 0..Bps
  BY RouteTypes
<1>2. HopAmount[1] = principal /\ HopAmount[2] = Quote(1, principal)
  BY HopAmounts
<1>3. \A i \in 1..(Len(route) + 1) : HopAmount[i] \in Nat
  <2> DEFINE S == {i \in 1..(Len(route) + 1) : HopAmount[i] \notin Nat}
  <2>1. SUFFICES ASSUME S # {} PROVE FALSE
    OBVIOUS
  <2>2. PICK m \in S : \A i \in S : m <= i
    <3> HIDE DEF S
    <3>1. S \in SUBSET Nat
      BY <1>1 DEF S
    <3> QED
      BY <2>1, <3>1, LeastNumber
  <2>3. m # 1
    BY <1>1, <1>2
  <2>4. m \in Nat /\ m > 1 /\ m - 1 \in Hops /\ m - 1 \in 1..(Len(route) + 1) /\ m - 1 \notin S
    BY <1>1, <2>2, <2>3
  <2>5. HopAmount[m] = Quote(m - 1, HopAmount[m - 1])
    BY <2>4, HopAmounts
  <2> QED
    BY <2>2, <2>4, <2>5, QuoteNat
<1>4. ASSUME NEW i \in Hops
      PROVE  HopAmount[i] \in Nat /\ Simulated(i) \in Nat /\ Committed(i) \in Nat /\ MinOut(i) \in Nat
  <2>1. i \in 1..(Len(route) + 1) /\ i + 1 \in 1..(Len(route) + 1)
    BY <1>1
  <2>2. HopAmount[i] \in Nat /\ Simulated(i) \in Nat
    BY <1>3, <2>1 DEF Simulated
  <2>3. ASSUME NEW x \in Nat, NEW bps \in 0..Bps PROVE Slipped(x, bps) \in Nat
    BY <2>3, SlippedNat
  <2>4. Committed(i) \in Nat
    BY <1>1, <2>2, <2>3 DEF Committed
  <2>5. Quote(i, Committed(i)) \in Nat
    BY <2>4, QuoteNat
  <2>6. /\ Slipped(Quote(i, Committed(i)), slippage) \in Nat
        /\ Slipped(Simulated(i), slippage) \in Nat
    BY <1>1, <2>2, <2>3, <2>5
  <2>7. \/ MinOut(i) = Slipped(Quote(i, Committed(i)), slippage)
        \/ MinOut(i) = Slipped(Simulated(i), slippage)
        \/ MinOut(i) = 0
    BY DEF MinOut
  <2> QED
    BY <2>2, <2>4, <2>6, <2>7
<1> QED
  BY <1>1, <1>2, <1>4 DEF Committed, Simulated

(* The calls of a hop.                                                      *)
LEMMA EncodedCalls ==
  ASSUME RouteCalldataConstants, RouteOk, NEW i \in Hops
  PROVE  /\ Encoded(i) \in Seq([op : {"transfer", "transferAll", "swapPaid", "swap", "approve"},
                                amount : Nat, min : Nat])
         /\ Len(Encoded(i)) \in 1..2
         /\ \A k \in 1..Len(Encoded(i)) :
              Encoded(i)[k].amount = Committed(i) /\ Encoded(i)[k].min = MinOut(i)
         /\ IF Paid(i)
            THEN /\ Len(Encoded(i)) = 2 /\ Encoded(i)[2].op = "swapPaid"
                 /\ Encoded(i)[1].op = IF i = 1 THEN "transfer" ELSE "transferAll"
            ELSE /\ Encoded(i)[Len(Encoded(i))].op = "swap"
                 /\ Len(Encoded(i)) = 2 => Encoded(i)[1].op = "approve"
<1>1. Committed(i) \in Nat /\ MinOut(i) \in Nat
  BY AmountTypes
<1>2. CASE Paid(i)
  <2>1. Encoded(i) = <<Call(IF i = 1 THEN "transfer" ELSE "transferAll", i), Call("swapPaid", i)>>
    BY <1>2 DEF Paid, Encoded, encodeDodoHop, encodeV2Hop
  <2> QED
    BY <1>1, <1>2, <2>1 DEF Call
<1>3. CASE ~Paid(i)
  <2>1. Encoded(i) = <<Call("swap", i)>> \/ Encoded(i) = <<Call("approve", i), Call("swap", i)>>
    BY <1>3 DEF Paid, Encoded, encodeV3Hop, encodeApprovedHop
  <2>2. CASE Encoded(i) = <<Call("swap", i)>>
    BY <1>1, <1>3, <2>2 DEF Call
  <2>3. CASE Encoded(i) = <<Call("approve", i), Call("swap", i)>>
    BY <1>1, <1>3, <2>3 DEF Call
  <2> QED
    BY <2>1, <2>2, <2>3
<1> QED
  BY <1>2, <1>3

(* What is built of a candidate depends on nothing else.                    *)
LEMMA BuiltKept ==
  ASSUME UNCHANGED <<route, principal, slippage>>
  PROVE  UNCHANGED <<Hops, EncodedRoute>>
<1>1. \A i, x : Quote(i, x)' = Quote(i, x)
  BY DEF Quote
<1>2. HopAmount' = HopAmount
  BY <1>1 DEF HopAmount
<1>3. \A i : Committed(i)' = Committed(i) /\ Simulated(i)' = Simulated(i)
  BY <1>2 DEF Committed, Simulated, Slipped
<1>4. \A i : MinOut(i)' = MinOut(i)
  BY <1>1, <1>3 DEF MinOut, Slipped
<1>5. \A op, i : Call(op, i)' = Call(op, i)
  BY <1>3, <1>4 DEF Call
<1>6. \A i : Encoded(i)' = Encoded(i)
  BY <1>5 DEF Encoded, encodeV2Hop, encodeDodoHop, encodeV3Hop, encodeApprovedHop
<1> QED
  BY <1>3, <1>6 DEF Hops, EncodedRoute

(* A candidate holds nothing yet.                                           *)
LEMMA CandidateStarts ==
  ASSUME RouteCalldataConstants, RouteCalldataInit
  PROVE  CalldataInv
<1>1. RouteOk /\ pc.hop = 1 /\ pc.at = 1 /\ phase = "candidate" /\ sent = 0 /\ short = <<>>
  BY DEF RouteCalldataInit, RouteOk
<1>2. 1 \in 1..(Len(route) + 1) /\ Len(route) \in Nat
  BY <1>1, RouteTypes
<1> QED
  BY <1>1, <1>2 DEF RouteCalldataInit, CalldataInv, CalldataShape, RouteCalldataTypeOK, FundsHeld,
    NoRouteSettles, Hopping

(* The calls are built: the principal is borrowed.                          *)
LEMMA BuildKeeps ==
  ASSUME RouteCalldataConstants, CalldataInv, BuildArbTx
  PROVE  CalldataInv'
<1>1. /\ phase = "candidate" /\ pc = [hop |-> 1, at |-> 1] /\ short = <<>> /\ sent \in Nat
      /\ RouteOk /\ UNCHANGED <<route, principal, slippage, pc, sent, short>>
  BY DEF BuildArbTx, CalldataInv, CalldataShape, RouteCalldataTypeOK
<1>2. /\ Hops = 1..Len(route) /\ Len(route) \in Nat /\ 1 \in Hops /\ principal \in Nat
  BY <1>1, RouteTypes
<1>3. RouteOk' /\ pc'.hop = 1 /\ pc'.at = 1 /\ pc.hop \in 1..(Len(route) + 1)
  BY <1>1, <1>2 DEF RouteOk
<1>4. CASE phase' = "refused"
  BY <1>1, <1>3, <1>4 DEF CalldataInv, CalldataShape, RouteCalldataTypeOK, FundsHeld,
    NoRouteSettles, Hopping
<1>5. CASE phase' # "refused"
  <2>1. /\ phase' = "calls" /\ calls' = EncodedRoute
        /\ held' = [i \in Hops |-> IF i = 1 THEN principal ELSE 0]
        /\ Cardinality(Places(EncodedRoute)) <= maxCalls
    BY <1>5 DEF BuildArbTx
  <2>2. UNCHANGED <<Hops, EncodedRoute>>
    BY <1>1, BuiltKept
  <2>3. Places(calls)' = Places(EncodedRoute)
    BY <2>1, <2>2 DEF Places
  <2>4. held' \in [Hops -> Nat] /\ held'[1] = principal
    BY <1>2, <2>1
  <2>5. Len(calls'[1]) \in 1..2
    BY <1>1, <1>2, <2>1, EncodedCalls DEF EncodedRoute
  <2>6. short' \in Seq(Shortfalls) /\ Len(short') = 0 /\ Len(route)' = Len(route)
    BY <1>1
  <2>7. RouteCalldataTypeOK'
    <3>1. Cardinality(Places(calls))' <= maxCalls
      BY <2>1, <2>3
    <3>2. pc'.hop \in 1..(Len(route)' + 1) /\ pc'.at \in 1..2 /\ pc'.at <= Len(calls'[pc'.hop])
      <4>1. pc'.hop \in 1..(Len(route)' + 1)
        BY <1>2, <1>3, <2>6
      <4>2. Len(calls'[pc'.hop]) \in 1..2
        BY <1>3, <2>5, Zenon
      <4>3. \A n \in 1..2 : 1 <= n
        OBVIOUS
      <4>4. pc'.at <= Len(calls'[pc'.hop])
        BY <1>3, <4>2, <4>3, Zenon
      <4> QED
        BY <1>3, <4>1, <4>4
    <3>3. held' \in [Hops' -> Nat] /\ sent' \in Nat /\ Len(short') <= Len(route)'
      BY <1>1, <1>2, <2>2, <2>4, <2>6
    <3> QED
      BY <2>1, <3>1, <3>2, <3>3 DEF RouteCalldataTypeOK
  <2>8. CalldataShape'
    BY <1>1, <1>2, <1>3, <2>1, <2>2, <2>6, <2>7 DEF CalldataShape, Hopping
  <2>9. FundsHeld' /\ NoRouteSettles'
    BY <1>1, <1>3, <2>1, <2>4 DEF FundsHeld, NoRouteSettles
  <2> QED
    BY <2>8, <2>9 DEF CalldataInv
<1> QED
  BY <1>4, <1>5

(* The next call is one of the hop at hand.                                 *)
LEMMA CallAtHand ==
  ASSUME RouteCalldataConstants, CalldataInv, phase = "calls", pc.hop <= Len(route)
  PROVE  /\ pc.hop \in Hops /\ pc.at \in 1..2 /\ pc.at <= Len(calls[pc.hop])
         /\ pc = [hop |-> pc.hop, at |-> pc.at]
         /\ Len(calls[pc.hop]) \in 1..2 /\ calls[pc.hop] = Encoded(pc.hop)
         /\ NextCall.amount = Committed(pc.hop) /\ NextCall.min = MinOut(pc.hop)
         /\ NextCall.op = "approve" => ~Paid(pc.hop) /\ pc.at < Len(calls[pc.hop])
         /\ NextCall.op = "transfer" =>
              pc.hop = 1 /\ Paid(1) /\ pc.at = 1 /\ pc.at < Len(calls[pc.hop])
         /\ NextCall.op = "transferAll" =>
              pc.hop > 1 /\ Paid(pc.hop) /\ pc.at < Len(calls[pc.hop])
         /\ NextCall.op = "swapPaid" =>
              Paid(pc.hop) /\ pc.at = 2 /\ pc.at = Len(calls[pc.hop])
         /\ NextCall.op = "swap" => ~Paid(pc.hop) /\ pc.at = Len(calls[pc.hop])
         /\ Bought(pc.hop) \in Hops
         /\ held \in [Hops -> Nat] /\ sent \in Nat
         /\ short \in Seq(Shortfalls) /\ Len(short) = pc.hop - 1
<1> DEFINE i == pc.hop
           k == pc.at
<1>1. RouteOk /\ Hopping /\ calls = EncodedRoute /\ pc \in [hop : Nat, at : Nat]
  BY DEF CalldataInv, CalldataShape, Hopping
<1>2. Hops = 1..Len(route) /\ Len(route) \in Nat /\ 1 \in Hops
  BY <1>1, RouteTypes
<1>3. /\ i \in 1..(Len(route) + 1) /\ k \in 1..2 /\ held \in [Hops -> Nat] /\ sent \in Nat
      /\ short \in Seq(Shortfalls) /\ Len(short) = pc.hop - 1
  BY DEF CalldataInv, CalldataShape, RouteCalldataTypeOK, Hopping
<1>4. i \in Hops
  BY <1>2, <1>3
<1>5. k <= Len(calls[i])
  BY <1>4 DEF CalldataInv, CalldataShape, RouteCalldataTypeOK
<1>6. calls[i] = Encoded(i)
  BY <1>1, <1>4 DEF EncodedRoute
<1>7. pc = [hop |-> i, at |-> k]
  BY <1>1
<1> HIDE DEF i, k
<1>8. Len(Encoded(i)) \in 1..2 /\ k \in 1..Len(Encoded(i))
  <2>1. Len(Encoded(i)) \in 1..2
    BY <1>1, <1>4, EncodedCalls
  <2> QED
    BY <1>3, <1>5, <1>6, <2>1
<1>9. Encoded(i)[k].amount = Committed(i) /\ Encoded(i)[k].min = MinOut(i)
  BY <1>1, <1>4, <1>8, EncodedCalls
<1>10. /\ Encoded(i)[k].op = "approve" => ~Paid(i) /\ k < Len(Encoded(i))
       /\ Encoded(i)[k].op = "transfer" => i = 1 /\ Paid(i) /\ k = 1 /\ k < Len(Encoded(i))
       /\ Encoded(i)[k].op = "transferAll" => i > 1 /\ Paid(i) /\ k < Len(Encoded(i))
       /\ Encoded(i)[k].op = "swapPaid" => Paid(i) /\ k = 2 /\ k = Len(Encoded(i))
       /\ Encoded(i)[k].op = "swap" => ~Paid(i) /\ k = Len(Encoded(i))
  <2>0. k = 1 \/ k = 2
    BY <1>3
  <2>1. CASE Paid(i)
    <3>1. /\ Len(Encoded(i)) = 2 /\ Encoded(i)[2].op = "swapPaid"
          /\ Encoded(i)[1].op = IF i = 1 THEN "transfer" ELSE "transferAll"
      BY <1>1, <1>4, <2>1, EncodedCalls
    <3>2. i # 1 => i > 1
      BY <1>2, <1>4
    <3> QED
      BY <2>0, <2>1, <3>1, <3>2
  <2>2. CASE ~Paid(i)
    <3>1. /\ Encoded(i)[Len(Encoded(i))].op = "swap"
          /\ Len(Encoded(i)) = 2 => Encoded(i)[1].op = "approve"
      BY <1>1, <1>4, <2>2, EncodedCalls
    <3> QED
      BY <1>8, <2>0, <2>2, <3>1
  <2> QED
    BY <2>1, <2>2
<1>11. Bought(i) \in Hops
  BY <1>2, <1>4 DEF Bought
<1>12. NextCall = Encoded(i)[k]
  BY <1>6 DEF NextCall, i, k
<1> QED
  BY <1>3, <1>4, <1>5, <1>6, <1>7, <1>8, <1>9, <1>10, <1>11, <1>12 DEF i, k

(* What all calls leave alone.                                              *)
LEMMA StandingKept ==
  ASSUME RouteCalldataConstants, CalldataInv, phase = "calls", pc.hop <= Len(route),
         UNCHANGED <<route, principal, slippage, calls>>
  PROVE  /\ RouteOk' /\ UNCHANGED <<Hops, EncodedRoute>> /\ calls' = EncodedRoute'
         /\ Cardinality(Places(calls))' <= maxCalls
         /\ Hops' = 1..Len(route) /\ Len(route)' = Len(route) /\ Len(route) \in Nat
         /\ \A i : Paid(i)' = Paid(i)
<1>1. RouteOk /\ calls = EncodedRoute /\ Cardinality(Places(calls)) <= maxCalls
  BY DEF CalldataInv, CalldataShape, RouteCalldataTypeOK, Hopping
<1>2. UNCHANGED <<Hops, EncodedRoute>>
  BY BuiltKept
<1>3. Places(calls)' = Places(calls)
  BY <1>2 DEF Places
<1>4. Hops = 1..Len(route) /\ Len(route) \in Nat
  BY <1>1, RouteTypes
<1> QED
  BY <1>1, <1>2, <1>3, <1>4 DEF RouteOk, Paid

(* A call that is not the last of its hop.                                  *)
LEMMA AdvanceShape ==
  ASSUME RouteCalldataConstants, CalldataInv, phase = "calls", pc.hop <= Len(route),
         UNCHANGED <<route, principal, slippage, calls, short>>,
         Done, pc.at < Len(calls[pc.hop]),
         held' \in [Hops -> Nat], sent' \in Nat
  PROVE  CalldataShape' /\ phase' = "calls" /\ pc' = [hop |-> pc.hop, at |-> 2]
<1> DEFINE n == Len(calls[pc.hop])
<1>1. /\ pc.hop \in Hops /\ pc.at \in 1..2 /\ pc = [hop |-> pc.hop, at |-> pc.at]
      /\ n \in 1..2 /\ short \in Seq(Shortfalls) /\ Len(short) = pc.hop - 1 /\ pc.at < n
  BY CallAtHand
<1> HIDE DEF n
<1>2. /\ pc.hop \in Hops /\ pc.at = 1 /\ pc = [hop |-> pc.hop, at |-> pc.at]
      /\ n = 2 /\ short \in Seq(Shortfalls) /\ Len(short) = pc.hop - 1
  BY <1>1
<1>3. pc' = [hop |-> pc.hop, at |-> 2] /\ phase' = "calls"
  BY <1>2 DEF Done, n
<1>4. /\ RouteOk' /\ Hops' = Hops /\ calls' = EncodedRoute' /\ Cardinality(Places(calls))' <= maxCalls
      /\ Hops' = 1..Len(route) /\ Len(route)' = Len(route) /\ Len(route) \in Nat
      /\ \A i : Paid(i)' = Paid(i)
  BY StandingKept
<1>5. pc'.hop = pc.hop /\ pc'.at = 2 /\ pc' \in [hop : Nat, at : Nat]
  BY <1>2, <1>3, <1>4
<1>6. /\ pc'.hop \in 1..(Len(route)' + 1) /\ pc'.at \in 1..2 /\ Len(short') = pc'.hop - 1
      /\ Len(short') <= Len(route)'
  <2>1. short' = short /\ pc.hop \in 1..Len(route)
    BY <1>2, <1>4
  <2> QED
    BY <1>2, <1>4, <1>5, <2>1
<1>7. pc'.at <= Len(calls'[pc'.hop])
  <2>1. calls' = calls /\ 2 <= n
    BY <1>2
  <2> QED
    BY <1>5, <2>1 DEF n
<1>8. RouteCalldataTypeOK'
  BY <1>3, <1>4, <1>6, <1>7 DEF RouteCalldataTypeOK
<1> QED
  BY <1>2, <1>3, <1>4, <1>5, <1>6, <1>8 DEF CalldataShape

(* The last call of a hop.                                                  *)
LEMMA NextHopShape ==
  ASSUME RouteCalldataConstants, CalldataInv, phase = "calls", pc.hop <= Len(route),
         UNCHANGED <<route, principal, slippage, calls>>,
         NEW d \in Shortfalls, FellShort(d),
         Done, pc.at = Len(calls[pc.hop]), held' \in [Hops -> Nat], sent' \in Nat
  PROVE  CalldataShape' /\ phase' = "calls" /\ pc' = [hop |-> pc.hop + 1, at |-> 1]
<1>1. /\ pc.hop \in Hops /\ pc.at \in 1..2 /\ pc = [hop |-> pc.hop, at |-> pc.at]
      /\ short \in Seq(Shortfalls) /\ Len(short) = pc.hop - 1
  BY CallAtHand
<1>2. pc' = [hop |-> pc.hop + 1, at |-> 1] /\ phase' = "calls"
  BY <1>1 DEF Done
<1>3. /\ RouteOk /\ RouteOk' /\ Hops' = Hops /\ calls' = EncodedRoute' /\ Cardinality(Places(calls))' <= maxCalls
      /\ Hops' = 1..Len(route) /\ Len(route)' = Len(route) /\ Len(route) \in Nat
      /\ calls = EncodedRoute
  BY StandingKept DEF CalldataInv, CalldataShape, Hopping
<1>4. pc'.hop = pc.hop + 1 /\ pc'.at = 1 /\ pc' \in [hop : Nat, at : Nat]
  BY <1>1, <1>2, <1>3
<1>5. short' \in Seq(Shortfalls) /\ Len(short') = pc.hop
  BY <1>1, <1>3 DEF FellShort
<1>6. /\ pc'.hop \in 1..(Len(route)' + 1) /\ pc'.at \in 1..2 /\ Len(short') = pc'.hop - 1
      /\ Len(short') <= Len(route)'
  BY <1>1, <1>3, <1>4, <1>5
<1>7. pc'.hop \in Hops' => pc'.at <= Len(calls'[pc'.hop])
  <2>1. ASSUME NEW i \in Hops PROVE 1 <= Len(calls'[i])
    <3>1. Len(Encoded(i)) \in 1..2
      BY <1>3, EncodedCalls
    <3>2. calls'[i] = Encoded(i)
      BY <1>3 DEF EncodedRoute
    <3>3. \A n \in 1..2 : 1 <= n
      OBVIOUS
    <3> QED
      BY <3>1, <3>2, <3>3, Zenon
  <2> QED
    BY <1>3, <1>4, <2>1, Zenon
<1>8. RouteCalldataTypeOK'
  BY <1>2, <1>3, <1>6, <1>7 DEF RouteCalldataTypeOK
<1> QED
  BY <1>2, <1>3, <1>4, <1>5, <1>6, <1>8 DEF CalldataShape

(* A call that fails undoes all.                                            *)
LEMMA RevertShape ==
  ASSUME RouteCalldataConstants, CalldataInv, phase = "calls", pc.hop <= Len(route),
         UNCHANGED <<route, principal, slippage, calls, pc, held, sent>>,
         phase' = "reverted",
         short' = short \/ \E d \in Shortfalls : FellShort(d)
  PROVE  CalldataShape' /\ FundsHeld'
<1>1. /\ pc.hop \in Hops /\ pc.at \in 1..2 /\ pc.at <= Len(calls[pc.hop])
      /\ pc = [hop |-> pc.hop, at |-> pc.at] /\ held \in [Hops -> Nat] /\ sent \in Nat
      /\ short \in Seq(Shortfalls) /\ Len(short) = pc.hop - 1
  BY CallAtHand
<1>2. /\ RouteOk' /\ Hops' = Hops /\ calls' = EncodedRoute' /\ Cardinality(Places(calls))' <= maxCalls
      /\ Hops' = 1..Len(route) /\ Len(route)' = Len(route) /\ Len(route) \in Nat
  BY StandingKept
<1>3. short' \in Seq(Shortfalls) /\ Len(short') <= pc.hop
  BY <1>1, <1>2 DEF FellShort
<1>4. /\ pc'.hop \in 1..(Len(route)' + 1) /\ pc'.at \in 1..2 /\ pc' \in [hop : Nat, at : Nat]
      /\ Len(short') <= Len(route)'
  BY <1>1, <1>2, <1>3
<1>5. pc'.at <= Len(calls'[pc'.hop]) /\ held' \in [Hops' -> Nat] /\ sent' \in Nat
  BY <1>1, <1>2
<1>6. RouteCalldataTypeOK'
  BY <1>2, <1>4, <1>5 DEF RouteCalldataTypeOK
<1> QED
  BY <1>2, <1>3, <1>4, <1>6 DEF CalldataShape, FundsHeld

(* A call that is undone.                                                   *)
LEMMA RevertKeeps ==
  ASSUME RouteCalldataConstants, CalldataInv, phase = "calls", pc.hop <= Len(route),
         UNCHANGED <<route, principal, slippage, calls>>,
         Reverts \/ \E d \in Shortfalls : Fails(d)
  PROVE  CalldataInv'
<1>1. /\ UNCHANGED <<pc, held, sent>> /\ phase' = "reverted"
      /\ short' = short \/ \E d \in Shortfalls : FellShort(d)
  BY DEF Reverts, Fails
<1>2. CalldataShape' /\ FundsHeld'
  BY <1>1, RevertShape
<1> QED
  BY <1>1, <1>2 DEF CalldataInv, NoRouteSettles

(* The principal is sent to the first pool.                                 *)
LEMMA TransferKeeps ==
  ASSUME RouteCalldataConstants, CalldataInv, phase = "calls", pc.hop <= Len(route),
         UNCHANGED <<route, principal, slippage, calls>>, Transfer
  PROVE  CalldataInv'
<1>1. /\ pc.hop = 1 /\ Paid(1) /\ pc.at = 1 /\ pc.at < Len(calls[pc.hop]) /\ 1 \in Hops
      /\ held \in [Hops -> Nat] /\ NextCall.amount = Committed(1)
  BY CallAtHand DEF Transfer
<1>2. RouteOk /\ held[1] = principal
  BY <1>1 DEF CalldataInv, CalldataShape, FundsHeld
<1>3. Committed(1) = principal /\ principal \in Nat
  BY <1>2, AmountTypes, RouteTypes
<1>4. /\ Done /\ UNCHANGED short /\ sent' = principal
      /\ held' = [held EXCEPT ![1] = @ - principal]
  BY <1>1, <1>2, <1>3 DEF Transfer
<1>5. held' \in [Hops -> Nat] /\ held'[1] = 0
  BY <1>1, <1>2, <1>3, <1>4
<1>6. CalldataShape' /\ phase' = "calls" /\ pc' = [hop |-> 1, at |-> 2]
  BY <1>1, <1>3, <1>4, <1>5, AdvanceShape
<1> QED
  BY <1>5, <1>6 DEF CalldataInv, FundsHeld, NoRouteSettles

(* transferAll sends nothing.                                               *)
LEMMA TransferAllKeeps ==
  ASSUME RouteCalldataConstants, CalldataInv, phase = "calls", pc.hop <= Len(route),
         UNCHANGED <<route, principal, slippage, calls>>, TransferAll
  PROVE  CalldataInv'
<1>1. /\ pc.hop > 1 /\ pc.at < Len(calls[pc.hop]) /\ held \in [Hops -> Nat]
      /\ Done /\ UNCHANGED <<held, short>> /\ sent' = 0
  BY CallAtHand DEF TransferAll
<1>2. CalldataShape' /\ phase' = "calls" /\ pc' = [hop |-> pc.hop, at |-> 2]
  BY <1>1, AdvanceShape
<1>3. held[1] = 0
  BY <1>1 DEF CalldataInv, FundsHeld
<1>4. pc'.hop = pc.hop /\ pc.hop \in Nat
  BY <1>2, CallAtHand, RouteTypes DEF CalldataInv, CalldataShape
<1> QED
  BY <1>1, <1>2, <1>3, <1>4 DEF CalldataInv, FundsHeld, NoRouteSettles

(* An approval moves nothing, if it does not fail.                          *)
LEMMA ApproveKeeps ==
  ASSUME RouteCalldataConstants, CalldataInv, phase = "calls", pc.hop <= Len(route),
         UNCHANGED <<route, principal, slippage, calls>>, Approve
  PROVE  CalldataInv'
<1>1. CASE Reverts BY <1>1, RevertKeeps
<1>2. CASE Done /\ UNCHANGED <<held, sent, short>>
  <2>1. /\ ~Paid(pc.hop) /\ pc.at < Len(calls[pc.hop]) /\ held \in [Hops -> Nat]
        /\ sent \in Nat /\ pc.hop \in Hops
    BY CallAtHand DEF Approve
  <2>2. CalldataShape' /\ phase' = "calls" /\ pc' = [hop |-> pc.hop, at |-> 2]
    BY <1>2, <2>1, AdvanceShape
  <2>3. pc'.hop = pc.hop /\ \A i : Paid(i)' = Paid(i)
    BY <2>2, StandingKept
  <2> QED
    BY <1>2, <2>1, <2>2, <2>3 DEF CalldataInv, FundsHeld, NoRouteSettles
<1> QED
  BY <1>1, <1>2 DEF Approve

(* The first pool pays in another token than the principal's; a later one   *)
(* was sent nothing and pays nothing.                                       *)
LEMMA SwapPaidKeeps ==
  ASSUME RouteCalldataConstants, CalldataInv, phase = "calls", pc.hop <= Len(route),
         UNCHANGED <<route, principal, slippage, calls>>,
         NEW d \in Shortfalls, SwapPaid(d)
  PROVE  CalldataInv'
<1> DEFINE i == pc.hop
           most == Slipped(Quote(i, sent), d)
           out == IF route[i].kind = "V2" THEN NextCall.min ELSE most
<1>1. /\ i \in Hops /\ Paid(i) /\ pc.at = 2 /\ pc.at = Len(calls[i]) /\ Bought(i) \in Hops
      /\ held \in [Hops -> Nat] /\ sent \in Nat /\ NextCall.min = MinOut(i)
  BY CallAtHand DEF SwapPaid
<1>2. /\ RouteOk /\ Hops = 1..Len(route) /\ Len(route) \in Nat /\ Len(route) > 1
      /\ d \in 0..Bps
  BY RouteTypes DEF CalldataInv, CalldataShape, RouteCalldataConstants
<1>3. Quote(i, sent) \in Nat /\ Quote(i, 0) = 0 /\ MinOut(i) \in Nat
  BY <1>1, <1>2, QuoteNat, AmountTypes
<1>4. most \in Nat /\ (sent = 0 => most = 0) /\ out \in Nat
  <2>1. Slipped(Quote(i, sent), d) \in Nat /\ Slipped(0, d) = 0
    BY <1>2, <1>3, SlippedNat
  <2>2. sent = 0 => Quote(i, sent) = 0
    BY <1>3
  <2> QED
    BY <1>1, <1>3, <2>1, <2>2
<1>5. Bought(1) = 2
  <2>1. ASSUME NEW n \in Nat, n > 1 PROVE 1 # n /\ 1 + 1 = 2
    BY <2>1
  <2>2. 1 # Len(route)
    BY <1>2, <2>1
  <2> QED
    BY <2>1, <2>2 DEF Bought
<1>6. CASE out > most
  BY <1>6, RevertKeeps DEF SwapPaid
<1>7. CASE ~(out > most)
  <2>1. /\ Done /\ FellShort(d) /\ sent' = 0
        /\ held' = [held EXCEPT ![Bought(i)] = @ + out]
    BY <1>7 DEF SwapPaid
  <2> HIDE DEF most, out
  <2>2. held' \in [Hops -> Nat]
    BY <1>1, <1>4, <2>1
  <2>3. CalldataShape' /\ phase' = "calls" /\ pc' = [hop |-> i + 1, at |-> 1]
    BY <1>1, <2>1, <2>2, NextHopShape
  <2>4. held[1] = 0 /\ (i > 1 => sent = 0)
    <3>1. i = 1 \/ i > 1
      BY <1>1, <1>2
    <3> QED
      BY <1>1, <3>1 DEF CalldataInv, FundsHeld
  <2>5. held'[1] = 0
    <3>1. CASE i = 1
      <4>1. Bought(1) = 2
        BY <1>5
      <4> QED
        BY <1>1, <1>2, <2>1, <2>4, <3>1, <4>1
    <3>2. CASE i > 1
      <4>1. out = 0
        BY <1>4, <1>7, <2>4, <3>2
      <4> QED
        BY <1>1, <1>2, <2>1, <2>4, <4>1
    <3> QED
      BY <1>1, <1>2, <3>1, <3>2
  <2>6. pc'.hop > 1
    BY <1>1, <1>2, <2>3
  <2> QED
    BY <2>1, <2>3, <2>5, <2>6 DEF CalldataInv, FundsHeld, NoRouteSettles
<1> QED
  BY <1>6, <1>7

(* After the last hop there is nothing to pay the loan back with.           *)
LEMMA RepayKeeps ==
  ASSUME RouteCalldataConstants, CalldataInv, Repay
  PROVE  CalldataInv'
<1>1. phase = "calls" /\ UNCHANGED <<route, principal, slippage, calls, pc, held, sent, short>>
  BY DEF Repay
<1>2. /\ Len(route) \in Nat /\ Len(route) > 1 /\ principal \in Nat \ {0} /\ flashFee \in Nat
      /\ pc.hop > Len(route) /\ pc.hop \in 1..(Len(route) + 1)
  BY <1>1, RouteTypes DEF CalldataInv, CalldataShape, RouteCalldataTypeOK, Repay, RouteCalldataConstants
<1>3. held[1] = 0
  BY <1>1, <1>2 DEF CalldataInv, FundsHeld
<1>4. phase' = "reverted"
  <2>1. held[1] < principal + flashFee
    BY <1>2, <1>3
  <2>2. phase' = CASE held[1] < principal + flashFee -> "reverted"
                   [] held[1] >= principal + flashFee + minProfit -> "settled"
                   [] OTHER -> "unprofitable"
    BY DEF Repay
  <2>3. minProfit \in Nat
    <3>1. HopAmount[Len(route) + 1] \in Nat
      <4>1. Len(route) \in Hops /\ RouteOk
        BY <1>2, RouteTypes DEF CalldataInv, CalldataShape
      <4> QED
        BY <4>1, AmountTypes DEF Simulated
    <3>2. Costs \in Nat
      BY DEF RouteCalldataConstants
    <3> QED
      BY <1>2, <3>1, <3>2 DEF minProfit
  <2>4. ~(held[1] >= principal + flashFee + minProfit)
    BY <1>2, <1>3, <2>3
  <2> QED
    BY <2>1, <2>2, <2>4
<1>5. UNCHANGED <<Hops, EncodedRoute>> /\ UNCHANGED Places(calls)
  <2>1. UNCHANGED <<Hops, EncodedRoute>>
    BY <1>1, BuiltKept
  <2> QED
    BY <1>1, <2>1 DEF Places
<1>6. CalldataShape
  BY DEF CalldataInv
<1>7. RouteCalldataTypeOK'
  BY <1>1, <1>4, <1>5, <1>6 DEF CalldataShape, RouteCalldataTypeOK
<1>8. CalldataShape'
  BY <1>1, <1>4, <1>5, <1>6, <1>7 DEF CalldataShape, Hopping, RouteOk
<1> QED
  BY <1>4, <1>8 DEF CalldataInv, FundsHeld, NoRouteSettles

(* Every step keeps the invariant.                                          *)
LEMMA CalldataStep ==
  ASSUME RouteCalldataConstants, CalldataInv, [RouteCalldataNext]_calldataVars
  PROVE  CalldataInv'
<1>1. CASE BuildArbTx BY <1>1, BuildKeeps
<1>2. CASE ExecuteCall
  <2>1. phase = "calls" /\ pc.hop <= Len(route) /\ UNCHANGED <<route, principal, slippage, calls>>
    BY <1>2 DEF ExecuteCall
  <2>2. CASE Transfer BY <2>1, <2>2, TransferKeeps
  <2>3. CASE TransferAll BY <2>1, <2>3, TransferAllKeeps
  <2>4. CASE Approve BY <2>1, <2>4, ApproveKeeps
  <2>5. CASE SwapUnpaid BY <2>1, <2>5, RevertKeeps DEF SwapUnpaid
  <2>6. CASE \E d \in Shortfalls : SwapPaid(d) BY <2>1, <2>6, SwapPaidKeeps
  <2> QED
    BY <1>2, <2>2, <2>3, <2>4, <2>5, <2>6 DEF ExecuteCall
<1>3. CASE Repay BY <1>3, RepayKeeps
<1>4. CASE UNCHANGED calldataVars
  <2>1. UNCHANGED <<route, principal, slippage, phase, calls, pc, held, sent, short>>
    BY <1>4 DEF calldataVars
  <2>2. UNCHANGED <<Hops, EncodedRoute>>
    BY <2>1, BuiltKept
  <2>3. UNCHANGED Places(calls) /\ \A i : Paid(i)' = Paid(i)
    BY <2>1, <2>2 DEF Places, Paid
  <2>4. RouteOk' /\ RouteCalldataTypeOK'
    BY <2>1, <2>2, <2>3 DEF CalldataInv, CalldataShape, RouteOk, RouteCalldataTypeOK
  <2>5. CalldataShape'
    BY <2>1, <2>2, <2>3, <2>4 DEF CalldataInv, CalldataShape, Hopping
  <2>6. FundsHeld'
    BY <2>1, <2>2, <2>3 DEF CalldataInv, FundsHeld
  <2>7. NoRouteSettles'
    BY <2>1 DEF CalldataInv, NoRouteSettles
  <2> QED
    BY <2>5, <2>6, <2>7 DEF CalldataInv
<1> QED
  BY <1>1, <1>2, <1>3, <1>4 DEF RouteCalldataNext

(* The strengthened invariant of a candidate's calls is inductive           *)
(* (encodeRoute, buildArbTx, EXECUTE_CALLS).                                *)
THEOREM RouteCalldataInvariant ==
  ASSUME RouteCalldataConstants PROVE RouteCalldataSpec => []CalldataInv
<1> QED
  BY CandidateStarts, CalldataStep, PTL DEF RouteCalldataSpec

(* The calls, the contract's funds and the place in the calls keep their    *)
(* types.                                                                   *)
THEOREM RouteCalldataTyped ==
  ASSUME RouteCalldataConstants PROVE RouteCalldataSpec => []RouteCalldataTypeOK
<1>1. CalldataInv => RouteCalldataTypeOK
  BY DEF CalldataInv, CalldataShape
<1> QED
  BY <1>1, RouteCalldataInvariant, PTL

(* For every route of two hops or more, whatever is borrowed and however    *)
(* little its pools fall short, the transaction of a candidate does not     *)
(* settle (encodeRoute, TRANSFER_ALL, APPROVE_IF_NEEDED and                 *)
(* HANDLE_POOL_SWAP_CALLBACK).                                              *)
THEOREM CandidatesNeverSettle ==
  ASSUME RouteCalldataConstants PROVE RouteCalldataSpec => []NoRouteSettles
<1>1. CalldataInv => NoRouteSettles
  BY DEF CalldataInv
<1> QED
  BY <1>1, RouteCalldataInvariant, PTL

====
