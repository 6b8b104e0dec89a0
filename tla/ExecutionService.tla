-------------------------- MODULE ExecutionService --------------------------
(***************************************************************************)
(* One high-frequency (HF) pass executing groups of candidate routes, the  *)
(* nonce recovery ticks that run next to it, the NonceManager both use and *)
(* the network their transactions go to.                                    *)
(*                                                                         *)
(*   src/src/services/execution/service.ts  execute, batchExecute,         *)
(*       confirmExecution, finalizeFromReceipt, tickNonceRecovery           *)
(*   src/src/services/execution/nonce.ts    through NM                      *)
(*   src/src/orchestrator/pass_hf.ts        the group loop and its MEV path *)
(*   src/src/services/mev/backrun.ts        bundle submission and inclusion *)
(*   src/src/services/execution/submit.ts, receipt.ts                      *)
(*                                                                         *)
(* JavaScript runs one turn at a time: hfPc names the await point the HF   *)
(* pass is suspended at, or, for "execute" and "batch", a point in the     *)
(* middle of a turn, where no other task of the bot can step. The HF pass   *)
(* is awaited by the pass loop, so there is one; recovery ticks are started *)
(* between HF passes and not awaited, so they overlap HF passes and, when   *)
(* slow, each other.                                                        *)
(***************************************************************************)
EXTENDS Integers, FiniteSets

CONSTANTS
    Routes,                 \* route keys of the candidates
    Cancel,                 \* the "route" of a 0-value cancellation
    MaxNonce, MaxStale, None,   \* as in NonceManager
    Ticks,                  \* concurrent recovery ticks
    MaxFailures,            \* consecutiveStaleFailures at which a tick
                            \* resyncs: 3 in the code
    MevEnabled,             \* mev.enabled and a victim signal was seen
    PublicBackrunFallback,  \* mev.publicBackrunFallback
    InclusionMayFail        \* RPC calls of the inclusion wait may throw

ASSUME ExecutionAssumption ==
    /\ Cancel \notin Routes
    /\ MaxNonce \in Nat
    /\ MaxStale \in Nat \ {0}
    /\ None \notin Nat
    /\ None \notin [nonce : 0..MaxNonce, route : Routes \union {Cancel}]
    /\ MaxFailures \in Nat \ {0}
    /\ {MevEnabled, PublicBackrunFallback, InclusionMayFail} \subseteq BOOLEAN

VARIABLES
    localNonce, pendingCount, inFlight, staleNonces, staleOrder, recovering,
    issued, everIssued, dropped,    \* the NonceManager and its history
    hfPc,           \* where the HF pass is
    todo,           \* routes of the group not handled yet
    current,        \* the transaction being submitted or waited for, or None
    waiting,        \* transactions of a batch waiting for a receipt
    inFlightRoutes, \* keys of inFlightRouteHashes
    quarantined,    \* routes the quarantine refuses
    staleFailures,  \* consecutiveStaleFailures, counted up to MaxFailures
    gasKnown,       \* the gas oracle has a snapshot
    tickPc,         \* [Ticks -> where the tick is]
    tickRead,       \* [Ticks -> the transaction count a resync read, or None]
    transit,        \* transactions sent, not yet accepted by any node
    pool,           \* transactions in the network's mempool
    mined,          \* transactions in the chain
    recorded,       \* transactions whose outcome is in the tracker
    forgotten,      \* history: stale nonces dropped by a confirmation
    givenUp,        \* history: nonces ever marked stale
    leaked          \* history: nonces left unsettled by a failed inclusion wait

NM == INSTANCE NonceManager WITH Tasks <- Ticks

managerVars == <<localNonce, pendingCount, inFlight, staleNonces, staleOrder,
                 recovering, issued, everIssued, dropped>>
hfVars == <<hfPc, todo, current, waiting>>
routeVars == <<inFlightRoutes, quarantined, recorded>>
tickVars == <<tickPc, tickRead>>
netVars == <<transit, pool, mined>>
historyVars == <<forgotten, givenUp, leaked>>
vars == <<managerVars, hfVars, routeVars, tickVars, netVars, historyVars,
          staleFailures, gasKnown>>

Txs == [nonce : 0..MaxNonce, route : Routes \union {Cancel}]
Tx(n, r) == [nonce |-> n, route |-> r]

\* The account's transactions are mined in nonce order, so this is its nonce.
chainNonce == Cardinality(mined)

InAir == transit \union pool

Minable == {tx \in InAir : tx.nonce >= chainNonce}

\* Other tasks of the event loop can take a turn.
AtAwait == hfPc \notin {"execute", "batch"}

Init ==
    /\ NM!Init
    /\ hfPc = "idle" /\ todo = {} /\ current = None /\ waiting = {}
    /\ inFlightRoutes = {} /\ quarantined = {} /\ recorded = {}
    /\ staleFailures = 0 /\ gasKnown = FALSE
    /\ tickPc = [t \in Ticks |-> "idle"]
    /\ tickRead = [t \in Ticks |-> None]
    /\ transit = {} /\ pool = {} /\ mined = {}
    /\ forgotten = {} /\ givenUp = {} /\ leaked = {}

-----------------------------------------------------------------------------
(* Calls of the nonce manager, with the history of what they lose.          *)

\* Mutant: the caller forgets to mark the nonce in flight.
ReserveForUnmarked(r) ==
    /\ NM!expectedNextNonce \in 0..MaxNonce
    /\ pendingCount' = pendingCount + 1
    /\ issued' = issued \union {NM!expectedNextNonce}
    /\ everIssued' = everIssued \union {NM!expectedNextNonce}
    /\ current' = Tx(NM!expectedNextNonce, r)
    /\ transit' = transit \union {Tx(NM!expectedNextNonce, r)}
    /\ UNCHANGED <<localNonce, inFlight, staleNonces, staleOrder, recovering,
                   dropped, pool, mined, historyVars>>

ReserveFor(r) ==
    /\ NM!Reserve
    /\ current' = Tx(NM!expectedNextNonce, r)
    /\ transit' = transit \union {Tx(NM!expectedNextNonce, r)}
    /\ UNCHANGED <<pool, mined, historyVars>>

ConfirmNonce(n) ==
    /\ NM!Confirm(n)
    /\ forgotten' = forgotten \union (staleNonces \ staleNonces')
    /\ UNCHANGED <<givenUp, leaked>>

MarkStale(n) ==
    /\ NM!Stale(n)
    /\ givenUp' = givenUp \union {n}
    /\ UNCHANGED <<forgotten, leaked>>

KeepManager == UNCHANGED <<managerVars, historyVars>>

-----------------------------------------------------------------------------
(* Start-up, gas and quarantine backoff.                                    *)

\* ExecutionService.start() awaits NonceManager.initialize().
Start ==
    /\ localNonce = None
    /\ NM!Resync(chainNonce)
    /\ UNCHANGED <<hfVars, routeVars, tickVars, netVars, historyVars,
                   staleFailures, gasKnown>>

\* The oracle keeps its last snapshot, so it is never unknown again.
GasArrives ==
    /\ ~gasKnown /\ AtAwait
    /\ gasKnown' = TRUE
    /\ UNCHANGED <<managerVars, hfVars, routeVars, tickVars, netVars,
                   historyVars, staleFailures>>

\* A quarantine backoff ends.
QuarantineExpires(r) ==
    /\ r \in quarantined
    /\ quarantined' = quarantined \ {r}
    /\ UNCHANGED <<managerVars, hfVars, inFlightRoutes, recorded, tickVars,
                   netVars, historyVars, staleFailures, gasKnown>>

\* A route's mark is 35 s old: the next look at the map deletes it.
InFlightRouteExpires(r) ==
    /\ r \in inFlightRoutes
    /\ inFlightRoutes' = inFlightRoutes \ {r}
    /\ UNCHANGED <<managerVars, hfVars, quarantined, recorded, tickVars,
                   netVars, historyVars, staleFailures, gasKnown>>

-----------------------------------------------------------------------------
(* The HF pass: one group at a time.                                        *)

HfRest == UNCHANGED <<tickVars, gasKnown>>

\* Back in the group loop with nothing pending.
GroupDone ==
    /\ hfPc' = "idle"
    /\ todo' = {}
    /\ current' = None
    /\ waiting' = {}

\* Mutants: the timeout path returns before the mark is deleted; a revert is
\* quarantined but not recorded.
FinalizeKeepsMark(tx, outcome) ==
    \/ /\ outcome = "timeout"
       /\ UNCHANGED <<inFlightRoutes, quarantined, recorded>>
    \/ /\ outcome # "timeout"
       /\ inFlightRoutes' = inFlightRoutes \ {tx.route}
       /\ recorded' = recorded \union {tx}
       /\ UNCHANGED quarantined

FinalizeSuccessOnly(tx, outcome) ==
    /\ inFlightRoutes' = inFlightRoutes \ {tx.route}
    /\ recorded' = IF outcome = "success" THEN recorded \union {tx} ELSE recorded
    /\ UNCHANGED quarantined

\* finalizeFromReceipt
Finalize(tx, outcome) ==
    /\ inFlightRoutes' = inFlightRoutes \ {tx.route}
    /\ \/ /\ outcome = "timeout"
          /\ UNCHANGED <<quarantined, recorded>>
       \/ /\ outcome = "reverted"
          /\ quarantined' = quarantined \union {tx.route}
          /\ recorded' = recorded \union {tx}
       \/ /\ outcome = "success"
          /\ quarantined' = quarantined \ {tx.route}
          /\ recorded' = recorded \union {tx}

\* Mutant: the poller has no deadline.
ReceiptOutcomeNoDeadline(tx, outcome) == tx \in mined /\ outcome # "timeout"

\* ReceiptPoller.wait: the receipt of a mined transaction, or null at any
\* time (deadline, five hard errors in a row, or abort).
ReceiptOutcome(tx, outcome) == outcome # "timeout" => tx \in mined

Outcomes == {"timeout", "reverted", "success"}

\* The nonces a group may need: one per route, and one more for a bundle.
NoncesLeft(G) ==
    /\ localNonce # None
    /\ NM!expectedNextNonce + Cardinality(G) <= MaxNonce

\* The loop takes the next group; a single route goes to execute(), more to
\* batchExecute(), unless a bundle is tried first.
StartGroup(G) ==
    /\ hfPc = "idle"
    /\ NoncesLeft(G)
    /\ ~(MevEnabled /\ Cardinality(G) = 1 /\ gasKnown)
    /\ hfPc' = IF Cardinality(G) = 1 THEN "execute" ELSE "batch"
    /\ todo' = G
    /\ KeepManager
    /\ UNCHANGED <<current, waiting, routeVars, netVars, staleFailures>>
    /\ HfRest

-----------------------------------------------------------------------------
(* execute()                                                                *)

\* Refused before anything changed: quarantined, in flight or no gas data.
ExecuteRefused(r) ==
    /\ hfPc = "execute" /\ r \in todo
    /\ r \in quarantined \/ r \in inFlightRoutes \/ ~gasKnown
    /\ GroupDone
    /\ KeepManager
    /\ UNCHANGED <<routeVars, netVars, staleFailures>>
    /\ HfRest

\* The route is marked, a nonce taken and the submission started in one turn.
ExecuteSubmit(r) ==
    /\ hfPc = "execute" /\ r \in todo
    /\ r \notin quarantined /\ r \notin inFlightRoutes /\ gasKnown
    /\ ReserveFor(r)
    /\ inFlightRoutes' = inFlightRoutes \union {r}
    /\ hfPc' = "submit"
    /\ todo' = {}
    /\ UNCHANGED <<waiting, quarantined, recorded, staleFailures>>
    /\ HfRest

\* A node has the transaction; it may have had it for a while.
Accepted(tx) ==
    \/ /\ tx \in transit
       /\ tx.nonce >= chainNonce
       /\ transit' = transit \ {tx}
       /\ pool' = pool \union {tx}
       /\ UNCHANGED mined
    \/ /\ tx \in pool \union mined
       /\ UNCHANGED netVars

\* submit() resolved: the nonce is confirmed, before anything is mined.
ExecuteSubmitted ==
    /\ hfPc = "submit"
    /\ Accepted(current)
    /\ ConfirmNonce(current.nonce)
    /\ hfPc' = "receipt"
    /\ UNCHANGED <<todo, current, waiting, routeVars, staleFailures>>
    /\ HfRest

\* submit() threw. The transaction may still be on its way.
ExecuteFailed ==
    /\ hfPc = "submit"
    /\ MarkStale(current.nonce)
    /\ inFlightRoutes' = inFlightRoutes \ {current.route}
    /\ quarantined' = quarantined \union {current.route}
    /\ GroupDone
    /\ UNCHANGED <<recorded, netVars, staleFailures>>
    /\ HfRest

\* The receipt of execute()'s transaction.
ExecuteReceipt(outcome) ==
    /\ hfPc = "receipt"
    /\ ReceiptOutcome(current, outcome)
    /\ Finalize(current, outcome)
    /\ \/ /\ outcome = "timeout"
          /\ MarkStale(current.nonce)
          /\ staleFailures' = IF staleFailures < MaxFailures
                              THEN staleFailures + 1 ELSE staleFailures
       \/ /\ outcome # "timeout"
          /\ KeepManager
          /\ UNCHANGED staleFailures
    /\ GroupDone
    /\ UNCHANGED netVars
    /\ HfRest

-----------------------------------------------------------------------------
(* batchExecute(): submissions one after another, then all receipts at once *)

BatchSkip(r) ==
    /\ hfPc = "batch" /\ r \in todo
    /\ r \in quarantined \/ r \in inFlightRoutes \/ ~gasKnown
    /\ todo' = todo \ {r}
    /\ KeepManager
    /\ UNCHANGED <<hfPc, current, waiting, routeVars, netVars, staleFailures>>
    /\ HfRest

BatchSubmit(r) ==
    /\ hfPc = "batch" /\ r \in todo
    /\ r \notin quarantined /\ r \notin inFlightRoutes /\ gasKnown
    /\ ReserveFor(r)
    /\ inFlightRoutes' = inFlightRoutes \union {r}
    /\ hfPc' = "batchSubmit"
    /\ todo' = todo \ {r}
    /\ UNCHANGED <<waiting, quarantined, recorded, staleFailures>>
    /\ HfRest

BatchSubmitted ==
    /\ hfPc = "batchSubmit"
    /\ Accepted(current)
    /\ ConfirmNonce(current.nonce)
    /\ waiting' = waiting \union {current}
    /\ hfPc' = "batch"
    /\ current' = None
    /\ UNCHANGED <<todo, routeVars, staleFailures>>
    /\ HfRest

\* The submission threw, or took 5 s: it goes on without anybody listening.
BatchSubmitFailed ==
    /\ hfPc = "batchSubmit"
    /\ MarkStale(current.nonce)
    /\ inFlightRoutes' = inFlightRoutes \ {current.route}
    /\ quarantined' = quarantined \union {current.route}
    /\ hfPc' = "batch"
    /\ current' = None
    /\ UNCHANGED <<todo, waiting, recorded, netVars, staleFailures>>
    /\ HfRest

\* Every candidate was handled: wait for the receipts.
BatchAllSubmitted ==
    /\ hfPc = "batch" /\ todo = {}
    /\ IF waiting = {} THEN GroupDone
       ELSE hfPc' = "batchReceipts" /\ UNCHANGED <<todo, current, waiting>>
    /\ KeepManager
    /\ UNCHANGED <<routeVars, netVars, staleFailures>>
    /\ HfRest

\* Mutant: a timeout is finalized but its nonce is not marked stale.
BatchReceiptKeepsNonce(tx, outcome) ==
    /\ hfPc = "batchReceipts" /\ tx \in waiting
    /\ ReceiptOutcome(tx, outcome)
    /\ Finalize(tx, outcome)
    /\ KeepManager
    /\ IF waiting = {tx} THEN GroupDone
       ELSE waiting' = waiting \ {tx} /\ UNCHANGED <<hfPc, todo, current>>
    /\ UNCHANGED <<netVars, staleFailures>>
    /\ HfRest

\* One of the receipts; a timeout marks the nonce but counts no failure.
BatchReceipt(tx, outcome) ==
    /\ hfPc = "batchReceipts" /\ tx \in waiting
    /\ ReceiptOutcome(tx, outcome)
    /\ Finalize(tx, outcome)
    /\ IF outcome = "timeout" THEN MarkStale(tx.nonce) ELSE KeepManager
    /\ IF waiting = {tx} THEN GroupDone
       ELSE waiting' = waiting \ {tx} /\ UNCHANGED <<hfPc, todo, current>>
    /\ UNCHANGED <<netVars, staleFailures>>
    /\ HfRest

-----------------------------------------------------------------------------
(* The MEV path of a single route.                                          *)

\* A nonce is reserved and the bundle sent to the relay; neither quarantine
\* nor the in-flight marks are looked at.
BundleSubmit(r) ==
    /\ hfPc = "idle"
    /\ MevEnabled /\ gasKnown
    /\ NoncesLeft({r})
    /\ ReserveFor(r)
    /\ hfPc' = "bundle"
    /\ todo' = {r}
    /\ UNCHANGED <<waiting, routeVars, staleFailures>>
    /\ HfRest

\* The relay refused: the nonce is released and execute() called, in the same
\* turn, whether the fallback is configured ("public_fallback") or not
\* ("skipped").
BundleRejected ==
    /\ hfPc = "bundle"
    /\ MarkStale(current.nonce)
    /\ hfPc' = "execute"
    /\ current' = None
    /\ UNCHANGED <<todo, waiting, routeVars, netVars, staleFailures>>
    /\ HfRest

BundleAccepted ==
    /\ hfPc = "bundle"
    /\ hfPc' = "inclusion"
    /\ KeepManager
    /\ UNCHANGED <<todo, current, waiting, routeVars, netVars, staleFailures>>
    /\ HfRest

\* waitForBundledBackrunTx found the transaction: confirmExecution marks the
\* route and waits for the receipt, unless the route is marked already.
BundleIncluded ==
    /\ hfPc = "inclusion"
    /\ current \in mined
    /\ IF current.route \in inFlightRoutes THEN GroupDone
       ELSE hfPc' = "bundleReceipt" /\ UNCHANGED <<todo, current, waiting>>
    /\ inFlightRoutes' = inFlightRoutes \union {current.route}
    /\ KeepManager
    /\ UNCHANGED <<quarantined, recorded, netVars, staleFailures>>
    /\ HfRest

\* Mutant: without the fallback the reserved nonce is not released.
BundleTimedOutKeepsNonce ==
    /\ hfPc = "inclusion"
    /\ IF PublicBackrunFallback
       THEN /\ MarkStale(current.nonce)
            /\ hfPc' = "execute" /\ current' = None /\ UNCHANGED <<todo, waiting>>
       ELSE KeepManager /\ GroupDone
    /\ UNCHANGED <<routeVars, netVars, staleFailures>>
    /\ HfRest

\* It did not (victim not seen in time, or its block has no such call).
BundleTimedOut ==
    /\ hfPc = "inclusion"
    /\ MarkStale(current.nonce)
    /\ IF PublicBackrunFallback
       THEN hfPc' = "execute" /\ current' = None /\ UNCHANGED <<todo, waiting>>
       ELSE GroupDone
    /\ UNCHANGED <<routeVars, netVars, staleFailures>>
    /\ HfRest

\* An RPC error other than "not found" leaves buildAndExecuteCandidates.
InclusionFailed ==
    /\ InclusionMayFail
    /\ hfPc = "inclusion"
    /\ leaked' = leaked \union {current.nonce}
    /\ GroupDone
    /\ UNCHANGED <<managerVars, forgotten, givenUp, routeVars, netVars,
                   staleFailures>>
    /\ HfRest

\* confirmExecution's receipt settles the reserved nonce.
BundleReceipt(outcome) ==
    /\ hfPc = "bundleReceipt"
    /\ ReceiptOutcome(current, outcome)
    /\ Finalize(current, outcome)
    /\ IF outcome = "success" THEN ConfirmNonce(current.nonce)
       ELSE MarkStale(current.nonce)
    /\ GroupDone
    /\ UNCHANGED <<netVars, staleFailures>>
    /\ HfRest

-----------------------------------------------------------------------------
(* tickNonceRecovery(): started between HF passes.                          *)

TickRest == UNCHANGED <<hfVars, routeVars, gasKnown>>

\* There are stale nonces: the stuck-transaction handler is given the oldest,
\* and broadcasts a cancellation.
TickRecover(t) ==
    /\ tickPc[t] = "idle" /\ hfPc = "idle"
    /\ gasKnown
    /\ NM!RecoverStart(t)
    /\ tickPc' = [tickPc EXCEPT ![t] = "recovering"]
    /\ transit' = transit \union {Tx(recovering'[t], Cancel)}
    /\ UNCHANGED <<tickRead, pool, mined, historyVars, staleFailures>>
    /\ TickRest

\* The handler swallows every error, so recoverStale returns true.
TickRecovered(t) ==
    /\ tickPc[t] = "recovering" /\ AtAwait
    /\ NM!RecoverDone(t)
    /\ tickPc' = [tickPc EXCEPT ![t] = "idle"]
    /\ staleFailures' = 0
    /\ UNCHANGED <<tickRead, netVars, historyVars>>
    /\ TickRest

\* No stale nonce, but three failures: resync() asks the node.
TickResync(t) ==
    /\ tickPc[t] = "idle" /\ hfPc = "idle"
    /\ gasKnown /\ localNonce # None
    /\ staleNonces = {}
    /\ staleFailures >= MaxFailures
    /\ tickPc' = [tickPc EXCEPT ![t] = "resync"]
    /\ KeepManager
    /\ UNCHANGED <<tickRead, netVars, staleFailures>>
    /\ TickRest

\* What the node may answer: it need not know the transactions sent to private
\* relays, so it counts any number of the pending ones that follow the mined.
CountableNonces ==
    {n \in chainNonce..MaxNonce :
        \A m \in chainNonce..n - 1 : \E tx \in pool : tx.nonce = m}

\* The node answers.
TickReads(t) ==
    /\ tickPc[t] = "resync" /\ tickRead[t] = None
    /\ \E n \in CountableNonces : tickRead' = [tickRead EXCEPT ![t] = n]
    /\ KeepManager
    /\ UNCHANGED <<tickPc, netVars, staleFailures>>
    /\ TickRest

\* The answer arrives.
TickResynced(t) ==
    /\ tickPc[t] = "resync" /\ tickRead[t] # None /\ AtAwait
    /\ NM!Resync(tickRead[t])
    /\ tickPc' = [tickPc EXCEPT ![t] = "idle"]
    /\ tickRead' = [tickRead EXCEPT ![t] = None]
    /\ staleFailures' = 0
    /\ UNCHANGED <<netVars, historyVars>>
    /\ TickRest

\* Three attempts failed; the pass loop logs the error.
TickResyncFailed(t) ==
    /\ tickPc[t] = "resync" /\ AtAwait
    /\ tickPc' = [tickPc EXCEPT ![t] = "idle"]
    /\ tickRead' = [tickRead EXCEPT ![t] = None]
    /\ KeepManager
    /\ UNCHANGED <<netVars, staleFailures>>
    /\ TickRest

-----------------------------------------------------------------------------
(* The network.                                                             *)

BotRest == UNCHANGED <<managerVars, hfVars, routeVars, tickVars, historyVars,
                       staleFailures, gasKnown>>

\* A submission arrives at a node that still takes its nonce.
Deliver(tx) ==
    /\ tx \in transit
    /\ tx.nonce >= chainNonce
    /\ transit' = transit \ {tx}
    /\ pool' = pool \union {tx}
    /\ UNCHANGED mined
    /\ BotRest

\* A submission is lost or refused.
Lose(tx) ==
    /\ tx \in transit
    /\ transit' = transit \ {tx}
    /\ UNCHANGED <<pool, mined>>
    /\ BotRest

\* A mempool drops a transaction (underpriced, expired, restart).
Evict(tx) ==
    /\ tx \in pool
    /\ pool' = pool \ {tx}
    /\ UNCHANGED <<transit, mined>>
    /\ BotRest

\* A block includes the account's next transaction; others of its nonce die.
Mine(tx) ==
    /\ tx \in pool
    /\ tx.nonce = chainNonce
    /\ mined' = mined \union {tx}
    /\ pool' = {other \in pool : other.nonce > tx.nonce}
    /\ UNCHANGED transit
    /\ BotRest

-----------------------------------------------------------------------------
Execute ==
    \/ \E r \in Routes : ExecuteRefused(r) \/ ExecuteSubmit(r)
    \/ ExecuteSubmitted
    \/ ExecuteFailed
    \/ \E outcome \in Outcomes : ExecuteReceipt(outcome)

Batch ==
    \/ \E r \in Routes : BatchSkip(r) \/ BatchSubmit(r)
    \/ BatchSubmitted
    \/ BatchSubmitFailed
    \/ BatchAllSubmitted
    \/ \E tx \in waiting, outcome \in Outcomes : BatchReceipt(tx, outcome)

\* What the HF pass does once it has taken a bundle's nonce.
Bundle ==
    \/ BundleRejected
    \/ BundleAccepted
    \/ BundleIncluded
    \/ BundleTimedOut
    \/ InclusionFailed
    \/ \E outcome \in Outcomes : BundleReceipt(outcome)

\* What the HF pass does with a group it has started.
GroupStep == Execute \/ Batch \/ Bundle

TickStart(t) == TickRecover(t) \/ TickResync(t)
TickStep(t) ==
    TickRecovered(t) \/ TickReads(t) \/ TickResynced(t) \/ TickResyncFailed(t)

Network ==
    \/ \E tx \in transit : Deliver(tx) \/ Lose(tx)
    \/ \E tx \in pool : Evict(tx) \/ Mine(tx)

Next ==
    \/ Start
    \/ GasArrives
    \/ \E r \in Routes :
          QuarantineExpires(r) \/ InFlightRouteExpires(r) \/ BundleSubmit(r)
    \/ \E G \in SUBSET Routes \ {{}} : StartGroup(G)
    \/ GroupStep
    \/ \E t \in Ticks : TickStart(t) \/ TickStep(t)
    \/ Network

Spec == Init /\ [][Next]_vars

\* Submissions answer or throw and receipt waits have a deadline, so a started
\* group goes on; a started tick goes on; the pass loop starts a tick after
\* every HF pass (5 s apart), so one that can start again and again does.
Fairness ==
    /\ WF_vars(Start)
    /\ WF_vars(GasArrives)
    /\ WF_vars(GroupStep)
    /\ \A t \in Ticks : WF_vars(TickStep(t)) /\ SF_vars(TickStart(t))

FairSpec == Spec /\ Fairness

-----------------------------------------------------------------------------
(* Properties.                                                              *)

\* The control state agrees with the data: a transaction is current exactly at
\* the await points that are about one, only a batch waits for several, and a
\* tick is recovering exactly while recoverStale runs for it.
ControlOK ==
    /\ current # None <=> hfPc \in {"submit", "receipt", "batchSubmit", "bundle",
                                   "inclusion", "bundleReceipt"}
    /\ waiting # {} => hfPc \in {"batch", "batchSubmit", "batchReceipts"}
    /\ \A t \in Ticks : tickPc[t] = "recovering" <=> recovering[t] # None

\* Types of what NonceManager does not type, and control agreeing with data.
TypeOK ==
    /\ ControlOK
    /\ hfPc \in {"idle", "execute", "submit", "receipt", "batch", "batchSubmit",
                 "batchReceipts", "bundle", "inclusion", "bundleReceipt"}
    /\ todo \in SUBSET Routes
    /\ current \in Txs \union {None}
    /\ waiting \in SUBSET Txs
    /\ inFlightRoutes \in SUBSET Routes
    /\ quarantined \in SUBSET Routes
    /\ recorded \in SUBSET Txs
    /\ staleFailures \in 0..MaxFailures
    /\ gasKnown \in BOOLEAN
    /\ tickPc \in [Ticks -> {"idle", "recovering", "resync"}]
    /\ tickRead \in [Ticks -> 0..MaxNonce \union {None}]
    /\ transit \in SUBSET Txs
    /\ pool \in SUBSET Txs
    /\ mined \in SUBSET Txs
    /\ {forgotten, givenUp, leaked} \subseteq SUBSET (0..MaxNonce)

\* The transactions the HF pass has not finished with.
Held == waiting \union (IF current = None THEN {} ELSE {current})

HeldNonces == {tx.nonce : tx \in Held}

Covered(n) == n < chainNonce \/ \E tx \in InAir : tx.nonce = n

\* A route's in-flight mark never outlives the transaction it was set for, on
\* any path out of execute, batchExecute and confirmExecution (a mark left
\* behind would refuse the route for 35 s).
InFlightRouteHeld == inFlightRoutes \subseteq {tx.route : tx \in Held}

\* Likewise every nonce in flight is held by the pass, or was left behind by a
\* failed inclusion wait: between groups nothing else is in flight.
InFlightNonceHeld == inFlight \subseteq HeldNonces \union leaked

\* Every nonce handed out since the last resync and not mined is accounted
\* for: its transaction is being submitted or waited for, or it waits for
\* recovery, or it left through one of the three doors recovery/eviction
\* (dropped), a later confirmation (forgotten), a failed inclusion (leaked).
NonceAccounted ==
    \A n \in issued :
        \/ n < chainNonce
        \/ n \in HeldNonces
        \/ n \in staleNonces \union dropped \union forgotten \union leaked

\* The tracker misses no trade that was mined, except one whose nonce the bot
\* gave up (a timeout or an error answer to a submission that landed).
MinedTradeRecorded ==
    \A tx \in mined :
        \/ tx.route = Cancel
        \/ tx \in recorded \union Held
        \/ tx.nonce \in givenUp \union leaked

\* Two transactions of one route can both still be mined only if the bot gave
\* up the nonce of one of them: this is what the in-flight marks and the
\* quarantine leave possible.  (A resync whose answer arrives late hands mined
\* nonces out again; what is submitted under them can never be mined.)
RouteTwiceOnlyIfGivenUp ==
    \A tx1, tx2 \in Minable :
        tx1.route = tx2.route /\ tx1.route # Cancel /\ tx1 # tx2
            => {tx1.nonce, tx2.nonce} \intersect (givenUp \union leaked) # {}

\* The service uses the manager as NonceManager.tla allows, so what is proved
\* there of the manager on its own holds here.
ManagerSpec == NM!Spec

\* Each group is finished: the HF loop is not stuck on one.
GroupFinishes == hfPc # "idle" ~> hfPc = "idle"

\* How a stale nonce leaves the recovery set without a cancellation: it is the
\* oldest of a set that overflows, a later confirmation sweeps it out, or a
\* resync forgets the nonces handed out.
LeftUncancelled(n) ==
    \/ n \in dropped /\ Cardinality(staleNonces) = MaxStale
    \/ n \in forgotten
    \/ n \notin issued

\* Each stale nonce gets its turn: one that no tick is recovering yet has a
\* cancellation of it broadcast, or leaves the set uncancelled.  The oldest goes first, a recovery that
\* is over frees the place, and new ones do not starve the others.  That the
\* cancellation arrives is not claimed: the handler swallows its errors
\* (boot.ts:170-189), and the nonce is dropped from the set all the same.
StaleCancelled ==
    \A n \in 0..MaxNonce :
        n \in staleNonces /\ (\A t \in Ticks : recovering[t] # n)
            ~> Tx(n, Cancel) \in transit \/ LeftUncancelled(n)

-----------------------------------------------------------------------------
(* Statements of the repository that the code does not keep.                *)

\* README.md:117, "Stale nonces are recovered automatically every ~5s": a
\* confirmation drops a stale nonce only if the nonce is mined or some
\* transaction is on its way to fill it.
ConfirmDropsOnlyCovered ==
    [][\A n \in forgotten' \ forgotten : Covered(n)]_vars

\* service.ts:164, "Caller must call releaseExternalNonce on timeout/failure
\* or confirmExternalNonce on inclusion": between groups no external nonce is
\* left unsettled.
ExternalNonceSettled == hfPc = "idle" => inFlight = {}
=============================================================================
