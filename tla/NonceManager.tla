---------------------------- MODULE NonceManager ----------------------------
(***************************************************************************)
(* The NonceManager of src/src/services/execution/nonce.ts: the counter of *)
(* the operator account (localNonce + pendingCount), the set of nonces of   *)
(* transactions being submitted and the bounded, insertion-ordered set of  *)
(* nonces waiting for recovery.                                             *)
(*                                                                         *)
(* The operators of the first half are the methods, as state changes that  *)
(* ExecutionService.tla conjoins with the steps of the callers. The second *)
(* half is the manager on its own, its methods called in any order: the    *)
(* manager keeps no record of who holds a nonce, so whatever it promises   *)
(* it must promise for every order.                                         *)
(*                                                                         *)
(* JavaScript's Set iterates in insertion order. It is a set (staleNonces) *)
(* and the pairs <<m, n>> of its members with m inserted before n          *)
(* (staleOrder).                                                            *)
(***************************************************************************)
EXTENDS Integers, FiniteSets

CONSTANTS
    MaxNonce,   \* bound of the model: the largest nonce handed out
    MaxStale,   \* maxStaleNonces: 20 in the code
    Tasks,      \* concurrent calls of recoverStale
    None        \* null: the counter before initialize(), a task's nonce

ASSUME NonceManagerAssumption ==
    /\ MaxNonce \in Nat
    /\ MaxStale \in Nat \ {0}
    /\ None \notin Nat

VARIABLES
    localNonce,     \* null, or one past the largest confirmed nonce
    pendingCount,   \* nonces handed out from localNonce on
    inFlight,       \* nonces of submissions that have not been settled
    staleNonces,    \* nonces whose transaction may be stuck
    staleOrder,     \* insertion order of staleNonces
    recovering      \* [Tasks -> nonce a running recoverStale captured]

managerVars ==
    <<localNonce, pendingCount, inFlight, staleNonces, staleOrder, recovering>>

\* A confirmation after a resync may jump one past the largest nonce.
Nonces == 0..MaxNonce

expectedNextNonce ==
    IF localNonce = None THEN None ELSE localNonce + pendingCount

-----------------------------------------------------------------------------
(* Insertion-ordered sets: one operator per method of Set.                  *)

\* The order once n is added: unchanged if n is there already.
OrderAfterAdd(n) ==
    IF n \in staleNonces THEN staleOrder
    ELSE staleOrder \union (staleNonces \X {n})

OrderWithin(order, S) == order \intersect (S \X S)

IsOldest(n, S, order) == n \in S /\ \A m \in S : <<m, n>> \notin order

SetStale(S, order) ==
    /\ staleNonces' = S
    /\ staleOrder' = OrderWithin(order, S)

-----------------------------------------------------------------------------
(* The methods.                                                             *)

ManagerInit ==
    /\ localNonce = None
    /\ pendingCount = 0
    /\ inFlight = {}
    /\ staleNonces = {}
    /\ staleOrder = {}
    /\ recovering = [t \in Tasks |-> None]

\* initialize() and resync() once fetchNonce has answered c.
ResyncTo(c) ==
    /\ localNonce' = c
    /\ pendingCount' = 0
    /\ inFlight' = {}
    /\ staleNonces' = {}
    /\ staleOrder' = {}

\* Mutant: the number is returned but not counted.
ReserveNonceUncounted ==
    /\ localNonce # None
    /\ inFlight' = inFlight \union {expectedNextNonce}
    /\ UNCHANGED <<localNonce, pendingCount, staleNonces, staleOrder>>

\* getNextNonce() and the markInFlight() every caller makes in the same turn.
ReserveNonce ==
    /\ localNonce # None
    /\ pendingCount' = pendingCount + 1
    /\ inFlight' = inFlight \union {expectedNextNonce}
    /\ UNCHANGED <<localNonce, staleNonces, staleOrder>>

\* Mutant: confirming clears the whole recovery set.
StaleAfterConfirmNone(n) == {}

\* Confirming n drops every stale nonce at or below n.
StaleAfterConfirm(n) == {m \in staleNonces : m > n}

\* Mutants: the count of pending nonces is not kept from going negative, and
\* the count is reset although later nonces are pending.
ConfirmNonceUnclamped(n) ==
    /\ inFlight' = inFlight \ {n}
    /\ localNonce # None /\ n >= localNonce
    /\ localNonce' = n + 1
    /\ pendingCount' = pendingCount - (n - localNonce + 1)
    /\ SetStale(StaleAfterConfirm(n), staleOrder)

ConfirmNonceResets(n) ==
    /\ inFlight' = inFlight \ {n}
    /\ localNonce # None /\ n >= localNonce
    /\ localNonce' = n + 1
    /\ pendingCount' = 0
    /\ SetStale(StaleAfterConfirm(n), staleOrder)

\* confirmNonce(n)
ConfirmNonce(n) ==
    /\ inFlight' = inFlight \ {n}
    /\ \/ /\ localNonce # None
          /\ n >= localNonce
          /\ localNonce' = n + 1
          /\ LET confirmedCount == n - localNonce + 1
             IN  pendingCount' = IF pendingCount > confirmedCount
                                 THEN pendingCount - confirmedCount ELSE 0
          /\ SetStale(StaleAfterConfirm(n), staleOrder)
       \/ /\ localNonce = None \/ n < localNonce
          /\ UNCHANGED <<localNonce, pendingCount, staleNonces, staleOrder>>

\* The set is one over its limit once n is added.
Overfull(n) == Cardinality(staleNonces \union {n}) > MaxStale

\* markStale(n): n is recorded, and the oldest entry of a full set is dropped.
MarkStale(n) ==
    /\ inFlight' = inFlight \ {n}
    /\ UNCHANGED <<localNonce, pendingCount>>
    /\ \/ /\ ~Overfull(n)
          /\ SetStale(staleNonces \union {n}, OrderAfterAdd(n))
       \/ /\ Overfull(n)
          /\ \E oldest \in staleNonces \union {n} :
                /\ IsOldest(oldest, staleNonces \union {n}, OrderAfterAdd(n))
                /\ SetStale((staleNonces \union {n}) \ {oldest}, OrderAfterAdd(n))

\* recoverStale() up to the await of the stuck-transaction handler.
RecoverStaleStart(t) ==
    /\ recovering[t] = None
    /\ \E oldest \in staleNonces :
          /\ IsOldest(oldest, staleNonces, staleOrder)
          /\ recovering' = [recovering EXCEPT ![t] = oldest]
    /\ UNCHANGED <<localNonce, pendingCount, inFlight, staleNonces, staleOrder>>

\* Mutant: the recovered nonce is left in the set.
RecoverStaleDoneKeeps(t) ==
    /\ recovering[t] # None
    /\ recovering' = [recovering EXCEPT ![t] = None]
    /\ UNCHANGED <<localNonce, pendingCount, inFlight, staleNonces, staleOrder>>

\* recoverStale() once the handler returned: the captured nonce is dropped,
\* whatever happened to the set meanwhile.
RecoverStaleDone(t) ==
    /\ recovering[t] # None
    /\ recovering' = [recovering EXCEPT ![t] = None]
    /\ SetStale(staleNonces \ {recovering[t]}, staleOrder)
    /\ UNCHANGED <<localNonce, pendingCount, inFlight>>

\* recoverStale() once the handler threw.
RecoverStaleFailed(t) ==
    /\ recovering[t] # None
    /\ recovering' = [recovering EXCEPT ![t] = None]
    /\ UNCHANGED <<localNonce, pendingCount, inFlight, staleNonces, staleOrder>>

-----------------------------------------------------------------------------
(* The manager on its own. Three history variables, not read by any method, *)
(* let the properties speak of the past.                                    *)

VARIABLES
    issued,     \* nonces handed out since the last initialize or resync
    everIssued, \* nonces ever handed out: a caller may settle any of them
    dropped     \* nonces that left the stale set by recovery or eviction since
                \* the last initialize or resync

vars == <<localNonce, pendingCount, inFlight, staleNonces, staleOrder,
          recovering, issued, everIssued, dropped>>

Init ==
    /\ ManagerInit
    /\ issued = {}
    /\ everIssued = {}
    /\ dropped = {}

\* The chain's answer is any number: it was read some time ago, and other
\* transactions of the account come and go.
Resync(c) ==
    /\ ResyncTo(c)
    /\ issued' = {}
    /\ dropped' = {}
    /\ UNCHANGED <<recovering, everIssued>>

Reserve ==
    /\ expectedNextNonce \in Nonces
    /\ ReserveNonce
    /\ issued' = issued \union {expectedNextNonce}
    /\ everIssued' = everIssued \union {expectedNextNonce}
    /\ UNCHANGED <<recovering, dropped>>

Confirm(n) ==
    /\ ConfirmNonce(n)
    /\ UNCHANGED <<recovering, issued, everIssued, dropped>>

Stale(n) ==
    /\ MarkStale(n)
    /\ dropped' = dropped \union ((staleNonces \union {n}) \ staleNonces')
    /\ UNCHANGED <<recovering, issued, everIssued>>

RecoverStart(t) ==
    /\ RecoverStaleStart(t)
    /\ UNCHANGED <<issued, everIssued, dropped>>

RecoverDone(t) ==
    /\ RecoverStaleDone(t)
    /\ dropped' = dropped \union {recovering[t]}
    /\ UNCHANGED <<issued, everIssued>>

RecoverFailed(t) ==
    /\ RecoverStaleFailed(t)
    /\ UNCHANGED <<issued, everIssued, dropped>>

Next ==
    \/ Reserve
    \/ \E c \in Nonces : Resync(c)
    \/ \E n \in everIssued : Confirm(n) \/ Stale(n)
    \/ \E t \in Tasks : RecoverStart(t) \/ RecoverDone(t) \/ RecoverFailed(t)

Spec == Init /\ [][Next]_vars

-----------------------------------------------------------------------------
(* Properties.                                                              *)

\* No counter before initialize(); at most one past the bound after it.
CounterOK ==
    IF localNonce = None THEN pendingCount = 0
    ELSE localNonce + pendingCount <= MaxNonce + 1

\* The insertion order is a strict total order, so "the oldest" is one nonce.
StaleOrderTotal ==
    \A m, n \in staleNonces :
        /\ m # n => (<<m, n>> \in staleOrder \/ <<n, m>> \in staleOrder)
        /\ <<m, n>> \in staleOrder => <<n, m>> \notin staleOrder

\* Types of the manager's state and of the history, the counter within its
\* bound and the stale set totally ordered (nonce.ts, fields of NonceManager).
TypeOK ==
    /\ localNonce \in 0..MaxNonce + 1 \union {None}
    /\ pendingCount \in 0..MaxNonce + 1
    /\ CounterOK
    /\ inFlight \in SUBSET Nonces
    /\ staleNonces \in SUBSET Nonces
    /\ staleOrder \in SUBSET (staleNonces \X staleNonces)
    /\ StaleOrderTotal
    /\ recovering \in [Tasks -> Nonces \union {None}]
    /\ issued \in SUBSET Nonces
    /\ everIssued \in SUBSET Nonces
    /\ dropped \in SUBSET Nonces

\* A nonce handed out since the last resync is below the counter, so
\* getNextNonce never gives the same nonce to two callers, however
\* confirmations (also late ones, of nonces from before the resync) interleave.
IssuedBelowNext ==
    \A n \in issued : localNonce # None /\ n < localNonce + pendingCount

\* Between the confirmed watermark and the counter no nonce is forgotten: it
\* is being submitted, or waits for recovery, or left the stale set through
\* recovery or the eviction of the oldest. (A forgotten nonce is a gap that
\* no transaction of the bot will ever fill.)
NoNonceForgotten ==
    localNonce # None =>
        \A n \in localNonce..localNonce + pendingCount - 1 :
            n \in inFlight \union staleNonces \union dropped

\* markStale keeps the recovery set at its limit.
StaleBounded == Cardinality(staleNonces) <= MaxStale

\* The manager is a nonce allocator.
Allocator == INSTANCE NonceAllocator
                WITH next <- expectedNextNonce, handed <- issued

\* Every step of the manager is a step of the allocator or changes nothing
\* that its callers see.
AllocatorSpec == Allocator!Spec

=============================================================================
