------------------------- MODULE WebSocketSubscriber -------------------------
(***************************************************************************)
(* The WebSocket subscription to heads and pending transactions             *)
(* (src/src/infra/rpc/websocket_subscriber.ts) against a server whose       *)
(* connections fail.  A failed connection raises an error event and then a  *)
(* close event, and each handler schedules a reconnect: so there may be     *)
(* several timers and several sockets, while the program knows the latest   *)
(* of each.  Handlers act on this.ws, whichever socket they belong to.      *)
(***************************************************************************)
EXTENDS Naturals, FiniteSets

CONSTANTS
  Sockets,      \* bound: sockets not yet closed
  NoSocket,     \* null
  maxReconnects,  \* 10 in the code
  MaxTimers,    \* bound: reconnect timers pending
  MaxQueue,     \* maxPendingTxsPerTick: 10 in rpc/manager.ts
  BatchSize     \* MAX_BATCH_SIZE: 5 in the code

(* What is assumed of them. *)
WebSocketSubscriberConstants ==
  /\ NoSocket \notin Sockets /\ {MaxTimers, MaxQueue, BatchSize} \subseteq Nat
  /\ maxReconnects \in Nat \ {0}

VARIABLES
  running, ws,        \* the fields
  socket,             \* [Sockets -> "closed", "connecting", "open",
                      \* "aborting" or "closing"]
  subscribed,         \* the sockets with a subscription to heads
  timers,             \* reconnect timers pending
  reconnectAttempts,
  pendingTxQueue      \* its length

subscriberVars == <<running, ws, socket, subscribed, timers, reconnectAttempts, pendingTxQueue>>

WebSocketSubscriberInit ==
  /\ running = FALSE /\ ws = NoSocket /\ socket = [s \in Sockets |-> "closed"]
  /\ subscribed = {} /\ timers = 0 /\ reconnectAttempts = 0 /\ pendingTxQueue = 0

-----------------------------------------------------------------------------
(* scheduleReconnect, after n of the timers have fired.                     *)
ScheduleReconnect(n) ==
  IF running' /\ reconnectAttempts < maxReconnects
  THEN timers < MaxTimers + n /\ timers' = timers - n + 1
       /\ reconnectAttempts' = reconnectAttempts + 1
  ELSE timers' = timers - n /\ UNCHANGED reconnectAttempts

(* Mutation: The attempts are counted from the last socket that opened.     *)
ConnectCounting(n) ==
  /\ \E s \in Sockets :
       /\ socket[s] = "closed" /\ ws' = s
       /\ socket' = [socket EXCEPT ![s] = "connecting"]
  /\ timers' = timers - n /\ UNCHANGED reconnectAttempts

(* connect, called by start or by one of the timers: attempts are counted   *)
(* afresh with every socket.  (The constructor throws on a malformed URL,   *)
(* which no retry mends: the URL is taken to be well formed.)               *)
Connect(n) ==
  /\ \E s \in Sockets :
       /\ socket[s] = "closed" /\ ws' = s
       /\ socket' = [socket EXCEPT ![s] = "connecting"]
  /\ timers' = timers - n /\ reconnectAttempts' = 0

SubscriberStart ==
  /\ ~running /\ running' = TRUE /\ Connect(0)
  /\ UNCHANGED <<subscribed, pendingTxQueue>>

ReconnectFires ==
  /\ timers > 0 /\ UNCHANGED running
  /\ IF running THEN Connect(1)
     ELSE timers' = timers - 1 /\ UNCHANGED <<ws, socket, reconnectAttempts>>
  /\ UNCHANGED <<subscribed, pendingTxQueue>>

(* onopen subscribes on this.ws: nothing happens without one, and to send   *)
(* on one that is still connecting throws.                                  *)
Opens(s) ==
  /\ socket[s] = "connecting" /\ socket' = [socket EXCEPT ![s] = "open"]
  /\ subscribed' = subscribed \union ({ws} \intersect {t \in Sockets : socket'[t] = "open"})
  /\ UNCHANGED <<running, ws, timers, reconnectAttempts, pendingTxQueue>>

(* close: a connection given up before it opens fails, with an error event. *)
Close(s) ==
  CASE socket[s] = "connecting" -> "aborting" [] socket[s] = "open" -> "closing"
    [] OTHER -> socket[s]

(* onerror closes and forgets this.ws, and schedules; the socket that       *)
(* failed closes in any case.                                               *)
Errors(s) ==
  /\ socket[s] \in {"connecting", "open", "aborting"}
  /\ socket' = [t \in Sockets |-> IF t = s THEN "closing" ELSE IF t = ws THEN Close(t) ELSE socket[t]]
  /\ ws' = NoSocket
  /\ UNCHANGED running /\ ScheduleReconnect(0)
  /\ UNCHANGED <<subscribed, pendingTxQueue>>

(* onclose, after an error or of itself.                                    *)
Closes(s) ==
  /\ socket[s] \in {"open", "closing"}
  /\ socket' = [socket EXCEPT ![s] = "closed"] /\ subscribed' = subscribed \ {s}
  /\ UNCHANGED running /\ ScheduleReconnect(0)
  /\ UNCHANGED <<ws, pendingTxQueue>>

(* stop clears the timer set last, which may be one that has fired.         *)
SubscriberStop ==
  /\ running /\ running' = FALSE /\ timers' \in {timers, IF timers = 0 THEN 0 ELSE timers - 1}
  /\ ws' = NoSocket
  /\ socket' = [t \in Sockets |-> IF t = ws THEN Close(t) ELSE socket[t]]
  /\ UNCHANGED <<subscribed, reconnectAttempts, pendingTxQueue>>

-----------------------------------------------------------------------------
(* A pending transaction is announced: dropped when the queue is full.      *)
PendingTx ==
  /\ subscribed # {}
  /\ pendingTxQueue' = IF pendingTxQueue < MaxQueue THEN pendingTxQueue + 1 ELSE pendingTxQueue
  /\ UNCHANGED <<running, ws, socket, subscribed, timers, reconnectAttempts>>

(* processTxQueue asks for a batch of them, on an open socket.              *)
ProcessTxQueue ==
  /\ running /\ ws # NoSocket /\ socket[ws] = "open" /\ pendingTxQueue > 0
  /\ pendingTxQueue' = IF pendingTxQueue > BatchSize THEN pendingTxQueue - BatchSize ELSE 0
  /\ UNCHANGED <<running, ws, socket, subscribed, timers, reconnectAttempts>>

SocketStep(s) == Opens(s) \/ Errors(s) \/ Closes(s)
WebSocketSubscriberNext ==
  \/ SubscriberStart \/ ReconnectFires \/ SubscriberStop \/ PendingTx \/ ProcessTxQueue
  \/ \E s \in Sockets : SocketStep(s)

WebSocketSubscriberSpec ==
  WebSocketSubscriberInit /\ [][WebSocketSubscriberNext]_subscriberVars

-----------------------------------------------------------------------------

WebSocketSubscriberTypeOK ==
  /\ running \in BOOLEAN /\ ws \in Sockets \union {NoSocket}
  /\ socket \in [Sockets -> {"closed", "connecting", "open", "aborting", "closing"}]
  /\ subscribed \subseteq Sockets /\ timers \in 0..MaxTimers
  /\ reconnectAttempts \in 0..maxReconnects /\ pendingTxQueue \in 0..MaxQueue

(* The subscriber never gives up: as long as it runs, a socket has yet to   *)
(* open or close, or a reconnect is due, although scheduleReconnect gives   *)
(* up at its limit and errors and closes use up two attempts at once.       *)
NeverGivesUp ==
  running => timers > 0 \/ \E s \in Sockets : socket[s] # "closed"
=============================================================================
