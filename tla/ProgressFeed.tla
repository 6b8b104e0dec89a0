---------------------------- MODULE ProgressFeed ----------------------------
(***************************************************************************)
(* HasuraProgressSubscriber                                                *)
(* (src/src/infra/hypersync/hasura_progress_subscriber.ts): the indexer's   *)
(* progress over a WebSocket, by polling while there is none, and what the  *)
(* monitor keeps of it (updateSyncedBlock in hyperindex_monitor.ts).        *)
(***************************************************************************)
EXTENDS Naturals, FiniteSetsExt

CONSTANTS
  MaxIndexed,  \* bound: the indexer's blocks
  Queries      \* bound: queries in flight

(* What is assumed of them. *)
ProgressFeedConstants == MaxIndexed \in Nat

VARIABLES
  indexed,         \* the indexer's block
  feed,            \* "off", "seeding", "on", "stopped"
  feedSocket,      \* "none", "connecting", "open" or, once acknowledged, "acked"
  everConnecting,  \* history: a first attempt to connect has ended
  fallback,        \* fallbackTimer
  reconnect,       \* reconnectTimer
  query,           \* [Queries -> the block a query in flight has read]
  lastSynced,      \* HyperIndexMonitor.lastSyncedBlock
  leaked           \* a socket that stop could not close

feedVars ==
  <<indexed, feed, feedSocket, everConnecting, fallback, reconnect, query, lastSynced, leaked>>

NoAnswer == MaxIndexed + 1
connection == <<feed, feedSocket, everConnecting, leaked>>
feedTimers == <<fallback, reconnect>>

ProgressFeedInit ==
  /\ indexed = 0 /\ feed = "off" /\ feedSocket = "none" /\ everConnecting = FALSE
  /\ fallback = FALSE /\ reconnect = FALSE
  /\ query = [q \in Queries |-> NoAnswer] /\ lastSynced = 0 /\ leaked = FALSE

stopped == feed = "stopped"

-----------------------------------------------------------------------------
(* updateSyncedBlock.                                                       *)
UpdateSyncedBlock(b) == lastSynced' = Max({lastSynced, b})

(* seedProgress and seedMeta: a query reads the indexer's block, and the    *)
(* answer comes later, after other answers or a stop; or it fails.          *)
AskProgress(q) ==
  /\ query[q] = NoAnswer /\ (feed = "seeding" \/ fallback)
  /\ query' = [query EXCEPT ![q] = indexed]
  /\ UNCHANGED <<indexed, connection, feedTimers, lastSynced>>

AnswerArrives(q) ==
  /\ query[q] # NoAnswer
  /\ query' = [query EXCEPT ![q] = NoAnswer]
  /\ UpdateSyncedBlock(query[q]) \/ UNCHANGED lastSynced
  /\ UNCHANGED <<indexed, connection, feedTimers>>

FeedStart ==
  /\ feed = "off" /\ feed' = "seeding"
  /\ UNCHANGED <<indexed, feedSocket, everConnecting, feedTimers, query, lastSynced, leaked>>

-----------------------------------------------------------------------------
(* connectWebSocket: the constructor may throw.                             *)
ConnectWebSocket ==
  \/ feedSocket' = "connecting" /\ UNCHANGED <<everConnecting, fallback>> /\ reconnect' = FALSE
  \/ everConnecting' = TRUE /\ fallback' = TRUE /\ reconnect' = TRUE /\ UNCHANGED feedSocket

(* Both seeds are in: the feed goes live, unless stopped meanwhile.         *)
Seeded ==
  /\ feed = "seeding" /\ \A q \in Queries : query[q] = NoAnswer
  /\ feed' = "on" /\ ConnectWebSocket
  /\ UNCHANGED <<indexed, query, lastSynced, leaked>>

ReconnectTimerFires ==
  /\ reconnect /\ ~stopped /\ ConnectWebSocket
  /\ UNCHANGED <<indexed, feed, query, lastSynced, leaked>>

(* Mutation: Polling ends with the connection, not its acknowledgement.     *)
SocketOpensQuiet ==
  /\ feedSocket = "connecting" /\ feedSocket' = "open" /\ fallback' = FALSE
  /\ UNCHANGED <<indexed, feed, everConnecting, reconnect, query, lastSynced, leaked>>

SocketOpens ==
  /\ feedSocket = "connecting" /\ feedSocket' = "open"
  /\ UNCHANGED <<indexed, feed, everConnecting, feedTimers, query, lastSynced, leaked>>

(* connection_ack: polling ends and both subscriptions begin.               *)
Acknowledged ==
  /\ feedSocket = "open" /\ feedSocket' = "acked" /\ fallback' = FALSE /\ everConnecting' = TRUE
  /\ UNCHANGED <<indexed, feed, reconnect, query, lastSynced, leaked>>

(* A subscription's data: the block as it was when sent, in order.          *)
NextMessage ==
  /\ feedSocket = "acked" /\ \E b \in 1..indexed : UpdateSyncedBlock(b)
  /\ UNCHANGED <<indexed, connection, feedTimers, query>>

(* A subscription fails; the socket stays.                                  *)
ErrorMessage ==
  /\ feedSocket = "acked" /\ fallback' = TRUE
  /\ UNCHANGED <<indexed, connection, reconnect, query, lastSynced>>

(* The socket closes or could not be opened.                                *)
SocketCloses ==
  /\ feedSocket # "none" /\ ~stopped
  /\ feedSocket' = "none" /\ everConnecting' = TRUE /\ fallback' = TRUE /\ reconnect' = TRUE
  /\ UNCHANGED <<indexed, feed, query, lastSynced, leaked>>

(* stop.  To send on a socket that is still connecting throws, and the      *)
(* socket is then not closed.                                               *)
FeedStop ==
  /\ feed \in {"seeding", "on"} /\ feed' = "stopped"
  /\ fallback' = FALSE /\ reconnect' = FALSE
  /\ leaked' = (feedSocket = "connecting") /\ feedSocket' = "none"
  /\ UNCHANGED <<indexed, everConnecting, query, lastSynced>>

IndexerAdvances ==
  /\ indexed < MaxIndexed /\ indexed' = indexed + 1
  /\ UNCHANGED <<connection, feedTimers, query, lastSynced>>

ProgressFeedNext ==
  \/ FeedStart \/ Seeded \/ ReconnectTimerFires \/ SocketOpens \/ Acknowledged \/ NextMessage
  \/ ErrorMessage \/ SocketCloses \/ FeedStop \/ IndexerAdvances
  \/ \E q \in Queries : AskProgress(q) \/ AnswerArrives(q)

ProgressFeedSpec == ProgressFeedInit /\ [][ProgressFeedNext]_feedVars

-----------------------------------------------------------------------------
(* Properties.                                                              *)

ProgressFeedTypeOK ==
  /\ indexed \in 0..MaxIndexed /\ lastSynced \in 0..MaxIndexed
  /\ feed \in {"off", "seeding", "on", "stopped"}
  /\ feedSocket \in {"none", "connecting", "open", "acked"}
  /\ query \in [Queries -> 0..NoAnswer]
  /\ {everConnecting, fallback, reconnect, leaked} \subseteq BOOLEAN

(* Progress never falls silent: once the first attempt to connect is over,  *)
(* there is a live subscription or polling until the feed is stopped, and   *)
(* without a socket a reconnect is due; and a stopped feed, whatever        *)
(* arrives late, sets no timer again.                                       *)
FeedNeverSilent ==
  /\ feed = "on" /\ everConnecting => (feedSocket = "acked" \/ fallback)
  /\ feed = "on" => (feedSocket # "none" \/ reconnect)
  /\ stopped => ~fallback /\ ~reconnect
=============================================================================
