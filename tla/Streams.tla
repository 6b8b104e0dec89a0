------------------------------- MODULE Streams -------------------------------
(***************************************************************************)
(* The two streams the bot lives on: the indexer's progress (ProgressFeed)  *)
(* and the heads and pending transactions of the chain                      *)
(* (WebSocketSubscriber).  They share no state, but neither may fall silent.*)
(***************************************************************************)
EXTENDS ProgressFeed, WebSocketSubscriber

(* Neither stream ends for good while it is wanted:                         *)
(* HasuraProgressSubscriber has a subscription or polls until it is         *)
(* stopped, and sets no timer then; WebSocketSubscriber always has a socket *)
(* that may open or close, or a reconnect that is due.                      *)
NoStreamSilent == FeedNeverSilent /\ NeverGivesUp
=============================================================================
