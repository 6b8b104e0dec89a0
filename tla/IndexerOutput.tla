---------------------------- MODULE IndexerOutput ----------------------------
(***************************************************************************)
(* What the bot makes of the indexer's output: EnvioLineParser with its     *)
(* ErrorSuppressor (src/src/infra/hypersync/envio_line_parser.ts), the      *)
(* handlers of parseEnvioLine and the heartbeat                             *)
(* (src/src/infra/hypersync/hyperindex_process.ts).  A line is the event    *)
(* the parser classifies it as; its patterns are not modelled.              *)
(***************************************************************************)
EXTENDS Naturals, FiniteSetsExt

CONSTANTS
  MaxLineBlock,  \* bound: blocks that lines name
  MaxErrorLines, \* bound: transient errors
  Window,        \* suppressWindowMs, in time steps
  RateLimitTTL   \* the 120 s after which a rate limit is forgotten, in time steps

(* What is assumed of them. *)
IndexerOutputConstants == {MaxLineBlock, MaxErrorLines, Window, RateLimitTTL} \subseteq Nat

VARIABLES
  suppression,    \* the suppressor: count and idle time, or none
  seen,           \* history: transient errors so far
  logged,         \* history: those logged themselves
  summarised,     \* history: those counted in a summary that was logged
  lastParsed,     \* _lastParsedBlock
  lastRemote,     \* _lastRemoteBlock
  status,         \* the last hyperindex_status event: status and blocks
  sinceReset,     \* time since _processRateLimitResetAt, a number above the
                  \* time to live when it is null
  cleared         \* _hasDoneReactiveHasuraClear, and how often metadata was cleared

outputVars ==
  <<suppression, seen, logged, summarised, lastParsed, lastRemote, status, sinceReset, cleared>>

NoSuppression == [on |-> FALSE, count |-> 0, idle |-> 0]
suppressorVars == <<suppression, seen, logged, summarised>>
blockVars == <<lastParsed, lastRemote, status>>

IndexerOutputInit ==
  /\ suppression = NoSuppression /\ seen = 0 /\ logged = 0 /\ summarised = 0
  /\ lastParsed = 0 /\ lastRemote = 0
  /\ status = [is |-> "none", synced |-> 0, remote |-> 0]
  /\ sinceReset = RateLimitTTL + 1
  /\ cleared = 0

-----------------------------------------------------------------------------
(* The suppressor.                                                          *)

(* Mutation: The count is forgotten when the window has expired.            *)
TransientErrorForgets ==
  /\ seen < MaxErrorLines /\ seen' = seen + 1
  /\ IF suppression.on /\ suppression.idle <= Window
     THEN /\ suppression' = [suppression EXCEPT !.count = @ + 1, !.idle = 0]
          /\ UNCHANGED <<logged, summarised>>
     ELSE /\ suppression' = [NoSuppression EXCEPT !.on = TRUE]
          /\ logged' = logged + 1 /\ UNCHANGED summarised
  /\ UNCHANGED <<blockVars, sinceReset, cleared>>

(* A transient error: the first is logged, those within the window of the   *)
(* one before are only counted; after the window the count is logged.       *)
TransientError ==
  /\ seen < MaxErrorLines /\ seen' = seen + 1
  /\ IF suppression.on /\ suppression.idle <= Window
     THEN /\ suppression' = [suppression EXCEPT !.count = @ + 1, !.idle = 0]
          /\ UNCHANGED <<logged, summarised>>
     ELSE /\ suppression' = [NoSuppression EXCEPT !.on = TRUE]
          /\ logged' = logged + 1 /\ summarised' = summarised + suppression.count
  /\ UNCHANGED <<blockVars, sinceReset, cleared>>

(* A real error flushes the count, if there is one.                         *)
Flush ==
  /\ summarised' = summarised + suppression.count
  /\ suppression' = IF suppression.count = 0 THEN suppression ELSE NoSuppression
  /\ UNCHANGED <<seen, logged>>

-----------------------------------------------------------------------------
(* The handlers.                                                            *)

(* emitStatus.                                                              *)
EmitStatus(is, synced, remote) ==
  /\ status' = [is |-> is, synced |-> synced, remote |-> remote]
  /\ lastParsed' = synced /\ lastRemote' = remote

ProgressLine(synced, remote) ==
  /\ EmitStatus("syncing", Max({lastParsed, synced}), Max({lastRemote, remote}))
  /\ UNCHANGED <<suppressorVars, sinceReset, cleared>>

SlowHandlerLine(synced) ==
  /\ EmitStatus("syncing", Max({lastParsed, synced}), lastRemote)
  /\ UNCHANGED <<suppressorVars, sinceReset, cleared>>

(* Not the highest block: that of the line.                                 *)
SyncedLine(synced) ==
  /\ EmitStatus("synced", synced, synced)
  /\ UNCHANGED <<suppressorVars, sinceReset, cleared>>

ReadyLine ==
  /\ EmitStatus("indexer_ready", lastParsed, lastRemote)
  /\ UNCHANGED <<suppressorVars, sinceReset, cleared>>

RunningLine ==
  /\ lastParsed = 0 /\ EmitStatus("running", 0, 0)
  /\ UNCHANGED <<suppressorVars, sinceReset, cleared>>

(* An error or a warning, with the rate limit's reset in it or not.         *)
ErrorLine(isError, resetsIn) ==
  /\ Flush
  /\ sinceReset' = IF resetsIn THEN 0 ELSE sinceReset
  /\ IF isError THEN EmitStatus("error", lastParsed, lastRemote) ELSE UNCHANGED blockVars
  /\ UNCHANGED cleared

(* Envio warns of its metadata: they are cleared, once.                     *)
MetadataWarning ==
  /\ Flush
  /\ cleared' = 1
  /\ UNCHANGED <<blockVars, sinceReset>>

(* The heartbeat: after eight silent seconds the status is told again.      *)
Heartbeat ==
  /\ status' = [is |-> IF lastParsed > 0 THEN "syncing" ELSE "running",
                synced |-> lastParsed,
                remote |-> IF lastRemote > 0 THEN lastRemote ELSE lastParsed]
  /\ UNCHANGED <<suppressorVars, lastParsed, lastRemote, sinceReset, cleared>>

(* getProcessRateLimitInfo: whether it still tells of a rate limit.         *)
RateLimitKnown == sinceReset <= RateLimitTTL

(* A child has been started: told without looking at the blocks parsed.    *)
ChildStarted ==
  /\ status' = [is |-> "running", synced |-> 0, remote |-> 0]
  /\ UNCHANGED <<suppressorVars, lastParsed, lastRemote, sinceReset, cleared>>

OutputTick ==
  /\ suppression' = [suppression EXCEPT !.idle = IF @ > Window THEN @ ELSE @ + 1]
  /\ sinceReset' = IF sinceReset > RateLimitTTL THEN sinceReset ELSE sinceReset + 1
  /\ UNCHANGED <<seen, logged, summarised, blockVars, cleared>>

IndexerOutputNext ==
  \/ TransientError \/ ReadyLine \/ RunningLine \/ MetadataWarning \/ Heartbeat
  \/ ChildStarted \/ OutputTick
  \/ \E b \in 1..MaxLineBlock :
       \/ SlowHandlerLine(b) \/ SyncedLine(b)
       \/ \E r \in b..MaxLineBlock : ProgressLine(b, r)
  \/ \E isError, resetsIn \in BOOLEAN : ErrorLine(isError, resetsIn)

IndexerOutputSpec == IndexerOutputInit /\ [][IndexerOutputNext]_outputVars

-----------------------------------------------------------------------------
(* Properties.                                                              *)

IndexerOutputTypeOK ==
  /\ suppression \in [on : BOOLEAN, count : 0..MaxErrorLines, idle : 0..Window + 1]
  /\ {seen, logged, summarised} \subseteq 0..MaxErrorLines
  /\ {lastParsed, lastRemote} \subseteq 0..MaxLineBlock
  /\ status.is \in {"none", "syncing", "synced", "indexer_ready", "running", "error"}
  /\ sinceReset \in 0..RateLimitTTL + 1 /\ cleared \in 0..1

(* No transient error is lost: each is logged itself, counted in a summary  *)
(* or still counted by the suppressor, however errors, expired windows and  *)
(* real errors alternate.                                                   *)
ErrorsAccounted == seen = logged + summarised + suppression.count
=============================================================================
