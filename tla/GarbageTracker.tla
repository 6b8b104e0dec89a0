---------------------------- MODULE GarbageTracker ----------------------------
(* The addresses known to be garbage, in memory and in a file                *)
(* (infra/garbage/garbage-tracker.ts): the load at the start, the clean-up   *)
(* once per run, marks by fetches and discoveries, the writes that gather    *)
(* them, and the end of the process at any time.                             *)
EXTENDS Integers, Sequences, SequencesExt

CONSTANTS
  Addresses,
  Pages,          \* the factories among the tokens of each page of pools
  MaxRestarts     \* bound

GarbageTrackerConstants ==
  /\ Pages \in Seq(SUBSET Addresses)
  /\ MaxRestarts \in Nat

VARIABLES
  garbage,        \* garbageAddresses
  loaded,
  flush,          \* flushPromise: "none", in its delay or in writeFile, or "rejected"
  list,           \* what is being written
  file,           \* what is in the file, and whether it can be parsed
  page,           \* of the clean-up: scanned, then awaiting the marks, then over
  restarts,
  asked,          \* history: the addresses that were marked in this run
  late,           \* history: those of them marked after the list of a write was read
  kept,           \* history: every address that was written
  spoiled         \* history: a write was torn, or was faster than the load

garbageVars ==
  <<garbage, loaded, flush, list, file, page, restarts, asked, late, kept, spoiled>>

Awaiting == Len(Pages)
Over == Len(Pages) + 1

GarbageTrackerInit ==
  /\ garbage = {} /\ loaded = FALSE /\ flush = "none" /\ list = {}
  /\ file = [ok |-> TRUE, list |-> {}] /\ page = 0 /\ restarts = 0
  /\ asked = {} /\ late = {} /\ kept = {} /\ spoiled = FALSE

Saved == IF file.ok THEN file.list ELSE {}

(* loadGarbageAddresses.  A file that cannot be parsed counts as empty.      *)
LoadEnds ==
  /\ ~loaded /\ loaded' = TRUE
  /\ garbage' = garbage \cup Saved
  /\ UNCHANGED <<flush, list, file, page, restarts, asked, late, kept, spoiled>>

(* Mutation: a mark that finds a flush under way is left to it.              *)
AddedIfFirst(marks) == IF flush = "none" THEN garbage \cup marks ELSE garbage
Added(marks) == garbage \cup marks

(* markAsGarbage: an address that is new begins a flush, unless there is one *)
(* already -- be it that it has read the list, or has failed.                *)
markAsGarbage(marks) ==
  LET new == marks \ garbage
  IN /\ garbage' = Added(marks) /\ asked' = asked \cup marks
     /\ flush' = IF new # {} /\ flush = "none" THEN "delay" ELSE flush
     /\ late' = IF flush \in {"writing", "rejected"} THEN late \cup new ELSE late
     /\ UNCHANGED <<loaded, list, file, restarts, kept, spoiled>>

(* The delay is over: the list is read, and the file is cut to be written.   *)
FlushWrites ==
  /\ flush = "delay" /\ flush' = "writing"
  /\ list' = garbage /\ file' = [file EXCEPT !.ok = FALSE]
  /\ late' = {} /\ spoiled' = (spoiled \/ ~loaded)
  /\ UNCHANGED <<garbage, loaded, page, restarts, asked, kept>>

FlushEnds ==
  /\ flush = "writing" /\ flush' = "none"
  /\ file' = [ok |-> TRUE, list |-> list] /\ kept' = kept \cup list
  /\ UNCHANGED <<garbage, loaded, list, page, restarts, asked, late, spoiled>>

(* mkdir or writeFile fails: flushPromise is not reset.                      *)
FlushFails ==
  /\ flush \in {"delay", "writing"} /\ flush' = "rejected"
  /\ late' = asked /\ spoiled' = (spoiled \/ ~file.ok)
  /\ UNCHANGED <<garbage, loaded, list, file, page, restarts, asked, kept>>

-----------------------------------------------------------------------------
(* performOneTimeGarbageCleanup, before anything else of the bot: page by    *)
(* page, and in the end it waits for its marks.  A query may fail.           *)
CleanUpPage ==
  /\ page < Awaiting /\ page' = page + 1
  /\ markAsGarbage(Pages[page + 1] \ garbage)

CleanUpEnds ==
  /\ page = Awaiting /\ (asked # {} => flush \in {"none", "rejected"})
  /\ page' = Over
  /\ UNCHANGED <<garbage, loaded, flush, list, file, restarts, asked, late, kept, spoiled>>

CleanUpFails ==
  /\ page < Awaiting /\ page' = Over
  /\ UNCHANGED <<garbage, loaded, flush, list, file, restarts, asked, late, kept, spoiled>>

(* A fetch finds that a pool is none, or a discovery a factory as a token.   *)
Mark(a) ==
  /\ page = Over /\ UNCHANGED page
  /\ markAsGarbage({a})

(* The process ends, however it does, and starts again.                      *)
ProcessRestart ==
  /\ restarts < MaxRestarts /\ restarts' = restarts + 1
  /\ garbage' = {} /\ loaded' = FALSE /\ flush' = "none" /\ page' = 0
  /\ asked' = {} /\ late' = {} /\ spoiled' = (spoiled \/ ~file.ok)
  /\ UNCHANGED <<list, file, kept>>

GarbageTrackerNext ==
  \/ LoadEnds \/ FlushWrites \/ FlushEnds \/ FlushFails
  \/ CleanUpPage \/ CleanUpEnds \/ CleanUpFails
  \/ \E a \in Addresses : Mark(a)
  \/ ProcessRestart

GarbageTrackerSpec == GarbageTrackerInit /\ [][GarbageTrackerNext]_garbageVars

-----------------------------------------------------------------------------
GarbageTrackerTypeOK ==
  /\ garbage \subseteq Addresses /\ loaded \in BOOLEAN
  /\ flush \in {"none", "delay", "writing", "rejected"}
  /\ list \subseteq Addresses /\ file \in [ok : BOOLEAN, list : SUBSET Addresses]
  /\ page \in 0..Over /\ restarts \in 0..MaxRestarts
  /\ asked \subseteq garbage /\ late \subseteq asked
  /\ kept \subseteq Addresses /\ spoiled \in BOOLEAN

(* "Mark an address (token or pool) as garbage and persist it to disk."      *)
(* Once no flush is under way the file has every address that was marked in  *)
(* this run but for those marked too late for the last write; and once the   *)
(* file is read nothing that was ever written is forgotten, whatever the     *)
(* process lives through -- unless a write was torn or overtook the load.    *)
MarksPersist ==
  /\ flush = "none" => asked \ late \subseteq Saved
  /\ loaded /\ ~spoiled => kept \subseteq garbage
=============================================================================
