---------------------------- MODULE HyperIndexer ----------------------------
(***************************************************************************)
(* The indexer's child process and the monitor that supervises it          *)
(* (src/src/infra/hypersync/hyperindex_process.ts and                      *)
(* src/src/infra/resilience/hyperindex_monitor.ts), as src/src/cli/main.ts *)
(* drives them: prepare, health checks on an interval that nobody awaits,  *)
(* and a shutdown that stops the monitor twice.                            *)
(*                                                                         *)
(* A task is the main program or a health check in flight.  Tasks take     *)
(* turns at their awaits.  Blocks, lag and rate limits are reduced to the  *)
(* choices they decide; time is counted in intervals between two checks.   *)
(***************************************************************************)
EXTENDS Naturals, FiniteSets

CONSTANTS
  HealthChecks,  \* bound: health checks in flight at once
  MainTask,      \* the main program
  MaxSpawns,     \* bound: children started
  MaxStall,      \* maxStallMs in check intervals: 6 in the code
  Graceful       \* whether a child may exit on SIGTERM within 5 s

(* What is assumed of them. *)
HyperIndexerConstants ==
  /\ MaxSpawns \in Nat \ {0} /\ MaxStall \in Nat
  /\ Graceful \in BOOLEAN /\ MainTask \notin HealthChecks

VARIABLES
  child,       \* [1..MaxSpawns -> what became of each child]
  bound,       \* the children whose exit handler is attached
  proc,        \* proc: the child, 0 for null
  weStarted,   \* _weStartedIndexer
  gentok,      \* whether the token registry was updated after a stop
  managing,    \* _managingProcess
  restarting,  \* _restarting
  healthy,     \* _isHealthy
  timerOn,     \* healthTimer
  progressed,  \* lastSyncedBlock > 0
  quiet,       \* intervals since lastProgressTime
  overlapped,  \* history: a restart began while another was under way
  task         \* [IndexerTasks -> where each task is, and the child it stops]

hyperIndexerVars ==
  <<child, bound, proc, weStarted, gentok, managing, restarting, healthy, timerOn,
    progressed, quiet, overlapped, task>>

IndexerTasks == HealthChecks \union {MainTask}
Children == 1..MaxSpawns
spawned == Cardinality({k \in Children : child[k] # "unborn"})
Running(k) == child[k] \in {"alive", "terminating"}

At(t, pc) == task[t].pc = pc
Goto(t, pc) == task' = [task EXCEPT ![t] = [pc |-> pc, target |-> 0]]
Exited == At(MainTask, "exited")

processVars == <<child, bound, proc, weStarted, gentok>>
monitorVars == <<managing, restarting, healthy, timerOn, progressed>>

HyperIndexerInit ==
  /\ child = [k \in Children |-> "unborn"] /\ bound = {} /\ proc = 0
  /\ weStarted = FALSE /\ gentok = FALSE /\ managing = FALSE /\ restarting = FALSE
  /\ healthy = FALSE /\ timerOn = FALSE /\ progressed = FALSE
  /\ quiet = 0 /\ overlapped = FALSE
  /\ task = [t \in IndexerTasks |->
               [pc |-> IF t = MainTask THEN "prepare" ELSE "idle", target |-> 0]]

-----------------------------------------------------------------------------
(* The process: start.                                                      *)

(* What follows a start: prepare goes on to the health timer, a restart     *)
(* ends.                                                                    *)
Started(t) ==
  /\ healthy' = TRUE
  /\ IF t = MainTask
     THEN managing' = TRUE /\ timerOn' = TRUE /\ UNCHANGED restarting /\ Goto(t, "up")
     ELSE restarting' = FALSE /\ UNCHANGED <<managing, timerOn>> /\ Goto(t, "idle")
  /\ UNCHANGED progressed

(* start returns at once if there is a child; else it waits for codegen,    *)
(* the Docker clean-up, the ports and the .env file.  SIGKILL is taken to   *)
(* have killed within the back-off of two seconds or more.                  *)
StartBegin(t) ==
  /\ At(t, "backoff") \/ At(t, "prepare")
  /\ \A k \in Children : child[k] # "killed"
  /\ IF proc # 0 THEN Started(t) ELSE Goto(t, "starting") /\ UNCHANGED monitorVars
  /\ UNCHANGED <<processVars, quiet, overlapped>>

Spawn(t) ==
  /\ At(t, "starting") /\ spawned < MaxSpawns
  /\ LET k == spawned + 1
     IN  child' = [child EXCEPT ![k] = "alive"] /\ bound' = bound \union {k} /\ proc' = k
  /\ weStarted' = TRUE
  /\ Goto(t, "settling")
  /\ UNCHANGED <<gentok, monitorVars, quiet, overlapped>>

(* Two seconds later.                                                       *)
Settled(t) ==
  /\ At(t, "settling") /\ Started(t)
  /\ UNCHANGED <<processVars, quiet, overlapped>>

-----------------------------------------------------------------------------
(* The process: stop.                                                       *)

(* Where a task goes on: a restart backs off, a shutdown stops once more.    *)
AfterStop(t) ==
  IF t # MainTask THEN "backoff"
  ELSE IF At(t, "up") \/ At(t, "stopping") THEN "closing" ELSE "exiting"

(* stop up to its await: SIGTERM to the group of the child.                 *)
Stop(t) ==
  /\ IF proc = 0
     THEN Goto(t, AfterStop(t)) /\ UNCHANGED child
     ELSE /\ task' = [task EXCEPT ![t] =
               [pc |-> IF At(t, "closing") THEN "stoppingAgain" ELSE "stopping",
                target |-> proc]]
          /\ child' = [child EXCEPT ![proc] = IF @ = "alive" THEN "terminating" ELSE @]
  /\ UNCHANGED <<bound, proc, weStarted, gentok>>

Stopping(t) == At(t, "stopping") \/ At(t, "stoppingAgain")

(* Mutation: The child is still taken for the current one.                  *)
ChildExitsUnnoticed(k) ==
  /\ child[k] \in {"alive", "killed"} \/ (Graceful /\ child[k] = "terminating")
  /\ child' = [child EXCEPT ![k] = "dead"]
  /\ task' = [t \in IndexerTasks |-> IF Stopping(t) /\ task[t].target = k
                              THEN [task[t] EXCEPT !.pc = "hung"] ELSE task[t]]
  /\ UNCHANGED <<bound, proc, weStarted, gentok, monitorVars, quiet, overlapped>>

(* A child exits: of itself, on SIGTERM or SIGKILL.  Its exit handler drops *)
(* the process, whichever is current.  The exit listener of a stop that     *)
(* waits for it clears the timeout, and nothing else resolves that promise. *)
ChildExits(k) ==
  /\ child[k] \in {"alive", "killed"} \/ (Graceful /\ child[k] = "terminating")
  /\ child' = [child EXCEPT ![k] = "dead"]
  /\ proc' = IF k \in bound THEN 0 ELSE proc
  /\ task' = [t \in IndexerTasks |-> IF Stopping(t) /\ task[t].target = k
                              THEN [task[t] EXCEPT !.pc = "hung"] ELSE task[t]]
  /\ UNCHANGED <<bound, weStarted, gentok, monitorVars, quiet, overlapped>>

(* Mutation: The process is dropped, but its group is not killed.           *)
StopTimesOutNoKill(t) ==
  /\ Stopping(t)
  /\ bound' = bound \ ({task[t].target} \intersect {spawned})
  /\ proc' = 0 /\ weStarted' = FALSE /\ gentok' = (gentok \/ weStarted)
  /\ Goto(t, AfterStop(t))
  /\ UNCHANGED <<child, monitorVars, quiet, overlapped>>

(* Five seconds without an exit: SIGKILL, and the stop goes on.  The handler *)
(* it takes off the child is that of the child started last.                *)
StopTimesOut(t) ==
  /\ Stopping(t)
  /\ LET k == task[t].target
     IN  /\ child' = [child EXCEPT ![k] = IF Running(k) THEN "killed" ELSE @]
         /\ bound' = bound \ ({k} \intersect {spawned})
  /\ proc' = 0 /\ weStarted' = FALSE /\ gentok' = (gentok \/ weStarted)
  /\ Goto(t, AfterStop(t))
  /\ UNCHANGED <<monitorVars, quiet, overlapped>>

-----------------------------------------------------------------------------
(* The monitor.                                                             *)

(* prepare finds a Hasura that somebody else runs.                          *)
PrepareExternal ==
  /\ At(MainTask, "prepare")
  /\ healthy' = TRUE /\ timerOn' = TRUE /\ Goto(MainTask, "up")
  /\ UNCHANGED <<processVars, managing, restarting, progressed, quiet, overlapped>>

(* restart, up to the await in stop.                                        *)
Restart(c) ==
  /\ restarting' = TRUE /\ healthy' = FALSE /\ overlapped' = (overlapped \/ restarting)
  /\ Stop(c)
  /\ UNCHANGED <<managing, timerOn, progressed, quiet>>

Rest == UNCHANGED <<processVars, managing, restarting, timerOn, progressed, quiet, overlapped>>

(* checkHealth up to its first await: the chain head.                       *)
CheckBegin(c) ==
  /\ timerOn /\ At(c, "idle") /\ ~restarting
  /\ IF managing /\ proc = 0 THEN Restart(c)
     ELSE Goto(c, "head") /\ UNCHANGED healthy /\ Rest

HeadRead(c) ==
  /\ At(c, "head") /\ Goto(c, "hasura") /\ UNCHANGED healthy /\ Rest

HasuraFails(c) ==
  /\ At(c, "hasura")
  /\ IF managing THEN Restart(c) ELSE healthy' = FALSE /\ Goto(c, "idle") /\ Rest

Stalled == managing /\ progressed /\ quiet > MaxStall

(* No progress for too long, and no rate limit known.                       *)
StallRestart(c) == At(c, "hasura") /\ Stalled /\ Restart(c)

(* The same under a rate limit: the check ends.                             *)
StallExtended(c) ==
  /\ At(c, "hasura") /\ Stalled /\ Goto(c, "idle") /\ UNCHANGED healthy /\ Rest

(* Far behind the head, and no rate limit known.                            *)
LagRestart(c) == At(c, "hasura") /\ ~Stalled /\ managing /\ progressed /\ Restart(c)

CheckPasses(c) ==
  /\ At(c, "hasura") /\ ~Stalled /\ healthy' = TRUE /\ Goto(c, "idle") /\ Rest

(* shutdown in main.ts stops the monitor, the other services and, in        *)
(* shutdownApplication, the monitor again; then the program exits.          *)
Shutdown ==
  /\ At(MainTask, "up") \/ At(MainTask, "closing")
  /\ timerOn' = FALSE
  /\ IF managing THEN Stop(MainTask)
     ELSE Goto(MainTask, AfterStop(MainTask)) /\ UNCHANGED processVars
  /\ UNCHANGED <<managing, restarting, healthy, progressed, quiet, overlapped>>

Exit ==
  /\ At(MainTask, "exiting") /\ Goto(MainTask, "exited")
  /\ UNCHANGED <<processVars, monitorVars, quiet, overlapped>>

-----------------------------------------------------------------------------
(* The child's progress, and time.                                          *)

(* updateSyncedBlock with a higher block.                                   *)
Progress ==
  /\ ~Exited /\ \E k \in Children : child[k] = "alive"
  /\ progressed' = TRUE /\ quiet' = 0
  /\ UNCHANGED <<processVars, managing, restarting, healthy, timerOn, overlapped, task>>

Tick ==
  /\ ~Exited
  /\ quiet' = IF quiet > MaxStall THEN quiet ELSE quiet + 1
  /\ quiet' # quiet
  /\ UNCHANGED <<processVars, monitorVars, overlapped, task>>

HealthCheckStep(c) ==
  \/ HeadRead(c) \/ HasuraFails(c) \/ StallRestart(c) \/ StallExtended(c)
  \/ LagRestart(c) \/ CheckPasses(c)
TaskStep(t) == StartBegin(t) \/ Spawn(t) \/ Settled(t) \/ StopTimesOut(t)

HyperIndexerNext ==
  \/ ~Exited /\ \/ PrepareExternal \/ Shutdown \/ Exit
                \/ \E c \in HealthChecks : CheckBegin(c) \/ HealthCheckStep(c)
                \/ \E t \in IndexerTasks : TaskStep(t)
  \/ Progress \/ Tick
  \/ \E k \in Children : ChildExits(k)

HyperIndexerSpec == HyperIndexerInit /\ [][HyperIndexerNext]_hyperIndexerVars

(* The interval timer fires and awaits end: 5 s timers, RPCs, sleeps.       *)
TaskRuns(t) == ~Exited /\ TaskStep(t)
CheckRuns(c) == ~Exited /\ HealthCheckStep(c)
CheckBegins == ~Exited /\ \E c \in HealthChecks : CheckBegin(c)
SignalledExits(k) == child[k] \in {"terminating", "killed"} /\ ChildExits(k)
HyperIndexerFairness ==
  /\ \A t \in IndexerTasks : WF_hyperIndexerVars(TaskRuns(t))
  /\ \A c \in HealthChecks : WF_hyperIndexerVars(CheckRuns(c))
  /\ WF_hyperIndexerVars(CheckBegins)
  /\ \A k \in Children : WF_hyperIndexerVars(SignalledExits(k))

-----------------------------------------------------------------------------
(* Properties.                                                              *)

HyperIndexerTypeOK ==
  /\ child \in [Children -> {"unborn", "alive", "terminating", "killed", "dead"}]
  /\ bound \subseteq Children /\ proc \in 0..MaxSpawns
  /\ {weStarted, gentok, managing, restarting, healthy, timerOn, progressed}
       \subseteq BOOLEAN
  /\ quiet \in 0..MaxStall + 1 /\ overlapped \in BOOLEAN
  /\ task \in [IndexerTasks -> [pc : {"prepare", "idle", "up", "starting", "settling",
        "head", "hasura", "stopping", "stoppingAgain", "hung", "backoff",
        "closing", "exiting", "exited"}, target : 0..MaxSpawns]]

(* At most one indexer runs (two would index into one database): a restart  *)
(* kills the old child before it starts another, whoever asked for a stop   *)
(* meanwhile.  Only two checks that were both past the guard of checkHealth *)
(* when they decided to restart can start two.                              *)
OneIndexer == overlapped \/ Cardinality({k \in Children : Running(k)}) <= 1

Crashed == managing /\ timerOn /\ ~(\E k \in Children : Running(k))
Recovered ==
  \/ (\E k \in Children : Running(k)) \/ ~timerOn
  \/ spawned = MaxSpawns \/ \E t \in IndexerTasks : At(t, "hung")

(* An indexer that died is started again by a later check, unless the       *)
(* program shuts down, a stop hangs because its child exited by itself      *)
(* within five seconds (or the bound on starts is reached).                 *)
CrashRecovered == Crashed ~> Recovered
=============================================================================
