---------------------------- MODULE IndexerProofs ----------------------------
(* The indexer the bot runs beside itself: its process and the monitor      *)
(* (HyperIndexer), and what the bot makes of its output (IndexerOutput).    *)
(* Proved for every number of health checks in flight, of children, of lines*)
(* and every window: their types, that one indexer runs at a time, and that no*)
(* error is lost.                                                           *)
EXTENDS HyperIndexer, IndexerOutput, FiniteSetTheorems, TLAPS

Active(k)   == child[k] \in {"alive", "terminating", "killed"}
Restarts(c) == task[c].pc \in {"stopping", "hung", "backoff", "starting", "settling"}

(* Children are started in order.                                            *)
BornInOrder ==
  \E n \in 0..MaxSpawns : \A k \in Children : child[k] = "unborn" <=> k > n

(* What the tasks are for: the main program starts the first child, before   *)
(* there are checks, and is the only one to stop a child twice.              *)
TasksSeparate ==
  /\ \A c \in HealthChecks :
       task[c].pc \in {"idle", "head", "hasura", "stopping", "hung", "backoff",
                       "starting", "settling"}
  /\ task[MainTask].pc \in {"prepare", "starting", "settling", "up", "stopping",
                            "stoppingAgain", "hung", "closing", "exiting", "exited"}
  /\ task[MainTask].pc \in {"prepare", "starting", "settling"} =>
       ~timerOn /\ \A c \in HealthChecks : At(c, "idle")

(* One check restarts at a time, and says so.                                *)
OneRestart ==
  /\ \A c \in HealthChecks : Restarts(c) => restarting
  /\ \A c, d \in HealthChecks : Restarts(c) /\ Restarts(d) => c = d

(* Only the child started last may not have exited, it is the current one if *)
(* it runs, and none does when another is about to be started.  A stop that  *)
(* waits has signalled that child.                                           *)
LastChildOnly ==
  /\ \A k \in Children : Active(k) => k = spawned
  /\ \A k \in Children : Running(k) => proc = k
  /\ proc # 0 => Running(proc) /\ proc \in bound
  /\ \A t \in IndexerTasks : At(t, "starting") => \A k \in Children : ~Active(k)
  /\ \A t \in IndexerTasks : Stopping(t) =>
       /\ task[t].target \in Children
       /\ child[task[t].target] \in {"terminating", "killed"}

IInv ==
  /\ HyperIndexerTypeOK
  /\ BornInOrder
  /\ TasksSeparate
  /\ overlapped \/ (OneRestart /\ LastChildOnly)

-----------------------------------------------------------------------------
(* The children.                                                             *)

(* How many are started, when they are started in order.                     *)
LEMMA SpawnedCount ==
  ASSUME HyperIndexerConstants, NEW born \in SUBSET Children, NEW n \in 0..MaxSpawns,
         \A k \in Children : k \notin born <=> k > n
  PROVE  Cardinality(born) = n
<1>1. MaxSpawns \in Nat /\ n \in Nat /\ n <= MaxSpawns
  BY DEF HyperIndexerConstants
<1>2. born = 1..n
  <2>1. ASSUME NEW k \in born
        PROVE  k \in 1..n
    BY <1>1 DEF Children
  <2>2. ASSUME NEW k \in 1..n
        PROVE  k \in born
    <3>1. k \in Children /\ ~(k > n)
      BY <1>1 DEF Children
    <3> QED
      BY <3>1
  <2> QED
    BY <2>1, <2>2
<1>3. Cardinality(1..n) = n
  BY <1>1, FS_Interval
<1> QED
  BY <1>2, <1>3

(* The first spawned ones are.                                               *)
LEMMA SpawnedFirst ==
  ASSUME HyperIndexerConstants, BornInOrder
  PROVE  /\ spawned \in 0..MaxSpawns
         /\ \A k \in Children : child[k] = "unborn" <=> k > spawned
<1> DEFINE born == {k \in Children : child[k] # "unborn"}
<1>1. PICK n \in 0..MaxSpawns : \A k \in Children : child[k] = "unborn" <=> k > n
  BY DEF BornInOrder
<1>2. born \in SUBSET Children /\ \A k \in Children : k \notin born <=> k > n
  BY <1>1
<1>3. Cardinality(born) = n
  <2> HIDE DEF born
  <2> QED
    BY <1>2, SpawnedCount
<1> QED
  BY <1>1, <1>3 DEF spawned

(* A step that starts none leaves their number.                              *)
LEMMA NoBirth ==
  ASSUME BornInOrder,
         \A k \in Children : child'[k] = "unborn" <=> child[k] = "unborn"
  PROVE  BornInOrder' /\ spawned' = spawned
<1>1. BornInOrder'
  BY DEF BornInOrder, Children
<1>2. {k \in Children : child'[k] # "unborn"} = {k \in Children : child[k] # "unborn"}
  OBVIOUS
<1> QED
  BY <1>1, <1>2 DEF spawned, Children

(* The types, in parts.                                                      *)
TaskState ==
  [pc : {"prepare", "idle", "up", "starting", "settling", "head", "hasura", "stopping",
         "stoppingAgain", "hung", "backoff", "closing", "exiting", "exited"},
   target : 0..MaxSpawns]
FlagsTyped ==
  /\ weStarted \in BOOLEAN /\ gentok \in BOOLEAN /\ managing \in BOOLEAN
  /\ restarting \in BOOLEAN /\ healthy \in BOOLEAN /\ timerOn \in BOOLEAN
  /\ progressed \in BOOLEAN /\ overlapped \in BOOLEAN
ProcessTyped ==
  /\ child \in [Children -> {"unborn", "alive", "terminating", "killed", "dead"}]
  /\ bound \subseteq Children /\ proc \in 0..MaxSpawns

(* They are the parts of it.                                                 *)
LEMMA TypeParts ==
  HyperIndexerTypeOK <=> /\ ProcessTyped /\ FlagsTyped /\ quiet \in 0..MaxStall + 1
                         /\ task \in [IndexerTasks -> TaskState]
<1>1. FlagsTyped <=> /\ {weStarted, gentok, managing, restarting, healthy, timerOn,
                         progressed} \subseteq BOOLEAN
                     /\ overlapped \in BOOLEAN
  BY Zenon DEF FlagsTyped
<1> QED
  BY <1>1 DEF HyperIndexerTypeOK, ProcessTyped, TaskState

(* And after a step.                                                         *)
LEMMA TypePartsNext ==
  ASSUME ProcessTyped', FlagsTyped', (quiet \in 0..MaxStall + 1)',
         (task \in [IndexerTasks -> TaskState])'
  PROVE  HyperIndexerTypeOK'
<1>1. /\ {weStarted', gentok', managing', restarting', healthy', timerOn',
          progressed'} \subseteq BOOLEAN
      /\ overlapped' \in BOOLEAN
  BY Zenon DEF FlagsTyped
<1> QED
  BY <1>1 DEF HyperIndexerTypeOK, ProcessTyped, TaskState, Children, IndexerTasks

(* What the types say, for the steps.                                        *)
LEMMA HyperIndexerTypes ==
  ASSUME HyperIndexerConstants, HyperIndexerTypeOK
  PROVE  /\ DOMAIN child = Children /\ 0 \notin Children /\ Children \subseteq 0..MaxSpawns
         /\ DOMAIN task = IndexerTasks /\ MainTask \in IndexerTasks /\ HealthChecks \subseteq IndexerTasks
         /\ MainTask \notin HealthChecks /\ \A t \in IndexerTasks : t = MainTask \/ t \in HealthChecks
BY DEF HyperIndexerTypeOK, HyperIndexerConstants, Children, IndexerTasks

-----------------------------------------------------------------------------
(* The invariant.                                                            *)

(* It holds at the start.                                                    *)
LEMMA InitKeeps ==
  ASSUME HyperIndexerConstants, HyperIndexerInit
  PROVE  IInv
<1> USE DEF HyperIndexerInit
<1>1. HyperIndexerTypeOK
  <2>1. ProcessTyped /\ FlagsTyped /\ quiet \in 0..MaxStall + 1
    <3>1. quiet \in 0..MaxStall + 1 /\ proc \in 0..MaxSpawns
      BY DEF HyperIndexerConstants
    <3>2. FlagsTyped
      BY DEF FlagsTyped
    <3> QED
      BY <3>1, <3>2 DEF ProcessTyped
  <2>2. task \in [IndexerTasks -> TaskState]
    BY DEF TaskState, HyperIndexerConstants
  <2> QED
    BY <2>1, <2>2, TypeParts
<1>2. BornInOrder
  <2>1. 0 \in 0..MaxSpawns /\ \A k \in Children : k > 0
    BY DEF HyperIndexerConstants, Children
  <2> QED
    BY <2>1 DEF BornInOrder
<1>3. TasksSeparate
  BY DEF TasksSeparate, IndexerTasks, At, HyperIndexerConstants
<1>4. OneRestart /\ LastChildOnly
  BY DEF OneRestart, LastChildOnly, Restarts, Active, Running, At, Stopping, IndexerTasks,
     HyperIndexerConstants
<1> QED
  BY <1>1, <1>2, <1>3, <1>4 DEF IInv

(* A task goes on, the children as they are: none is started or stopped.     *)
LEMMA StartBeginKeeps ==
  ASSUME HyperIndexerConstants, IInv, NEW t \in IndexerTasks, StartBegin(t)
  PROVE  IInv'
<1> USE DEF StartBegin, Started, Goto, At, processVars, monitorVars
<1>0. HyperIndexerTypeOK /\ BornInOrder /\ TasksSeparate
  BY DEF IInv
<1>1. HyperIndexerTypeOK'
  <2>0. ProcessTyped /\ FlagsTyped /\ quiet \in 0..MaxStall + 1 /\ task \in [IndexerTasks -> TaskState]
    BY <1>0, TypeParts
  <2>1. (task \in [IndexerTasks -> TaskState])'
    BY <2>0 DEF TaskState, IndexerTasks, HyperIndexerConstants
  <2>2. FlagsTyped'
    BY <2>0 DEF FlagsTyped
  <2>3. ProcessTyped' /\ (quiet \in 0..MaxStall + 1)'
    BY <2>0 DEF ProcessTyped, Children
  <2> QED
    BY <2>1, <2>2, <2>3, TypePartsNext
<1>2. BornInOrder' /\ spawned' = spawned
  BY NoBirth, <1>0
<1>3. TasksSeparate'
  BY <1>0, HyperIndexerTypes DEF TasksSeparate, HyperIndexerTypeOK
<1>4. ASSUME ~overlapped'
      PROVE  OneRestart' /\ LastChildOnly'
  <2>1. OneRestart /\ LastChildOnly
    BY <1>4 DEF IInv
  <2>2. OneRestart'
    BY <1>0, <2>1, HyperIndexerTypes DEF OneRestart, Restarts, TasksSeparate, HyperIndexerTypeOK
  <2>3. LastChildOnly'
    BY <1>0, <1>2, <2>1, HyperIndexerTypes DEF LastChildOnly, Active, Running, Stopping,
       HyperIndexerTypeOK
  <2> QED
    BY <2>2, <2>3
<1> QED
  BY <1>1, <1>2, <1>3, <1>4 DEF IInv

(* Another child is started: those before it have exited.                    *)
LEMMA SpawnKeeps ==
  ASSUME HyperIndexerConstants, IInv, NEW t \in IndexerTasks, Spawn(t)
  PROVE  IInv'
<1> USE DEF Spawn, Goto, At, monitorVars
<1>0. HyperIndexerTypeOK /\ BornInOrder /\ TasksSeparate
  BY DEF IInv
<1> DEFINE k == spawned + 1
<1>1. k \in Children /\ child[k] = "unborn" /\ spawned \in 0..MaxSpawns
  BY <1>0, SpawnedFirst DEF Children, HyperIndexerConstants
<1>2. /\ child' = [child EXCEPT ![k] = "alive"] /\ bound' = bound \union {k} /\ proc' = k
  OBVIOUS
<1>3. \A j \in Children : child'[j] = "unborn" <=> j > k
  BY <1>0, <1>1, <1>2, SpawnedFirst DEF HyperIndexerTypeOK, Children
<1>4. BornInOrder' /\ spawned' = k
  <2>1. k \in 0..MaxSpawns
    BY <1>1 DEF Children, HyperIndexerConstants
  <2> DEFINE born == {j \in Children : child'[j] # "unborn"}
  <2>2. spawned' = Cardinality(born)
    BY DEF spawned, Children
  <2> HIDE DEF k
  <2>3. BornInOrder'
    BY <1>3, <2>1 DEF BornInOrder, Children
  <2>4. born \in SUBSET Children /\ \A j \in Children : j \notin born <=> j > k
    BY <1>3
  <2>5. Cardinality(born) = k
    <3> HIDE DEF born
    <3> QED
      BY <2>1, <2>4, SpawnedCount
  <2> QED
    BY <2>2, <2>3, <2>5
<1> HIDE DEF k
<1>5. HyperIndexerTypeOK'
  <2>0. ProcessTyped /\ FlagsTyped /\ quiet \in 0..MaxStall + 1 /\ task \in [IndexerTasks -> TaskState]
    BY <1>0, TypeParts
  <2>1. (task \in [IndexerTasks -> TaskState])'
    BY <2>0 DEF TaskState, IndexerTasks, HyperIndexerConstants
  <2>2. FlagsTyped'
    BY <2>0 DEF FlagsTyped
  <2>3. ProcessTyped' /\ (quiet \in 0..MaxStall + 1)'
    BY <2>0, <1>1, <1>2, HyperIndexerTypes DEF ProcessTyped, Children
  <2> QED
    BY <2>1, <2>2, <2>3, TypePartsNext
<1>6. TasksSeparate'
  BY <1>0, HyperIndexerTypes DEF TasksSeparate, HyperIndexerTypeOK
<1>7. ASSUME ~overlapped'
      PROVE  OneRestart' /\ LastChildOnly'
  <2>1. OneRestart /\ LastChildOnly
    BY <1>7 DEF IInv
  <2>2. OneRestart'
    BY <1>0, <2>1, HyperIndexerTypes DEF OneRestart, Restarts, HyperIndexerTypeOK
  <2>3. \A j \in Children : ~Active(j)
    BY <2>1 DEF LastChildOnly
  <2>4. \A u \in IndexerTasks : u # t => task[u].pc # "starting"
    BY <1>0, <2>1, HyperIndexerTypes DEF OneRestart, Restarts, TasksSeparate
  <2>5. \A j \in Children : j # k => child'[j] = child[j] /\ ~Active(j)'
    BY <1>0, <1>1, <1>2, <2>3, HyperIndexerTypes DEF Active
  <2>6. child'[k] = "alive"
    BY <1>1, <1>2, <1>0, HyperIndexerTypes
  <2>7. \A u \in IndexerTasks : ~Stopping(u)'
    BY <1>0, <2>1, <2>3, HyperIndexerTypes DEF Stopping, LastChildOnly, Active,
       HyperIndexerTypeOK
  <2>8. \A u \in IndexerTasks : task'[u].pc # "starting"
    BY <1>0, <2>4, HyperIndexerTypes DEF HyperIndexerTypeOK
  <2>9. \A j \in Children : Running(j)' => j = k
    BY <2>5 DEF Active, Running
  <2>10. LastChildOnly'
    BY <1>0, <1>1, <1>2, <1>4, <2>5, <2>6, <2>7, <2>8, <2>9, HyperIndexerTypes
       DEF LastChildOnly, Running, Children
  <2> QED
    BY <2>2, <2>10
<1> QED
  BY <1>4, <1>5, <1>6, <1>7 DEF IInv

(* A start is over.                                                          *)
LEMMA SettledKeeps ==
  ASSUME HyperIndexerConstants, IInv, NEW t \in IndexerTasks, Settled(t)
  PROVE  IInv'
<1> USE DEF Settled, Started, Goto, At, processVars
<1>0. HyperIndexerTypeOK /\ BornInOrder /\ TasksSeparate
  BY DEF IInv
<1>1. HyperIndexerTypeOK'
  <2>0. ProcessTyped /\ FlagsTyped /\ quiet \in 0..MaxStall + 1 /\ task \in [IndexerTasks -> TaskState]
    BY <1>0, TypeParts
  <2>1. (task \in [IndexerTasks -> TaskState])'
    BY <2>0 DEF TaskState, IndexerTasks, HyperIndexerConstants
  <2>2. FlagsTyped'
    BY <2>0 DEF FlagsTyped
  <2>3. ProcessTyped' /\ (quiet \in 0..MaxStall + 1)'
    BY <2>0 DEF ProcessTyped, Children
  <2> QED
    BY <2>1, <2>2, <2>3, TypePartsNext
<1>2. BornInOrder' /\ spawned' = spawned
  BY NoBirth, <1>0
<1>3. TasksSeparate'
  BY <1>0, HyperIndexerTypes DEF TasksSeparate, HyperIndexerTypeOK
<1>4. ASSUME ~overlapped'
      PROVE  OneRestart' /\ LastChildOnly'
  <2>1. OneRestart /\ LastChildOnly
    BY <1>4 DEF IInv
  <2>2. OneRestart'
    BY <1>0, <2>1, HyperIndexerTypes DEF OneRestart, Restarts, TasksSeparate, HyperIndexerTypeOK
  <2>3. LastChildOnly'
    BY <1>0, <1>2, <2>1, HyperIndexerTypes DEF LastChildOnly, Active, Running, Stopping,
       HyperIndexerTypeOK
  <2> QED
    BY <2>2, <2>3
<1> QED
  BY <1>1, <1>2, <1>3, <1>4 DEF IInv

(* What a task may be at after a stop, or while it waits for one.            *)
LEMMA AfterStopPcs ==
  ASSUME NEW t \in IndexerTasks
  PROVE  /\ t # MainTask => AfterStop(t) = "backoff"
         /\ t = MainTask => AfterStop(t) \in {"closing", "exiting"}
BY DEF AfterStop, At

(* A stop begins: a check that restarts, or the main program that shuts down.*)
LEMMA StopKeeps ==
  ASSUME HyperIndexerConstants, IInv, NEW t \in IndexerTasks, Stop(t),
         {managing', restarting', healthy', timerOn', progressed', overlapped'} \subseteq BOOLEAN,
         quiet' \in 0..MaxStall + 1,
         t = MainTask => /\ task[t].pc \in {"up", "closing"}
                         /\ ~timerOn' /\ restarting' = restarting /\ overlapped' = overlapped,
         t # MainTask => /\ task[t].pc \in {"idle", "hasura"} /\ restarting'
                         /\ overlapped' = (overlapped \/ restarting)
                         /\ task[t].pc = "idle" => timerOn
                         /\ timerOn' = timerOn
  PROVE  IInv'
<1> USE DEF Stop, Goto, At
<1>0. HyperIndexerTypeOK /\ BornInOrder /\ TasksSeparate
  BY DEF IInv
<1>1. task' = [task EXCEPT ![t] =
                 [pc |-> IF proc = 0 THEN AfterStop(t)
                         ELSE IF task[t].pc = "closing" THEN "stoppingAgain" ELSE "stopping",
                  target |-> proc]]
  BY <1>0, HyperIndexerTypes
<1>2. child' = [k \in Children |-> IF k = proc /\ child[k] = "alive"
                                   THEN "terminating" ELSE child[k]]
  BY <1>0, HyperIndexerTypes DEF HyperIndexerTypeOK
<1>3. UNCHANGED <<bound, proc, weStarted, gentok>>
  OBVIOUS
<1>4. HyperIndexerTypeOK'
  <2>0. ProcessTyped /\ FlagsTyped /\ quiet \in 0..MaxStall + 1 /\ task \in [IndexerTasks -> TaskState]
    BY <1>0, TypeParts
  <2>1. (task \in [IndexerTasks -> TaskState])'
    BY <2>0, <1>1, AfterStopPcs DEF TaskState, IndexerTasks, ProcessTyped, HyperIndexerConstants
  <2>2. FlagsTyped'
    BY <2>0, <1>3 DEF FlagsTyped
  <2>3. ProcessTyped' /\ (quiet \in 0..MaxStall + 1)'
    BY <2>0, <1>2, <1>3 DEF ProcessTyped, Children
  <2> QED
    BY <2>1, <2>2, <2>3, TypePartsNext
<1>5. BornInOrder' /\ spawned' = spawned
  BY NoBirth, <1>0, <1>2
<1>6. TasksSeparate'
  BY <1>0, <1>1, AfterStopPcs, HyperIndexerTypes DEF TasksSeparate, HyperIndexerTypeOK
<1>7. ASSUME ~overlapped'
      PROVE  OneRestart' /\ LastChildOnly'
  <2>1. OneRestart /\ LastChildOnly
    BY <1>0, <1>7 DEF IInv, HyperIndexerTypeOK
  <2>2. \A u \in IndexerTasks : u # t => task'[u] = task[u]
    BY <1>0, <1>1, HyperIndexerTypes
  <2>3. OneRestart'
    BY <1>0, <1>7, <2>1, <2>2, HyperIndexerTypes DEF OneRestart, Restarts, HyperIndexerTypeOK,
       TasksSeparate
  <2>4. \A k \in Children : Active(k)' <=> Active(k)
    BY <1>2 DEF Active
  <2>5. \A k \in Children : Running(k)' <=> Running(k)
    BY <1>2 DEF Running
  <2>6. task'[t].target = proc /\ task'[t].pc # "starting"
    BY <1>0, <1>1, AfterStopPcs, HyperIndexerTypes DEF HyperIndexerTypeOK
  <2>7. Stopping(t)' => proc # 0
    BY <1>0, <1>1, AfterStopPcs, HyperIndexerTypes DEF Stopping, HyperIndexerTypeOK
  <2>8. proc # 0 => /\ proc \in Children /\ child'[proc] = "terminating"
    BY <1>0, <1>2, <2>1 DEF LastChildOnly, Running, HyperIndexerTypeOK, HyperIndexerConstants,
       Children
  <2>9. \A u \in IndexerTasks : Stopping(u)' =>
          task'[u].target \in Children /\ child'[task'[u].target] \in {"terminating", "killed"}
    BY <1>2, <2>1, <2>2, <2>6, <2>7, <2>8 DEF LastChildOnly, Stopping
  <2>10. \A u \in IndexerTasks : task'[u].pc = "starting" => \A k \in Children : ~Active(k)'
    BY <2>1, <2>2, <2>4, <2>6 DEF LastChildOnly
  <2>11. LastChildOnly'
    BY <1>3, <1>5, <2>1, <2>4, <2>5, <2>8, <2>9, <2>10 DEF LastChildOnly, Running, Stopping,
       Children, IndexerTasks
  <2> QED
    BY <2>3, <2>11
<1> QED
  BY <1>4, <1>5, <1>6, <1>7 DEF IInv

(* A stop that waits too long kills its child, which runs no longer.         *)
LEMMA StopTimesOutKeeps ==
  ASSUME HyperIndexerConstants, IInv, NEW t \in IndexerTasks, StopTimesOut(t)
  PROVE  IInv'
<1> USE DEF StopTimesOut, Goto, At, monitorVars
<1>0. HyperIndexerTypeOK /\ BornInOrder /\ TasksSeparate
  BY DEF IInv
<1>1. task' = [task EXCEPT ![t] = [pc |-> AfterStop(t), target |-> 0]] /\ Stopping(t)
  OBVIOUS
<1>2. \A k \in Children : child'[k] = IF k = task[t].target /\ Running(k)
                                      THEN "killed" ELSE child[k]
  BY <1>0, HyperIndexerTypes DEF HyperIndexerTypeOK
<1>3. bound' \subseteq bound /\ proc' = 0 /\ UNCHANGED <<quiet, overlapped>>
  OBVIOUS
<1>4. HyperIndexerTypeOK'
  <2>0. ProcessTyped /\ FlagsTyped /\ quiet \in 0..MaxStall + 1 /\ task \in [IndexerTasks -> TaskState]
    BY <1>0, TypeParts
  <2>1. (task \in [IndexerTasks -> TaskState])'
    BY <2>0, <1>1, AfterStopPcs DEF TaskState, IndexerTasks, HyperIndexerConstants
  <2>2. FlagsTyped'
    BY <2>0 DEF FlagsTyped
  <2>3. ProcessTyped' /\ (quiet \in 0..MaxStall + 1)'
    <3>1. child' \in [Children -> {"unborn", "alive", "terminating", "killed", "dead"}]
      BY <2>0 DEF ProcessTyped
    <3>2. proc' \in 0..MaxSpawns
      BY <1>3 DEF HyperIndexerConstants
    <3> QED
      BY <1>3, <2>0, <3>1, <3>2 DEF ProcessTyped, Children
  <2> QED
    BY <2>1, <2>2, <2>3, TypePartsNext
<1>5. BornInOrder' /\ spawned' = spawned
  BY NoBirth, <1>0, <1>2 DEF Running
<1>6. TasksSeparate'
  BY <1>0, <1>1, AfterStopPcs, HyperIndexerTypes DEF TasksSeparate, HyperIndexerTypeOK,
     Stopping
<1>7. ASSUME ~overlapped'
      PROVE  OneRestart' /\ LastChildOnly'
  <2>1. OneRestart /\ LastChildOnly
    BY <1>7 DEF IInv
  <2>2. \A u \in IndexerTasks : u # t => task'[u] = task[u]
    BY <1>0, <1>1, HyperIndexerTypes
  <2>3. task'[t].pc \notin {"starting", "stopping", "stoppingAgain"}
    BY <1>0, <1>1, AfterStopPcs, HyperIndexerTypes
  <2>4. OneRestart'
    <3>1. \A c \in HealthChecks : Restarts(c)' => Restarts(c)
      BY <1>0, <1>1, <2>2, HyperIndexerTypes DEF Restarts, Stopping, TasksSeparate
    <3> QED
      BY <2>1, <3>1 DEF OneRestart
  <2>5. task[t].target \in Children /\ task[t].target = spawned
    BY <1>1, <2>1 DEF LastChildOnly, Active
  <2>6. \A k \in Children : ~Running(k)'
    BY <1>2, <2>1, <2>5 DEF LastChildOnly, Active, Running
  <2>7. \A k \in Children : Active(k)' => Active(k)
    BY <1>2 DEF Active, Running
  <2>8. \A k \in Children : child[k] \in {"terminating", "killed"}
                              => child'[k] \in {"terminating", "killed"}
    BY <1>2
  <2>9. \A u \in IndexerTasks : Stopping(u)' => Stopping(u) /\ task'[u] = task[u]
    BY <2>2, <2>3 DEF Stopping
  <2>10. \A u \in IndexerTasks : task'[u].pc = "starting" => task[u].pc = "starting"
    BY <2>2, <2>3
  <2>11. LastChildOnly'
    BY <1>3, <1>5, <2>1, <2>6, <2>7, <2>8, <2>9, <2>10 DEF LastChildOnly, Children, IndexerTasks
  <2> QED
    BY <2>4, <2>11
<1> QED
  BY <1>4, <1>5, <1>6, <1>7 DEF IInv

(* A child exits: it is the current one, or there is none.                   *)
LEMMA ChildExitsKeeps ==
  ASSUME HyperIndexerConstants, IInv, NEW k \in Children, ChildExits(k)
  PROVE  IInv'
<1> USE DEF ChildExits, At, monitorVars
<1>0. HyperIndexerTypeOK /\ BornInOrder /\ TasksSeparate
  BY DEF IInv
<1>1. /\ child' = [child EXCEPT ![k] = "dead"] /\ Active(k)
      /\ proc' = IF k \in bound THEN 0 ELSE proc
      /\ UNCHANGED <<bound, weStarted, gentok, managing, restarting, healthy, timerOn,
                     progressed, quiet, overlapped>>
  BY DEF Active
<1>2. \A t \in IndexerTasks :
        \/ task'[t] = task[t] /\ ~(Stopping(t) /\ task[t].target = k)
        \/ task'[t] = [task[t] EXCEPT !.pc = "hung"] /\ Stopping(t)
  OBVIOUS
<1>3. HyperIndexerTypeOK'
  <2>0. ProcessTyped /\ FlagsTyped /\ quiet \in 0..MaxStall + 1 /\ task \in [IndexerTasks -> TaskState]
    BY <1>0, TypeParts
  <2>1. (task \in [IndexerTasks -> TaskState])'
    BY <2>0 DEF TaskState, IndexerTasks
  <2>2. FlagsTyped'
    BY <2>0, <1>1 DEF FlagsTyped
  <2>3. ProcessTyped' /\ (quiet \in 0..MaxStall + 1)'
    BY <2>0, <1>1 DEF ProcessTyped, Children, HyperIndexerConstants
  <2> QED
    BY <2>1, <2>2, <2>3, TypePartsNext
<1>4. BornInOrder' /\ spawned' = spawned
  BY NoBirth, <1>0, <1>1, HyperIndexerTypes DEF Active
<1>5. \A t \in IndexerTasks : task'[t].pc = task[t].pc \/ (task'[t].pc = "hung" /\ Stopping(t))
  BY <1>0, <1>2 DEF HyperIndexerTypeOK
<1>6. TasksSeparate'
  BY <1>0, <1>1, <1>5, HyperIndexerTypes DEF TasksSeparate, Stopping
<1>7. ASSUME ~overlapped'
      PROVE  OneRestart' /\ LastChildOnly'
  <2>1. OneRestart /\ LastChildOnly
    BY <1>1, <1>7 DEF IInv
  <2>2. \A c \in HealthChecks : Restarts(c)' => Restarts(c)
    BY <1>0, <1>5, HyperIndexerTypes DEF Restarts, Stopping, TasksSeparate
  <2>3. OneRestart'
    BY <1>1, <2>1, <2>2 DEF OneRestart
  <2>4. \A j \in Children : ~Active(j)' /\ ~Running(j)'
    BY <1>0, <1>1, <2>1, HyperIndexerTypes DEF LastChildOnly, Active, Running
  <2>5. proc' = 0
    <3>1. proc # 0 => proc \in Children /\ proc = k /\ proc \in bound
      BY <1>0, <1>1, <2>1 DEF LastChildOnly, Active, Running, HyperIndexerTypeOK, Children,
         HyperIndexerConstants
    <3> QED
      BY <1>1, <3>1
  <2>6. \A t \in IndexerTasks : ~Stopping(t)'
    BY <1>0, <1>1, <1>2, <1>5, <2>1 DEF LastChildOnly, Active, Stopping, HyperIndexerTypeOK
  <2> QED
    BY <2>3, <2>4, <2>5, <2>6 DEF LastChildOnly, Children, IndexerTasks
<1> QED
  BY <1>3, <1>4, <1>6, <1>7 DEF IInv

(* A check goes on or ends, and time passes, without a restart.              *)
LEMMA GoesOnKeeps ==
  ASSUME HyperIndexerConstants, IInv,
         UNCHANGED <<processVars, managing, restarting, overlapped>>,
         {healthy', timerOn', progressed'} \subseteq BOOLEAN, quiet' \in 0..MaxStall + 1,
         \/ UNCHANGED <<task, timerOn>>
         \/ \E c \in HealthChecks, pc \in {"idle", "head", "hasura"} :
              /\ task[c].pc \in {"idle", "head", "hasura"} /\ Goto(c, pc)
              /\ task[c].pc = "idle" => timerOn
              /\ UNCHANGED timerOn
         \/ \E pc \in {"up", "closing", "exiting", "exited"} :
              /\ Goto(MainTask, pc)
              /\ task[MainTask].pc \in {"prepare", "up", "closing", "exiting"}
  PROVE  IInv'
<1> USE DEF Goto, At, processVars
<1>0. HyperIndexerTypeOK /\ BornInOrder /\ TasksSeparate
  BY DEF IInv
<1>1. HyperIndexerTypeOK'
  <2>0. ProcessTyped /\ FlagsTyped /\ quiet \in 0..MaxStall + 1 /\ task \in [IndexerTasks -> TaskState]
    BY <1>0, TypeParts
  <2>1. (task \in [IndexerTasks -> TaskState])'
    BY <2>0 DEF TaskState, IndexerTasks, HyperIndexerConstants
  <2>2. FlagsTyped'
    BY <2>0 DEF FlagsTyped
  <2>3. ProcessTyped' /\ (quiet \in 0..MaxStall + 1)'
    BY <2>0 DEF ProcessTyped, Children
  <2> QED
    BY <2>1, <2>2, <2>3, TypePartsNext
<1>2. BornInOrder' /\ spawned' = spawned
  BY NoBirth, <1>0
<1>3. TasksSeparate'
  BY <1>0, HyperIndexerTypes DEF TasksSeparate, HyperIndexerTypeOK
<1>4. \A t \in IndexerTasks :
        \/ task'[t] = task[t]
        \/ task'[t].pc \in {"idle", "head", "hasura", "up", "closing", "exiting", "exited"}
  BY <1>0, HyperIndexerTypes DEF HyperIndexerTypeOK
<1>5. ASSUME ~overlapped'
      PROVE  OneRestart' /\ LastChildOnly'
  <2>1. OneRestart /\ LastChildOnly
    BY <1>5 DEF IInv
  <2>2. OneRestart'
    BY <1>4, <2>1, HyperIndexerTypes, <1>0 DEF OneRestart, Restarts
  <2>3. LastChildOnly'
    BY <1>2, <1>4, <2>1 DEF LastChildOnly, Active, Running, Stopping, Children, IndexerTasks
  <2> QED
    BY <2>2, <2>3
<1> QED
  BY <1>1, <1>2, <1>3, <1>5 DEF IInv

(* A restart.                                                                *)
LEMMA RestartKeeps ==
  ASSUME HyperIndexerConstants, IInv, NEW c \in HealthChecks, Restart(c),
         task[c].pc = "hasura" \/ (task[c].pc = "idle" /\ timerOn)
  PROVE  IInv'
<1>1. HyperIndexerTypeOK /\ c \in IndexerTasks /\ c # MainTask
  BY HyperIndexerTypes DEF IInv
<1> QED
  BY <1>1, StopKeeps DEF Restart, HyperIndexerTypeOK

(* Every step keeps it.                                                      *)
LEMMA StepKeeps ==
  ASSUME HyperIndexerConstants, IInv, [HyperIndexerNext]_hyperIndexerVars
  PROVE  IInv'
<1>0. HyperIndexerTypeOK
  BY DEF IInv
<1>1. CASE PrepareExternal
  BY <1>0, <1>1, GoesOnKeeps DEF PrepareExternal, At, HyperIndexerTypeOK
<1>2. CASE Shutdown
  <2>1. CASE managing
    BY <1>0, <1>2, <2>1, StopKeeps, HyperIndexerTypes DEF Shutdown, At, HyperIndexerTypeOK
  <2>2. CASE ~managing
    BY <1>0, <1>2, <2>2, GoesOnKeeps, AfterStopPcs, HyperIndexerTypes
       DEF Shutdown, At, HyperIndexerTypeOK
  <2> QED
    BY <2>1, <2>2
<1>3. CASE Exit
  BY <1>0, <1>3, GoesOnKeeps DEF Exit, At, HyperIndexerTypeOK, monitorVars
<1>4. ASSUME NEW c \in HealthChecks, CheckBegin(c)
      PROVE  IInv'
  BY <1>0, <1>4, RestartKeeps, GoesOnKeeps DEF CheckBegin, At, Rest, HyperIndexerTypeOK
<1>5. ASSUME NEW c \in HealthChecks, HealthCheckStep(c)
      PROVE  IInv'
  <2>1. CASE HeadRead(c)
    BY <1>0, <2>1, GoesOnKeeps DEF HeadRead, At, Rest, HyperIndexerTypeOK
  <2>2. CASE HasuraFails(c)
    BY <1>0, <2>2, RestartKeeps, GoesOnKeeps DEF HasuraFails, At, Rest, HyperIndexerTypeOK
  <2>3. CASE StallRestart(c) \/ LagRestart(c)
    BY <2>3, RestartKeeps DEF StallRestart, LagRestart, At
  <2>4. CASE StallExtended(c)
    BY <1>0, <2>4, GoesOnKeeps DEF StallExtended, At, Rest, HyperIndexerTypeOK
  <2>5. CASE CheckPasses(c)
    BY <1>0, <2>5, GoesOnKeeps DEF CheckPasses, At, Rest, HyperIndexerTypeOK
  <2> QED
    BY <1>5, <2>1, <2>2, <2>3, <2>4, <2>5 DEF HealthCheckStep
<1>6. CASE \E t \in IndexerTasks : TaskStep(t)
  BY <1>6, StartBeginKeeps, SpawnKeeps, SettledKeeps, StopTimesOutKeeps DEF TaskStep
<1>7. CASE Progress
  BY <1>0, <1>7, GoesOnKeeps DEF Progress, HyperIndexerTypeOK, HyperIndexerConstants
<1>8. CASE Tick
  BY <1>0, <1>8, GoesOnKeeps DEF Tick, HyperIndexerTypeOK, HyperIndexerConstants, monitorVars
<1>9. CASE UNCHANGED hyperIndexerVars
  BY <1>0, <1>9, GoesOnKeeps DEF hyperIndexerVars, processVars, HyperIndexerTypeOK
<1> QED
  BY <1>1, <1>2, <1>3, <1>4, <1>5, <1>6, <1>7, <1>8, <1>9, ChildExitsKeeps DEF HyperIndexerNext

-----------------------------------------------------------------------------
(* Theorems.                                                                 *)

(* The inductive invariant holds.                                            *)
THEOREM HyperIndexerInvariant ==
  ASSUME HyperIndexerConstants
  PROVE  HyperIndexerSpec => []IInv
BY InitKeeps, StepKeeps, PTL DEF HyperIndexerSpec

(* The variables keep their types.                                           *)
THEOREM HyperIndexerTyped ==
  ASSUME HyperIndexerConstants
  PROVE  HyperIndexerSpec => []HyperIndexerTypeOK
BY HyperIndexerInvariant, PTL DEF IInv

(* However crashes, health checks, stops that time out and the shutdown      *)
(* interleave, one indexer runs at a time, unless two checks restart at once.*)
THEOREM IndexerAlone ==
  ASSUME HyperIndexerConstants
  PROVE  HyperIndexerSpec => []OneIndexer
<1>1. IInv => OneIndexer
  <2> DEFINE run == {k \in Children : Running(k)}
  <2> SUFFICES ASSUME IInv, ~overlapped
               PROVE  Cardinality(run) <= 1
    BY DEF OneIndexer
  <2>1. run = {} \/ run = {proc}
    BY DEF IInv, LastChildOnly
  <2> HIDE DEF run
  <2>2. Cardinality({}) = 0 /\ Cardinality({proc}) = 1
    BY FS_EmptySet, FS_Singleton
  <2> QED
    BY <2>1, <2>2
<1> QED
  BY <1>1, HyperIndexerInvariant, PTL

-----------------------------------------------------------------------------
(* What is made of the output.                                              *)
(* The error suppressor: the count that is not yet logged is the suppressor's*)
(* own, so the errors it has seen bound it.                                 *)
OutputIInv ==
  /\ IndexerOutputTypeOK
  /\ ErrorsAccounted
  /\ seen <= MaxErrorLines
(* The later of two blocks is a block.                                      *)
LEMMA LaterBlock ==
  ASSUME NEW n \in Nat, NEW a \in 0..n, NEW b \in 0..n
  PROVE  Max({a, b}) \in 0..n
BY DEF Max
(* Nothing has been seen at first.                                          *)
LEMMA OutputStarts ==
  ASSUME IndexerOutputConstants, IndexerOutputInit PROVE OutputIInv
BY DEF IndexerOutputInit, IndexerOutputConstants, OutputIInv, IndexerOutputTypeOK, ErrorsAccounted, NoSuppression

(* Every line keeps the account, and so does the time between them.         *)
LEMMA OutputStep ==
  ASSUME IndexerOutputConstants, OutputIInv, [IndexerOutputNext]_outputVars
  PROVE  OutputIInv'
<1> USE DEF IndexerOutputConstants, OutputIInv, IndexerOutputTypeOK, ErrorsAccounted, suppressorVars, blockVars, EmitStatus
<1>0. /\ suppression \in [on : BOOLEAN, count : 0..MaxErrorLines, idle : 0..Window + 1]
      /\ seen \in 0..MaxErrorLines /\ logged \in 0..MaxErrorLines /\ summarised \in 0..MaxErrorLines
      /\ seen = logged + summarised + suppression.count
      /\ Window \in Nat /\ MaxErrorLines \in Nat /\ suppression.count \in Nat
  OBVIOUS
<1>1. CASE TransientError
  <2>0. UNCHANGED <<blockVars, sinceReset, cleared>> /\ seen < MaxErrorLines /\ seen' = seen + 1
    BY <1>1 DEF TransientError
  <2>1. CASE suppression.on /\ suppression.idle <= Window
    <3>1. suppression' = [suppression EXCEPT !.count = @ + 1, !.idle = 0]
          /\ UNCHANGED <<logged, summarised>>
      BY <1>1, <2>1 DEF TransientError
    <3> HIDE DEF IndexerOutputConstants, OutputIInv, IndexerOutputTypeOK, ErrorsAccounted
    <3>2. suppression.count + 1 \in 0..MaxErrorLines /\ 0 \in 0..Window + 1
      BY <1>0, <2>0
    <3>3. suppression' \in [on : BOOLEAN, count : 0..MaxErrorLines, idle : 0..Window + 1]
          /\ suppression'.count = suppression.count + 1
      BY <3>1, <3>2, <1>0
    <3> QED BY <1>0, <2>0, <3>1, <3>3 DEF OutputIInv, IndexerOutputTypeOK, ErrorsAccounted
  <2>2. CASE ~(suppression.on /\ suppression.idle <= Window)
    <3>1. suppression' = [NoSuppression EXCEPT !.on = TRUE]
          /\ logged' = logged + 1 /\ summarised' = summarised + suppression.count
      BY <1>1, <2>2 DEF TransientError
    <3> HIDE DEF IndexerOutputConstants, OutputIInv, IndexerOutputTypeOK, ErrorsAccounted
    <3>2. 0 \in 0..MaxErrorLines /\ 0 \in 0..Window + 1
      BY <1>0
    <3>3. suppression' \in [on : BOOLEAN, count : 0..MaxErrorLines, idle : 0..Window + 1]
          /\ suppression'.count = 0
      BY <3>1, <3>2 DEF NoSuppression
    <3> QED BY <1>0, <2>0, <3>1, <3>3 DEF OutputIInv, IndexerOutputTypeOK, ErrorsAccounted
  <2> QED BY <2>1, <2>2
<1>2. CASE ReadyLine BY <1>2 DEF ReadyLine
<1>3. CASE RunningLine BY <1>3 DEF RunningLine
<1>4. CASE MetadataWarning BY <1>4 DEF MetadataWarning, Flush, NoSuppression
<1>5. CASE Heartbeat BY <1>5 DEF Heartbeat
<1>6. CASE ChildStarted BY <1>6 DEF ChildStarted
<1>7. CASE OutputTick
  <2> Window \in Nat /\ RateLimitTTL \in Nat /\ MaxErrorLines \in Nat
    OBVIOUS
  <2>1. suppression' \in [on : BOOLEAN, count : 0..MaxErrorLines, idle : 0..Window + 1]
        /\ suppression'.count = suppression.count
    BY <1>7 DEF OutputTick
  <2> QED BY <1>7, <2>1 DEF OutputTick
<1>8. ASSUME NEW b \in 1..MaxLineBlock, SlowHandlerLine(b) PROVE OutputIInv'
  BY <1>8, LaterBlock DEF SlowHandlerLine
<1>9. ASSUME NEW b \in 1..MaxLineBlock, SyncedLine(b) PROVE OutputIInv'
  BY <1>9, LaterBlock DEF SyncedLine
<1>10. ASSUME NEW b \in 1..MaxLineBlock, NEW r \in b..MaxLineBlock, ProgressLine(b, r) PROVE OutputIInv'
  <2>1. Max({lastParsed, b}) \in 0..MaxLineBlock /\ Max({lastRemote, r}) \in 0..MaxLineBlock
    BY LaterBlock
  <2> QED BY <1>10, <2>1 DEF ProgressLine
<1>11. ASSUME NEW isError \in BOOLEAN, NEW resetsIn \in BOOLEAN, ErrorLine(isError, resetsIn) PROVE OutputIInv'
  <2>1. suppression' \in [on : BOOLEAN, count : 0..MaxErrorLines, idle : 0..Window + 1]
        /\ suppression'.count = 0 /\ summarised' = summarised + suppression.count
        /\ UNCHANGED <<seen, logged>>
    BY <1>11, <1>0 DEF ErrorLine, Flush, NoSuppression
  <2>2. sinceReset' \in 0..RateLimitTTL + 1 /\ UNCHANGED cleared
    BY <1>11 DEF ErrorLine
  <2>3. {lastParsed', lastRemote'} \subseteq 0..MaxLineBlock
        /\ status'.is \in {"none", "syncing", "synced", "indexer_ready", "running", "error"}
    BY <1>11 DEF ErrorLine
  <2> HIDE DEF IndexerOutputConstants, ErrorsAccounted
  <2>4. seen' = logged' + summarised' + suppression'.count /\ summarised' \in 0..MaxErrorLines
    BY <1>0, <2>1
  <2>5. IndexerOutputTypeOK'
    <3>1. {seen', logged', summarised'} \subseteq 0..MaxErrorLines
      BY <1>0, <2>1, <2>4
    <3>2. cleared' \in 0..1
      BY <2>2
    <3> QED BY <3>1, <3>2, <2>1, <2>2, <2>3
  <2>6. ErrorsAccounted' /\ seen' <= MaxErrorLines
    BY <1>0, <2>1, <2>4 DEF ErrorsAccounted
  <2> QED BY <2>5, <2>6
<1>12. CASE UNCHANGED outputVars BY <1>12 DEF outputVars
<1> QED
  BY <1>1, <1>2, <1>3, <1>4, <1>5, <1>6, <1>7, <1>8, <1>9, <1>10, <1>11, <1>12 DEF IndexerOutputNext

(* The invariant of the output's reader: its types, and the account of the   *)
(* errors (ErrorSuppressor, parseEnvioLine).                                *)
THEOREM IndexerOutputInvariant ==
  ASSUME IndexerOutputConstants
  PROVE  IndexerOutputSpec => []OutputIInv
<1>1. OutputIInv /\ [IndexerOutputNext]_outputVars => OutputIInv'
  BY OutputStep
<1> QED
  BY <1>1, OutputStarts, PTL DEF IndexerOutputSpec

(* The reader of the output keeps its types, whatever lines come.           *)
THEOREM IndexerOutputTyped ==
  ASSUME IndexerOutputConstants
  PROVE  IndexerOutputSpec => []IndexerOutputTypeOK
<1>1. OutputIInv => IndexerOutputTypeOK
  BY DEF OutputIInv
<1> QED
  BY <1>1, IndexerOutputInvariant, PTL

(* ErrorSuppressor loses no transient error: each is logged, counted in a   *)
(* summary or still counted, for every window and every number of errors.   *)
THEOREM NoErrorLost ==
  ASSUME IndexerOutputConstants
  PROVE  IndexerOutputSpec => []ErrorsAccounted
<1>1. OutputIInv => ErrorsAccounted
  BY DEF OutputIInv
<1> QED
  BY <1>1, IndexerOutputInvariant, PTL
=============================================================================
