----------------------------- MODULE MCPassLoop -----------------------------
(* Small instances of the pass loop and of the reorg detector whose reports *)
(* it takes.  They share no state here: Init chooses the one that takes its *)
(* steps.  The pass loop takes them twice: as "Quarantine" every pool       *)
(* passes the routing filter, as "Routing" no route is simulated and nobody *)
(* pauses.  Which pool is which, and which slot a check has in the model,   *)
(* is of no account to their safety.                                        *)
EXTENDS PassLoop, ReorgDetector, TLC

VARIABLE component

ASSUME MCPassLoopAssumption == PassLoopConstants /\ ReorgDetectorConstants

LoopAndDetectorInit ==
  /\ component \in {"Quarantine", "Routing", "ReorgDetector"}
  /\ Init /\ ReorgDetectorInit
  /\ component # "Routing" => passes = [p \in Pools |-> "always"]

LoopAndDetectorNext ==
  /\ UNCHANGED component
  /\ \/ component = "Quarantine" /\ Next /\ UNCHANGED <<passes, reorgVars>>
     \/ component = "Routing" /\ Next /\ UNCHANGED <<hf, quarantine, paused, reorgVars>>
     \/ component = "ReorgDetector" /\ ReorgDetectorNext /\ UNCHANGED vars

LoopAndDetectorSpec ==
  LoopAndDetectorInit /\ [][LoopAndDetectorNext]_<<component, vars, reorgVars>>

(* The detector has more check slots than the loop, which only takes        *)
(* reports.                                                                 *)
Symmetry == Permutations(Pools) \cup Permutations(CheckSlots)
=============================================================================
