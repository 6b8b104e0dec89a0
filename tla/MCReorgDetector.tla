-------------------------- MODULE MCReorgDetector ---------------------------
(* Small instances of the reorg detector; which slot a check has in the    *)
(* model is of no account to its safety.                                   *)
EXTENDS ReorgDetector, TLC

CheckSymmetry == Permutations(CheckSlots)
=============================================================================
