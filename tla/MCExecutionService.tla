------------------------- MODULE MCExecutionService -------------------------
(***************************************************************************)
(* ExecutionService with small constants.                                   *)
(***************************************************************************)
EXTENDS ExecutionService, TLC

\* Routes, and recovery ticks, are interchangeable: no action and no safety
\* property names one. (Not used by the runs that check liveness.)
Symmetry == Permutations(Routes) \union Permutations(Ticks)
=============================================================================
