-------------------------------- MODULE Lists --------------------------------
(* The part of a list that a filter or a splice leaves.  SelectSeq gives the *)
(* same list, but is recursive, and nothing can be proved of it here.        *)
EXTENDS Integers, FiniteSets

(* The entries at some places of a list, in their order.                     *)
Kept(list, places) ==
  [k \in 1..Cardinality(places) |->
     list[CHOOSE i \in places : Cardinality({j \in places : j < i}) = k - 1]]
=============================================================================
