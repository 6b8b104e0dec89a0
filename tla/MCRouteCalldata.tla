--------------------------- MODULE MCRouteCalldata ---------------------------
(* Routes of two V2 pairs, of which one has more to earn than the other.      *)
EXTENDS RouteCalldata

Sale(in, out) == [kind |-> "V2", in |-> in, out |-> out, encodable |-> TRUE]
V2Routes == {<<Sale(4000, out), Sale(3000, 3100)>> : out \in {4200, 4400}}
==============================================================================
