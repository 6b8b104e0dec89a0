---------------------------- MODULE MCAmmQuotes ----------------------------
(* DODO pools at their target ratio, of several curvatures.                 *)
EXTENDS AmmQuotes

DodoPools ==
  {[kind |-> "DODO", bal |-> <<100, 100>>, target |-> <<100, 100>>, fee |-> 1,
    i |-> i, k |-> k] : i \in {800, 1000}, k \in {0, 100, 1000}}
=============================================================================
