-------------------------- MODULE MCPoolStateFetch --------------------------
(* A V4 pool known by its key, fetched before a V3 pool.                    *)
EXTENDS PoolStateFetch

KeyThenV3 == <<"k", "a">>
KindOfBoth == [p \in {"k", "a"} |-> IF p = "k" THEN "v4key" ELSE "v3"]
=============================================================================
