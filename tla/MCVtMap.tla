------------------------------- MODULE MCVtMap -------------------------------
(* Three keys: two that share a home slot at the end of the index, so that *)
(* probing wraps, and one that lands in their probe path.  The two, and    *)
(* the values, can change places without any other change.                 *)
EXTENDS VtMap, TLC

CONSTANTS k1, k2, k3

MCHash == [k \in Keys |-> IF k = k3 THEN 0 ELSE 7]
MCSymmetry == Permutations({k1, k2}) \cup Permutations(Values)
===============================================================================
