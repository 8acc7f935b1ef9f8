------------------------------ MODULE MCAgent ------------------------------
(* The agent with named values, for the runs that bound it.                *)
EXTENDS Agent, TLC

CONSTANTS a1, m1, m2, k1, k2, n1, n2, r1, r2

Symmetry == Permutations({r1, r2}) \cup Permutations({k1, k2})
=============================================================================
