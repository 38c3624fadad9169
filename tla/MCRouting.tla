----------------------------- MODULE MCRouting -----------------------------
(* Instances of Routing for TLC.                                           *)
EXTENDS Routing, TLC

CONSTANTS k1, k2

\* k1 prefers the first of two instances, k2 the second.
MCHashOf == [k \in Keys |-> IF k = k1 THEN 0 ELSE 1]

\* Routers differ in nothing but their names.
Symmetry == Permutations(Routers)
=============================================================================
