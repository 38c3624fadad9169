------------------------------ MODULE MCShard ------------------------------
(* Instances of Shard for TLC.                                             *)
EXTENDS Shard

CONSTANTS k1, k2, k3, p1

Frag(k, s, m) == [key |-> k, seq |-> s, max |-> m]

\* A message whose two fragments meet two processors, one that is never
\* complete, and one of one fragment.
Mixed ==
  [p \in Pushers |-> IF p = p1 THEN {Frag(k1, 0, 1), Frag(k2, 0, 1)}
                     ELSE {Frag(k1, 1, 1), Frag(k3, 0, 0)}]

AnyFragment == [p \in Pushers |-> Fragments]
=============================================================================
