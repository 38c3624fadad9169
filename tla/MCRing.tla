------------------------------- MODULE MCRing -------------------------------
(* Instances of Ring for TLC.                                              *)
EXTENDS Ring

\* What a producer pushes tells who pushed it.
OwnValue == [p \in Producers |-> {p}]
=============================================================================
