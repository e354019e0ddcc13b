-------------------------- MODULE MCConnectionHost --------------------------
(* ConnectionHost on a small instance: requests and driver instances are   *)
(* interchangeable.                                                         *)
EXTENDS ConnectionHost, TLC

Symmetry == Permutations(Tasks) \cup Permutations(Drivers)
=============================================================================
