-------------------------------- MODULE MCGC --------------------------------
(* Instances of GC for TLC. *)
EXTENDS GC, TLC

\* The places for objects are interchangeable.
Symmetry == Permutations(Objects)

=============================================================================
