------------------------------ MODULE MCRaports ------------------------------
(* Small instances of Raports for TLC. *)
EXTENDS Raports, TLC

Symmetry == Permutations(Raport)
=============================================================================
