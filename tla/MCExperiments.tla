---------------------------- MODULE MCExperiments ----------------------------
(* Small instances of Experiments for TLC. *)
EXTENDS Experiments, TLC

Symmetry == Permutations(Item) \union Permutations(Slot) \union Permutations(Exhibit)
=============================================================================
