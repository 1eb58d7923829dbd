---------------------------- MODULE MCEntityStore ----------------------------
(* EntityStore for TLC: ids and slots are interchangeable, keys are not. *)
EXTENDS EntityStore, TLC

Symmetry == Permutations(Id) \cup Permutations(Slot)
=============================================================================
