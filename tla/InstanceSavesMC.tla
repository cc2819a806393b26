--------------------------- MODULE InstanceSavesMC ---------------------------
(* InstanceSaves for TLC.                                                  *)
EXTENDS InstanceSaves, TLC

Symmetry == Permutations(Players)
=============================================================================
