---------------------------- MODULE MapUpdaterMC ----------------------------
(* Instances of MapUpdater for TLC: one MapInstanced holds every instance, *)
(* the other base maps are ordinary ones.                                  *)
EXTENDS MapUpdater, TLC

CONSTANTS Container     \* the base map that is a MapInstanced

MCParent == [i \in Instances |-> Container]

(* Workers, and the instances of one container, are interchangeable. *)
Symmetry == Permutations(Workers) \cup Permutations(Instances)
=============================================================================
