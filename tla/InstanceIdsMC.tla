---------------------------- MODULE InstanceIdsMC ----------------------------
(* InstanceIds for TLC.  Two blocks make a word, as 32 and 64 do.          *)
EXTENDS InstanceIds, TLC

Symmetry == Permutations(Workers)

StoredIds == {1, 2, 4}
=============================================================================
