----------------------------- MODULE MPSCQueueMC -----------------------------
EXTENDS MPSCQueue, TLC

Symmetry == Permutations(Nodes) \cup Permutations(Producers)
NodeSymmetry == Permutations(Nodes)
=============================================================================
