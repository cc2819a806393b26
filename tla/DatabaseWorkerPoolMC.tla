------------------------- MODULE DatabaseWorkerPoolMC -------------------------
(* DatabaseWorkerPool for TLC.  A half applied transaction takes two       *)
(* statements, a deadlock only one.                                        *)
EXTENDS DatabaseWorkerPool, TLC

CONSTANTS Empty,        \* the empty transactions among Queued
          Length        \* the number of statements of the other ones

MCSize == [t \in Transactions |-> IF t \in Empty THEN 0 ELSE IF t \in Singles THEN 1 ELSE Length]

Symmetry == Permutations(Workers) \cup Permutations(Callers) \cup Permutations(Synch)
            \cup Permutations(Directs)
=============================================================================
