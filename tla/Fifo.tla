--------------------------------- MODULE Fifo ---------------------------------
(***************************************************************************)
(* What users of MPSCQueue rely on: one queue, filled by several threads   *)
(* and emptied by one, that neither loses, duplicates nor reorders.  An    *)
(* element is ordered when its Enqueue takes effect, and can be taken once *)
(* that Enqueue has returned.                                              *)
(***************************************************************************)
EXTENDS Sequences

CONSTANT Elements

VARIABLES queue,        \* the elements in the queue, oldest first
          returned,     \* the elements whose Enqueue has returned
          received      \* what the consumer got

vars == <<queue, returned, received>>

SeenBefore(e) ==
    \/ \E i \in DOMAIN queue : queue[i] = e
    \/ \E i \in DOMAIN received : received[i] = e

Init ==
    /\ queue = <<>>
    /\ returned = {}
    /\ received = <<>>

Put(e) ==
    /\ ~SeenBefore(e)
    /\ queue' = Append(queue, e)
    /\ UNCHANGED <<returned, received>>

Return(e) ==
    /\ SeenBefore(e)
    /\ e \notin returned
    /\ returned' = returned \cup {e}
    /\ UNCHANGED <<queue, received>>

Take ==
    /\ queue # <<>>
    /\ Head(queue) \in returned
    /\ received' = Append(received, Head(queue))
    /\ queue' = Tail(queue)
    /\ UNCHANGED returned

Next == (\E e \in Elements : Put(e) \/ Return(e)) \/ Take

Spec == Init /\ [][Next]_vars
=============================================================================
