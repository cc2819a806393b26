------------------------------ MODULE Channel ------------------------------
(***************************************************************************)
(* What the world server relies on when it sends packets to its clients: a *)
(* connection delivers what was sent, in order and once, until it breaks;  *)
(* then the rest is lost, and nothing is delivered any more.               *)
(***************************************************************************)
EXTENDS Integers, Sequences

CONSTANTS Connections, Packets

VARIABLES open,      \* whether a connection can still deliver
          inflight,  \* what was sent and not delivered, oldest first
          received   \* what the client got

vars == <<open, inflight, received>>

Sent(c, p) ==
    \/ \E i \in DOMAIN inflight[c] : inflight[c][i] = p
    \/ \E i \in DOMAIN received[c] : received[c][i] = p

Init ==
    /\ open = [c \in Connections |-> TRUE]
    /\ inflight = [c \in Connections |-> <<>>]
    /\ received = [c \in Connections |-> <<>>]

Send(c, p) ==
    /\ open[c]
    /\ ~Sent(c, p)
    /\ inflight' = [inflight EXCEPT ![c] = Append(@, p)]
    /\ UNCHANGED <<open, received>>

DeliverFirst(c, n) ==
    received' = [received EXCEPT ![c] = @ \o SubSeq(inflight[c], 1, n)]

Deliver(c, n) ==
    /\ open[c]
    /\ DeliverFirst(c, n)
    /\ inflight' = [inflight EXCEPT ![c] = SubSeq(@, n + 1, Len(@))]
    /\ UNCHANGED open

Break(c, n) ==
    /\ open[c]
    /\ DeliverFirst(c, n)
    /\ open' = [open EXCEPT ![c] = FALSE]
    /\ inflight' = [inflight EXCEPT ![c] = <<>>]

Next ==
    \E c \in Connections :
        \/ \E p \in Packets : Send(c, p)
        \/ \E n \in 0 .. Len(inflight[c]) : Deliver(c, n) \/ Break(c, n)

Spec == Init /\ [][Next]_vars
=============================================================================
