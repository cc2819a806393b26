------------------------------ MODULE MPSCQueue ------------------------------
(***************************************************************************)
(* The lock free queue of common/Threading/MPSCQueue.h: a linked list with *)
(* a stub, producers exchange _head and then link the previous head to     *)
(* their node, one consumer advances _tail and deletes what it leaves.     *)
(*                                                                         *)
(* WorldSocket::_bufferQueue is one: the world thread and the map threads  *)
(* enqueue packets, the network thread dequeues them.                      *)
(*                                                                         *)
(* Every access to an atomic is a step.  The release and acquire orderings *)
(* make the plain write of Node::Data visible before the pointer to the    *)
(* node is, which is what a step per access says.  The allocator may hand  *)
(* out again a node that was deleted.                                      *)
(***************************************************************************)
EXTENDS Integers, Sequences

CONSTANTS Producers,
          Nodes,        \* bound: what the allocator can hand out
          Sends,        \* bound: elements each producer enqueues
          Null

ASSUME MPSCQueueAssumption ==
    /\ Null \notin Nodes
    /\ Sends \in Nat

Elements == Producers \X (1..Sends)

VARIABLES
    head, tail,     \* _head and _tail
    next, data,     \* Node::Next and Node::Data of each node
    live,           \* the nodes that are allocated
    pc,             \* of each producer: "idle", "new" or "link"
    node, prevHead, \* locals of Enqueue
    sent,           \* the number of elements a producer has enqueued
    cpc,            \* of the consumer
    nextNode,       \* the local next of Dequeue
    oldTail,        \* the local tail of Dequeue
    closing,        \* the destructor runs
    received,       \* what Dequeue has returned (a history variable)
    chain           \* the nodes from _tail to _head, in the order of the
                    \* exchanges (a history variable)

memVars == <<head, tail, next, data, live, chain>>
prodVars == <<pc, node, prevHead, sent>>
consVars == <<cpc, nextNode, oldTail, closing, received>>
vars == <<memVars, prodVars, consVars>>

Init ==
    /\ \E stub \in Nodes :
        /\ head = stub
        /\ tail = stub
        /\ live = {stub}
        /\ chain = <<stub>>
    /\ next = [n \in Nodes |-> Null]
    /\ data = [n \in Nodes |-> Null]
    /\ pc = [p \in Producers |-> "idle"]
    /\ node = [p \in Producers |-> Null]
    /\ prevHead = [p \in Producers |-> Null]
    /\ sent = [p \in Producers |-> 0]
    /\ cpc = "idle"
    /\ nextNode = Null
    /\ oldTail = Null
    /\ closing = FALSE
    /\ received = <<>>

-----------------------------------------------------------------------------
(* Enqueue. *)

NewNode(p) ==
    /\ ~closing
    /\ pc[p] = "idle"
    /\ sent[p] < Sends
    /\ \E n \in Nodes \ live :
        /\ live' = live \cup {n}
        /\ next' = [next EXCEPT ![n] = Null]
        /\ data' = [data EXCEPT ![n] = <<p, sent[p] + 1>>]
        /\ node' = [node EXCEPT ![p] = n]
    /\ sent' = [sent EXCEPT ![p] = @ + 1]
    /\ pc' = [pc EXCEPT ![p] = "new"]
    /\ UNCHANGED <<head, tail, chain, prevHead, consVars>>

Exchange(p) ==
    /\ pc[p] = "new"
    /\ prevHead' = [prevHead EXCEPT ![p] = head]
    /\ head' = node[p]
    /\ chain' = Append(chain, node[p])
    /\ pc' = [pc EXCEPT ![p] = "link"]
    /\ UNCHANGED <<tail, next, data, live, node, sent, consVars>>

Link(p) ==
    /\ pc[p] = "link"
    /\ next' = [next EXCEPT ![prevHead[p]] = node[p]]
    /\ node' = [node EXCEPT ![p] = Null]
    /\ prevHead' = [prevHead EXCEPT ![p] = Null]
    /\ pc' = [pc EXCEPT ![p] = "idle"]
    /\ UNCHANGED <<head, tail, data, live, chain, sent, consVars>>

-----------------------------------------------------------------------------
(* Dequeue. *)

(* Mutant: the last node is left to its producer. *)
LoadNextKeepLast ==
    /\ cpc = "idle"
    /\ oldTail' = tail
    /\ nextNode' = next[tail]
    /\ cpc' = IF next[tail] \in {Null, head} THEN "false" ELSE "data"
    /\ UNCHANGED <<memVars, prodVars, closing, received>>

LoadNext ==
    /\ cpc = "idle"
    /\ oldTail' = tail
    /\ nextNode' = next[tail]
    /\ cpc' = IF next[tail] = Null THEN "false" ELSE "data"
    /\ UNCHANGED <<memVars, prodVars, closing, received>>

(* Dequeue returns false. *)
ReturnFalse ==
    /\ cpc = "false"
    /\ ~closing
    /\ cpc' = "idle"
    /\ UNCHANGED <<memVars, prodVars, nextNode, oldTail, closing, received>>

ReadData ==
    /\ cpc = "data"
    /\ received' = Append(received, data[nextNode])
    /\ cpc' = "store"
    /\ UNCHANGED <<memVars, prodVars, nextNode, oldTail, closing>>

(* Mutant: _tail is not advanced. *)
StoreNoTail ==
    /\ cpc = "store"
    /\ cpc' = "delete"
    /\ UNCHANGED <<memVars, prodVars, nextNode, oldTail, closing, received>>

StoreTail ==
    /\ cpc = "store"
    /\ tail' = nextNode
    /\ chain' = Tail(chain)
    /\ cpc' = "delete"
    /\ UNCHANGED <<head, next, data, live, prodVars, nextNode, oldTail, closing, received>>

(* Mutant: the wrong node is deleted. *)
DeleteNext ==
    /\ cpc = "delete"
    /\ live' = live \ {nextNode}
    /\ nextNode' = Null
    /\ oldTail' = Null
    /\ cpc' = "idle"
    /\ UNCHANGED <<head, tail, next, data, chain, prodVars, closing, received>>

DeleteTail ==
    /\ cpc = "delete"
    /\ live' = live \ {oldTail}
    /\ nextNode' = Null
    /\ oldTail' = Null
    /\ cpc' = "idle"
    /\ UNCHANGED <<head, tail, next, data, chain, prodVars, closing, received>>

(* ~MPSCQueue, once no producer can call Enqueue any more: Dequeue until  *)
(* it returns false, then delete the stub.                                 *)
BeginDestroy ==
    /\ cpc = "idle"
    /\ ~closing
    /\ \A p \in Producers : pc[p] = "idle"
    /\ closing' = TRUE
    /\ UNCHANGED <<memVars, prodVars, cpc, nextNode, oldTail, received>>

DeleteStub ==
    /\ closing
    /\ cpc = "false"
    /\ live' = live \ {head}
    /\ cpc' = "destroyed"
    /\ UNCHANGED <<head, tail, next, data, chain, prodVars, nextNode, oldTail, closing, received>>

Terminated ==
    /\ cpc = "destroyed"
    /\ UNCHANGED vars

Enqueue(p) == NewNode(p) \/ Exchange(p) \/ Link(p)

Dequeue == LoadNext \/ ReturnFalse \/ ReadData \/ StoreTail \/ DeleteTail

Next == (\E p \in Producers : Enqueue(p)) \/ Dequeue \/ BeginDestroy \/ DeleteStub \/ Terminated

Spec == Init /\ [][Next]_vars

(* The network thread polls the queue in every Update of the socket, and a *)
(* thread inside Enqueue is scheduled again.                               *)
FairSpec ==
    /\ Spec
    /\ WF_vars(Dequeue)
    /\ \A p \in Producers : WF_vars(Exchange(p) \/ Link(p))

-----------------------------------------------------------------------------
(* Type invariant. *)
TypeOK ==
    /\ head \in Nodes /\ tail \in Nodes
    /\ next \in [Nodes -> Nodes \cup {Null}]
    /\ data \in [Nodes -> Elements \cup {Null}]
    /\ live \subseteq Nodes
    /\ pc \in [Producers -> {"idle", "new", "link"}]
    /\ node \in [Producers -> Nodes \cup {Null}]
    /\ prevHead \in [Producers -> Nodes \cup {Null}]
    /\ sent \in [Producers -> 0..Sends]
    /\ cpc \in {"idle", "false", "data", "store", "delete", "destroyed"}
    /\ nextNode \in Nodes \cup {Null}
    /\ oldTail \in Nodes \cup {Null}
    /\ closing \in BOOLEAN
    /\ received \in Seq(Elements)
    /\ chain \in Seq(Nodes)

(* The consumer deletes nodes while producers hold pointers to them: every *)
(* node that is about to be accessed is allocated.                         *)
NoDanglingNode ==
    /\ cpc # "destroyed" => {head, tail} \subseteq live
    /\ \A p \in Producers : pc[p] \in {"new", "link"} => node[p] \in live
    /\ \A p \in Producers : pc[p] = "link" => prevHead[p] \in live
    /\ cpc \in {"data", "store"} => {nextNode, oldTail} \subseteq live
    /\ cpc = "delete" => oldTail \in live

(* The queue implements Fifo.  An element is in the queue from its         *)
(* exchange to the read of its data.                                       *)
InFlight(p) == IF pc[p] \in {"new", "link"} THEN {<<p, sent[p]>>} ELSE {}

contents ==
    LET taken == IF cpc = "store" THEN 2 ELSE 1
    IN  [i \in 1..(Len(chain) - taken) |-> data[chain[i + taken]]]

returned == UNION {{<<p, k>> : k \in 1..sent[p]} \ InFlight(p) : p \in Producers}

F == INSTANCE Fifo WITH queue <- contents

FifoSpec == F!Spec

(* Whatever is enqueued is received, however the producers interleave.     *)
Delivery ==
    \A e \in Elements :
        (\E i \in DOMAIN contents : contents[i] = e) ~> (\E i \in DOMAIN received : received[i] = e)
=============================================================================
