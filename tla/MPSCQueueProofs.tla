--------------------------- MODULE MPSCQueueProofs ---------------------------
(***************************************************************************)
(* The lock free queue accesses no deleted node and implements Fifo, for   *)
(* any number of producers, any number of elements and any set of nodes    *)
(* that the allocator reuses.                                              *)
(***************************************************************************)
EXTENDS MPSCQueue, SequenceTheorems, TLAPS

Positions == DOMAIN chain

(* The chain runs from _tail to _head over distinct nodes, which are       *)
(* allocated until the destructor deletes the stub.                        *)
ChainShape ==
    /\ 1 \in Positions
    /\ chain[1] = tail
    /\ chain[Len(chain)] = head
    /\ \A i, j \in Positions : chain[i] = chain[j] => i = j
    /\ cpc # "destroyed" => \A i \in Positions : chain[i] \in live

(* The link from the i-th node of the chain to the next one is missing.    *)
Gap(i) == /\ i \in Positions /\ i + 1 \in Positions
          /\ next[chain[i]] = Null

(* The chain is linked except where a producer stands between its two      *)
(* atomic operations; nothing follows _head.                               *)
Links ==
    /\ next[head] = Null
    /\ \A i \in Positions : i + 1 \in Positions =>
          \/ next[chain[i]] = chain[i + 1]
          \/ Gap(i) /\ \E p \in Producers : pc[p] = "link" /\ node[p] = chain[i + 1]

(* A producer's node is allocated, its own, and enters the chain with the  *)
(* exchange; its predecessor waits for the link.                           *)
ProducerNodes ==
    /\ \A p \in Producers : pc[p] \in {"new", "link"} =>
          node[p] \in live /\ data[node[p]] = <<p, sent[p]>> /\ sent[p] # 0
    /\ \A p \in Producers : pc[p] = "new" =>
          next[node[p]] = Null /\ \A i \in Positions : chain[i] # node[p]
    /\ \A p \in Producers : pc[p] = "link" =>
          \E i \in Positions : Gap(i) /\ chain[i] = prevHead[p] /\ chain[i + 1] = node[p]

(* What the consumer has read of the list stays true until it uses it.     *)
ConsumerView ==
    /\ cpc \in {"data", "store"} => /\ 2 \in Positions
                                    /\ oldTail = tail
                                    /\ nextNode = chain[2]
                                    /\ next[tail] = chain[2]
    /\ cpc = "delete" => /\ oldTail \in live
                         /\ \A i \in Positions : chain[i] # oldTail
                         /\ \A p \in Producers : pc[p] \in {"new", "link"} => node[p] # oldTail
    /\ closing => \A p \in Producers : pc[p] = "idle"
    /\ cpc = "destroyed" => closing

(* e has been enqueued: its exchange is done.                              *)
Entered(e) ==
    /\ e \in Elements
    /\ e[2] <= sent[e[1]]
    /\ pc[e[1]] = "new" => e[2] # sent[e[1]]

(* Behind the stub the chain holds elements, each once.                    *)
Payload ==
    /\ \A i \in Positions : i # 1 => Entered(data[chain[i]])
    /\ \A i, j \in Positions : i # 1 /\ j # 1 /\ data[chain[i]] = data[chain[j]] => i = j
    /\ \A i \in DOMAIN received : Entered(received[i])

ListInv == TypeOK /\ ChainShape /\ Links /\ ProducerNodes /\ ConsumerView /\ Payload

(* Every step keeps the types: what is read as data is an element.         *)
LEMMA TypeStep == ASSUME ListInv, [Next]_vars PROVE TypeOK'
<1> USE MPSCQueueAssumption
        DEF ListInv, TypeOK, ChainShape, ConsumerView, memVars, prodVars, consVars,
            Links, ProducerNodes, Payload, Entered, Positions
<1>1. ASSUME NEW p \in Producers, NewNode(p) PROVE TypeOK'
  BY <1>1 DEF NewNode, Elements
<1>2. ASSUME NEW p \in Producers, Exchange(p) PROVE TypeOK'
  BY <1>2 DEF Exchange
<1>3. ASSUME NEW p \in Producers, Link(p) PROVE TypeOK'
  BY <1>3 DEF Link
<1>4. CASE LoadNext
  BY <1>4 DEF LoadNext
<1>5. CASE ReturnFalse
  BY <1>5 DEF ReturnFalse
<1>6. CASE ReadData
  BY <1>6 DEF ReadData
<1>7. CASE StoreTail
  BY <1>7 DEF StoreTail
<1>8. CASE DeleteTail
  BY <1>8 DEF DeleteTail
<1>9. CASE BeginDestroy
  BY <1>9 DEF BeginDestroy
<1>10. CASE DeleteStub
  BY <1>10 DEF DeleteStub
<1>11. CASE Terminated \/ UNCHANGED vars
  BY <1>11 DEF Terminated, vars
<1> QED
  BY <1>1, <1>2, <1>3, <1>4, <1>5, <1>6, <1>7, <1>8, <1>9, <1>10, <1>11
  DEF Next, Enqueue, Dequeue

(* The exchange and the advance of _tail keep the chain a chain.            *)
LEMMA ShapeStep == ASSUME ListInv, [Next]_vars PROVE ChainShape'
<1> USE MPSCQueueAssumption
        DEF ListInv, TypeOK, ChainShape, ConsumerView, memVars, prodVars, consVars,
            Links, ProducerNodes, Positions
<1>1. ASSUME NEW p \in Producers, NewNode(p) PROVE ChainShape'
  BY <1>1 DEF NewNode
<1>2. ASSUME NEW p \in Producers, Exchange(p) PROVE ChainShape'
  BY <1>2 DEF Exchange
<1>3. ASSUME NEW p \in Producers, Link(p) PROVE ChainShape'
  BY <1>3 DEF Link
<1>4. CASE LoadNext
  BY <1>4 DEF LoadNext
<1>5. CASE ReturnFalse
  BY <1>5 DEF ReturnFalse
<1>6. CASE ReadData
  BY <1>6 DEF ReadData
<1>7. CASE StoreTail
  BY <1>7 DEF StoreTail
<1>8. CASE DeleteTail
  BY <1>8 DEF DeleteTail
<1>9. CASE BeginDestroy
  BY <1>9 DEF BeginDestroy
<1>10. CASE DeleteStub
  BY <1>10 DEF DeleteStub
<1>11. CASE Terminated \/ UNCHANGED vars
  BY <1>11 DEF Terminated, vars
<1> QED
  BY <1>1, <1>2, <1>3, <1>4, <1>5, <1>6, <1>7, <1>8, <1>9, <1>10, <1>11
  DEF Next, Enqueue, Dequeue

(* Only the producer that stands before a gap closes it.                   *)
LEMMA LinksStep == ASSUME ListInv, [Next]_vars PROVE Links'
<1> USE MPSCQueueAssumption
        DEF ListInv, TypeOK, ChainShape, ConsumerView, memVars, prodVars, consVars,
            Links, ProducerNodes, Gap, Positions
<1>1. ASSUME NEW p \in Producers, NewNode(p) PROVE Links'
  <2>1. PICK n \in Nodes \ live : next' = [next EXCEPT ![n] = Null]
                                 /\ node' = [node EXCEPT ![p] = n]
    BY <1>1 DEF NewNode
  <2>2. UNCHANGED <<head, chain>> /\ pc[p] = "idle" /\ pc' = [pc EXCEPT ![p] = "new"]
    BY <1>1 DEF NewNode
  <2>3. \A i \in Positions : chain[i] # n
    BY <1>1 DEF NewNode
  <2>4. \A i \in Positions : next'[chain[i]] = next[chain[i]] /\ chain[i] \in Nodes
    BY <2>1, <2>3
  <2>5. \A i \in Positions : Gap(i)' <=> Gap(i)
    BY <2>2, <2>4
  <2>6. \A q \in Producers : pc[q] = "link" => pc'[q] = "link" /\ node'[q] = node[q]
    BY <2>1, <2>2
  <2>7. next'[head] = Null
    BY <2>1
  <2> HIDE DEF Gap
  <2> QED
    BY <2>2, <2>4, <2>5, <2>6, <2>7
<1>2. ASSUME NEW p \in Producers, Exchange(p) PROVE Links'
  BY <1>2 DEF Exchange
<1>3. ASSUME NEW p \in Producers, Link(p) PROVE Links'
  <2>1. PICK i \in Positions : Gap(i) /\ chain[i] = prevHead[p] /\ chain[i + 1] = node[p]
    BY <1>3 DEF Link
  <2>2. /\ next' = [next EXCEPT ![chain[i]] = chain[i + 1]]
        /\ node' = [node EXCEPT ![p] = Null] /\ pc' = [pc EXCEPT ![p] = "idle"]
        /\ UNCHANGED <<head, chain>>
    BY <1>3, <2>1 DEF Link
  <2>3. \A j \in Positions : j # i => next'[chain[j]] = next[chain[j]]
    BY <2>1, <2>2
  <2>4. next'[chain[i]] = chain[i + 1]
    BY <2>1, <2>2
  <2>5. next'[head] = Null
    <3>1. Len(chain) \in Positions /\ Len(chain) # i
      BY <2>1
    <3> QED
      BY <2>3, <3>1
  <2>6. ASSUME NEW j \in Positions, j + 1 \in Positions, j # i, next[chain[j]] # chain[j + 1]
        PROVE  Gap(j)' /\ \E q \in Producers : pc'[q] = "link" /\ node'[q] = chain[j + 1]
    <3>1. Gap(j) /\ \E q \in Producers : pc[q] = "link" /\ node[q] = chain[j + 1]
      BY <2>6
    <3>2. PICK q \in Producers : pc[q] = "link" /\ node[q] = chain[j + 1]
      BY <3>1
    <3>3. chain[j + 1] # chain[i + 1]
      BY <2>1, <2>6
    <3>4. q # p
      BY <3>2, <3>3, <2>1
    <3> QED
      BY <3>1, <3>2, <3>4, <2>2, <2>3, <2>6
  <2> QED
    BY <2>2, <2>3, <2>4, <2>5, <2>6
<1>4. CASE LoadNext
  BY <1>4 DEF LoadNext
<1>5. CASE ReturnFalse
  BY <1>5 DEF ReturnFalse
<1>6. CASE ReadData
  BY <1>6 DEF ReadData
<1>7. CASE StoreTail
  BY <1>7 DEF StoreTail
<1>8. CASE DeleteTail
  BY <1>8 DEF DeleteTail
<1>9. CASE BeginDestroy
  BY <1>9 DEF BeginDestroy
<1>10. CASE DeleteStub
  BY <1>10 DEF DeleteStub
<1>11. CASE Terminated \/ UNCHANGED vars
  BY <1>11 DEF Terminated, vars
<1> QED
  BY <1>1, <1>2, <1>3, <1>4, <1>5, <1>6, <1>7, <1>8, <1>9, <1>10, <1>11
  DEF Next, Enqueue, Dequeue

(* A node belongs to one producer until it is linked.                      *)
LEMMA ProducerStep == ASSUME ListInv, [Next]_vars PROVE ProducerNodes'
<1> USE MPSCQueueAssumption
        DEF ListInv, TypeOK, ChainShape, ConsumerView, memVars, prodVars, consVars,
            Links, ProducerNodes, Gap, Positions
<1>1. ASSUME NEW p \in Producers, NewNode(p) PROVE ProducerNodes'
  BY <1>1 DEF NewNode
<1>2. ASSUME NEW p \in Producers, Exchange(p) PROVE ProducerNodes'
  <2>1. /\ chain' = Append(chain, node[p]) /\ prevHead' = [prevHead EXCEPT ![p] = head]
        /\ head' = node[p] /\ pc' = [pc EXCEPT ![p] = "link"] /\ pc[p] = "new"
        /\ UNCHANGED <<next, data, live, node, sent, received>>
    BY <1>2 DEF Exchange
  <2>2. /\ Positions' = Positions \cup {Len(chain) + 1} /\ Len(chain) + 1 \notin Positions
        /\ chain'[Len(chain) + 1] = node[p]
        /\ Len(chain) \in Positions
        /\ \A i \in Positions : chain'[i] = chain[i] /\ i \in Int
    BY <2>1
  <2>3. \A i \in Positions : Gap(i) => Gap(i)'
    BY <2>1, <2>2
  <2>4. PICK n \in Positions : n = Len(chain)
    BY <2>2
  <2>8. Gap(n)' /\ chain'[n] = head /\ chain'[n + 1] = node[p]
    BY <2>1, <2>2, <2>4
  <2>5. ASSUME NEW q \in Producers, pc'[q] = "link"
        PROVE  \E i \in Positions' : /\ Gap(i)' /\ chain'[i] = prevHead'[q]
                                   /\ chain'[i + 1] = node'[q]
    <3>1. CASE q = p
      BY <3>1, <2>1, <2>2, <2>4, <2>8
    <3>2. CASE q # p
      <4>1. PICK i \in Positions : Gap(i) /\ chain[i] = prevHead[q] /\ chain[i + 1] = node[q]
        BY <3>2, <2>5, <2>1
      <4>2. i + 1 \in Positions
        BY <4>1
      <4>3. Gap(i)'
        BY <4>1, <2>3
      <4>4. i \in Positions' /\ chain'[i] = chain[i] /\ chain'[i + 1] = chain[i + 1]
        BY <4>2, <2>2
      <4>5. prevHead'[q] = prevHead[q] /\ node'[q] = node[q]
        BY <3>2, <2>1
      <4> QED
        BY <4>1, <4>3, <4>4, <4>5
    <3> QED
      BY <3>1, <3>2
  <2>6. ASSUME NEW q \in Producers, pc'[q] \in {"new", "link"}
        PROVE  node'[q] \in live' /\ data'[node'[q]] = <<q, sent'[q]>> /\ sent'[q] # 0
    BY <2>1, <2>6
  <2>7. ASSUME NEW q \in Producers, pc'[q] = "new"
        PROVE  next'[node'[q]] = Null /\ \A i \in Positions' : chain'[i] # node'[q]
    <3>1. q # p /\ pc[q] = "new"
      BY <2>1, <2>7
    <3>2. node[q] # node[p]
      <4>1. data[node[p]] = <<p, sent[p]>> /\ data[node[q]] = <<q, sent[q]>>
        BY <2>1, <3>1
      <4> QED
        BY <4>1, <3>1
    <3> QED
      BY <2>1, <2>2, <3>1, <3>2
  <2> QED
    BY <2>5, <2>6, <2>7
<1>3. ASSUME NEW p \in Producers, Link(p) PROVE ProducerNodes'
  BY <1>3 DEF Link
<1>4. CASE LoadNext
  BY <1>4 DEF LoadNext
<1>5. CASE ReturnFalse
  BY <1>5 DEF ReturnFalse
<1>6. CASE ReadData
  BY <1>6 DEF ReadData
<1>7. CASE StoreTail
  <2>1. /\ chain' = Tail(chain) /\ tail' = nextNode
        /\ UNCHANGED <<head, next, data, live, prodVars, received>>
    BY <1>7 DEF StoreTail
  <2>2. /\ \A j \in Positions' : j + 1 \in Positions /\ chain'[j] = chain[j + 1]
                               /\ j # 0 /\ j \in Int
        /\ \A j \in Positions : j # 1 => j - 1 \in Positions' /\ chain'[j - 1] = chain[j]
        /\ \A j \in Positions : j \in Int
    BY <2>1, <1>7 DEF StoreTail
  <2>3. next[chain[1]] # Null
    BY <1>7 DEF StoreTail
  <2>4. ASSUME NEW q \in Producers, pc'[q] = "link"
        PROVE  \E i \in Positions' : /\ Gap(i)' /\ chain'[i] = prevHead'[q]
                                   /\ chain'[i + 1] = node'[q]
    <3>1. PICK i \in Positions : Gap(i) /\ chain[i] = prevHead[q] /\ chain[i + 1] = node[q]
      BY <2>1, <2>4
    <3>2. i # 1 /\ i + 1 # 1 /\ i + 1 \in Positions
      BY <3>1, <2>3, <2>2
    <3>7. i \in Int /\ (i + 1) - 1 = i
      BY <2>2
    <3>3. i - 1 \in Positions' /\ chain'[i - 1] = chain[i]
          /\ i \in Positions' /\ chain'[i] = chain[i + 1]
      BY <3>2, <3>7, <2>2
    <3>4. (i - 1) + 1 = i
      BY <2>2
    <3>5. Gap(i - 1)'
      BY <3>1, <3>3, <3>4, <2>1
    <3>6. chain'[i - 1] = prevHead'[q] /\ chain'[(i - 1) + 1] = node'[q]
      BY <3>1, <3>3, <3>4, <2>1
    <3> QED
      BY <3>3, <3>5, <3>6
  <2>5. \A q \in Producers : pc'[q] = "new" =>
           next'[node'[q]] = Null /\ \A i \in Positions' : chain'[i] # node'[q]
    BY <2>1, <2>2
  <2> QED
    BY <2>1, <2>4, <2>5
<1>8. CASE DeleteTail
  BY <1>8 DEF DeleteTail
<1>9. CASE BeginDestroy
  BY <1>9 DEF BeginDestroy
<1>10. CASE DeleteStub
  BY <1>10 DEF DeleteStub
<1>11. CASE Terminated \/ UNCHANGED vars
  BY <1>11 DEF Terminated, vars
<1> QED
  BY <1>1, <1>2, <1>3, <1>4, <1>5, <1>6, <1>7, <1>8, <1>9, <1>10, <1>11
  DEF Next, Enqueue, Dequeue

(* No producer invalidates what the consumer has read.                     *)
LEMMA ConsumerStep == ASSUME ListInv, [Next]_vars PROVE ConsumerView'
<1> USE MPSCQueueAssumption
        DEF ListInv, TypeOK, ChainShape, ConsumerView, memVars, prodVars, consVars,
            Links, ProducerNodes, Gap, Positions
<1>1. ASSUME NEW p \in Producers, NewNode(p) PROVE ConsumerView'
  BY <1>1 DEF NewNode
<1>2. ASSUME NEW p \in Producers, Exchange(p) PROVE ConsumerView'
  BY <1>2 DEF Exchange
<1>3. ASSUME NEW p \in Producers, Link(p) PROVE ConsumerView'
  BY <1>3 DEF Link
<1>4. CASE LoadNext
  <2>1. CASE next[tail] = Null
    BY <1>4, <2>1 DEF LoadNext
  <2>2. CASE next[tail] # Null
    <3>1. 1 # Len(chain)
      BY <2>2
    <3>4. Positions = 1 .. Len(chain) /\ Len(chain) \in Nat
      OBVIOUS
    <3>2. 2 \in Positions /\ 1 + 1 = 2
      BY <3>1, <3>4
    <3>3. next[chain[1]] = chain[2]
      BY <2>2, <3>2
    <3> QED
      BY <1>4, <2>2, <3>2, <3>3 DEF LoadNext
  <2> QED
    BY <2>1, <2>2
<1>5. CASE ReturnFalse
  BY <1>5 DEF ReturnFalse
<1>6. CASE ReadData
  BY <1>6 DEF ReadData
<1>7. CASE StoreTail
  BY <1>7 DEF StoreTail
<1>8. CASE DeleteTail
  BY <1>8 DEF DeleteTail
<1>9. CASE BeginDestroy
  BY <1>9 DEF BeginDestroy
<1>10. CASE DeleteStub
  BY <1>10 DEF DeleteStub
<1>11. CASE Terminated \/ UNCHANGED vars
  BY <1>11 DEF Terminated, vars
<1> QED
  BY <1>1, <1>2, <1>3, <1>4, <1>5, <1>6, <1>7, <1>8, <1>9, <1>10, <1>11
  DEF Next, Enqueue, Dequeue

(* An element enters the chain once, and the consumer receives those only. *)
LEMMA PayloadStep == ASSUME ListInv, [Next]_vars PROVE Payload'
<1> USE MPSCQueueAssumption
        DEF ListInv, TypeOK, ChainShape, ConsumerView, memVars, prodVars, consVars,
            Links, ProducerNodes, Gap, Payload, Entered, Elements, Positions
<1>1. ASSUME NEW p \in Producers, NewNode(p) PROVE Payload'
  BY <1>1 DEF NewNode
<1>2. ASSUME NEW p \in Producers, Exchange(p) PROVE Payload'
  <2>1. /\ chain' = Append(chain, node[p]) /\ prevHead' = [prevHead EXCEPT ![p] = head]
        /\ head' = node[p] /\ pc' = [pc EXCEPT ![p] = "link"] /\ pc[p] = "new"
        /\ UNCHANGED <<next, data, live, node, sent, received>>
    BY <1>2 DEF Exchange
  <2>2. /\ Positions' = Positions \cup {Len(chain) + 1} /\ Len(chain) + 1 \notin Positions
        /\ chain'[Len(chain) + 1] = node[p]
        /\ Len(chain) \in Positions
        /\ \A i \in Positions : chain'[i] = chain[i] /\ i \in Int
    BY <2>1
  <2>3. data[node[p]] = <<p, sent[p]>> /\ sent[p] # 0
    BY <2>1
  <2>4. \A e : Entered(e) => Entered(e)' /\ e # <<p, sent[p]>>
    BY <2>1
  <2>5. Entered(<<p, sent[p]>>)'
    BY <2>1, <2>3
  <2> HIDE DEF Entered
  <2>9. ASSUME NEW i \in Positions', i # 1
        PROVE  \/ i \in Positions /\ data'[chain'[i]] = data[chain[i]]
               \/ i = Len(chain) + 1 /\ data'[chain'[i]] = <<p, sent[p]>>
    BY <2>1, <2>2, <2>3, <2>9
  <2>6. ASSUME NEW i \in Positions', i # 1 PROVE Entered(data[chain[i]])'
    <3>1. CASE i \in Positions /\ data'[chain'[i]] = data[chain[i]]
      BY <3>1, <2>4, <2>6
    <3>2. CASE data'[chain'[i]] = <<p, sent[p]>>
      BY <3>2, <2>1, <2>5
    <3> QED
      BY <3>1, <3>2, <2>6, <2>9
  <2>7. \A i \in Positions : i # 1 => data[chain[i]] # <<p, sent[p]>>
    BY <2>4
  <2>8. ASSUME NEW i \in Positions', NEW j \in Positions', i # 1, j # 1,
               data'[chain'[i]] = data'[chain'[j]]
        PROVE  i = j
    <3>1. /\ \/ i \in Positions /\ data'[chain'[i]] = data[chain[i]]
             \/ i = Len(chain) + 1 /\ data'[chain'[i]] = <<p, sent[p]>>
          /\ \/ j \in Positions /\ data'[chain'[j]] = data[chain[j]]
             \/ j = Len(chain) + 1 /\ data'[chain'[j]] = <<p, sent[p]>>
      BY <2>8, <2>9
    <3>2. CASE i \in Positions /\ j \in Positions /\ data[chain[i]] = data[chain[j]]
      BY <3>2, <2>8
    <3>3. CASE i = Len(chain) + 1 /\ j = Len(chain) + 1
      BY <3>3
    <3>4. i \in Positions => data[chain[i]] # <<p, sent[p]>>
      BY <2>7, <2>8
    <3>5. j \in Positions => data[chain[j]] # <<p, sent[p]>>
      BY <2>7, <2>8
    <3> QED
      BY <3>1, <3>2, <3>3, <3>4, <3>5, <2>8
  <2>10. \A i \in DOMAIN received' : Entered(received[i])'
    BY <2>1, <2>4
  <2> QED
    BY <2>6, <2>8, <2>10
<1>3. ASSUME NEW p \in Producers, Link(p) PROVE Payload'
  BY <1>3 DEF Link
<1>4. CASE LoadNext
  BY <1>4 DEF LoadNext
<1>5. CASE ReturnFalse
  BY <1>5 DEF ReturnFalse
<1>6. CASE ReadData
  BY <1>6 DEF ReadData
<1>7. CASE StoreTail
  <2>1. /\ chain' = Tail(chain) /\ tail' = nextNode
        /\ UNCHANGED <<head, next, data, live, prodVars, received>>
    BY <1>7 DEF StoreTail
  <2>2. /\ \A j \in Positions' : j + 1 \in Positions /\ chain'[j] = chain[j + 1]
                               /\ j # 0 /\ j \in Int
        /\ \A j \in Positions : j # 1 => j - 1 \in Positions' /\ chain'[j - 1] = chain[j]
        /\ \A j \in Positions : j \in Int
    BY <2>1, <1>7 DEF StoreTail
  <2>3. \A e : Entered(e)' <=> Entered(e)
    BY <2>1
  <2> HIDE DEF Entered
  <2>4. \A i \in Positions' : i + 1 # 1 /\ data'[chain'[i]] = data[chain[i + 1]]
    BY <2>1, <2>2
  <2>5. ASSUME NEW i \in Positions' PROVE Entered(data[chain[i]])'
    <3>1. Entered(data[chain[i + 1]]) /\ data'[chain'[i]] = data[chain[i + 1]]
      BY <2>2, <2>4
    <3> QED
      BY <3>1, <2>3
  <2>6. ASSUME NEW i \in Positions', NEW j \in Positions', data'[chain'[i]] = data'[chain'[j]]
        PROVE  i = j
    <3>1. data[chain[i + 1]] = data[chain[j + 1]]
      BY <2>4, <2>6
    <3>2. i + 1 = j + 1
      BY <3>1, <2>2, <2>4
    <3> QED
      BY <3>2, <2>2
  <2>7. \A i \in DOMAIN received' : Entered(received[i])'
    BY <2>1, <2>3
  <2> QED
    BY <2>5, <2>6, <2>7
<1>8. CASE DeleteTail
  BY <1>8 DEF DeleteTail
<1>9. CASE BeginDestroy
  BY <1>9 DEF BeginDestroy
<1>10. CASE DeleteStub
  BY <1>10 DEF DeleteStub
<1>11. CASE Terminated \/ UNCHANGED vars
  BY <1>11 DEF Terminated, vars
<1> QED
  BY <1>1, <1>2, <1>3, <1>4, <1>5, <1>6, <1>7, <1>8, <1>9, <1>10, <1>11
  DEF Next, Enqueue, Dequeue

-----------------------------------------------------------------------------
(* The invariant of the list holds in every reachable state.               *)
LEMMA ListInvariance == Spec => []ListInv
<1>1. Init => ListInv
  <2> SUFFICES ASSUME Init PROVE ListInv
    OBVIOUS
  <2>1. PICK stub \in Nodes : /\ head = stub /\ tail = stub /\ live = {stub}
                              /\ chain = <<stub>>
    BY DEF Init
  <2>2. /\ next = [n \in Nodes |-> Null] /\ data = [n \in Nodes |-> Null]
        /\ pc = [p \in Producers |-> "idle"] /\ node = [p \in Producers |-> Null]
        /\ prevHead = [p \in Producers |-> Null] /\ sent = [p \in Producers |-> 0]
        /\ cpc = "idle" /\ nextNode = Null /\ oldTail = Null /\ closing = FALSE
        /\ received = <<>>
    BY DEF Init
  <2>3. Positions = {1} /\ chain[1] = stub /\ Len(chain) = 1
    BY <2>1 DEF Positions
  <2>4. TypeOK
    <3>1. head \in Nodes /\ tail \in Nodes /\ live \subseteq Nodes /\ chain \in Seq(Nodes)
      BY <2>1
    <3>2. /\ next \in [Nodes -> Nodes \cup {Null}]
          /\ data \in [Nodes -> Elements \cup {Null}]
      BY <2>2
    <3>3. /\ pc \in [Producers -> {"idle", "new", "link"}]
          /\ node \in [Producers -> Nodes \cup {Null}]
          /\ prevHead \in [Producers -> Nodes \cup {Null}]
      BY <2>2
    <3>4. sent \in [Producers -> 0..Sends]
      BY <2>2, MPSCQueueAssumption
    <3>5. received \in Seq(Elements)
      BY <2>2
    <3> QED
      BY <2>2, <3>1, <3>2, <3>3, <3>4, <3>5 DEF TypeOK
  <2>5. ChainShape /\ Links /\ ProducerNodes /\ ConsumerView
    BY <2>1, <2>2, <2>3 DEF ChainShape, Links, ProducerNodes, ConsumerView
  <2>6. Payload
    BY <2>2, <2>3 DEF Payload
  <2> QED
    BY <2>4, <2>5, <2>6 DEF ListInv
<1>2. ListInv /\ [Next]_vars => ListInv'
  BY TypeStep, ShapeStep, LinksStep, ProducerStep, ConsumerStep, PayloadStep DEF ListInv
<1> QED
  BY <1>1, <1>2, PTL DEF Spec

(* No thread reads, writes or deletes a node that is not allocated,        *)
(* although the consumer deletes nodes that producers still point to.      *)
THEOREM NodesCorrect == Spec => []NoDanglingNode
<1>1. ListInv => NoDanglingNode
  <2> SUFFICES ASSUME ListInv PROVE NoDanglingNode
    OBVIOUS
  <2>1. 1 \in Positions /\ Len(chain) \in Positions
    BY DEF ListInv, ChainShape, TypeOK, Positions
  <2>2. cpc # "destroyed" => {head, tail} \subseteq live
    BY <2>1 DEF ListInv, ChainShape
  <2>3. \A p \in Producers : pc[p] = "link" => prevHead[p] \in live
    BY DEF ListInv, ProducerNodes, ChainShape, ConsumerView
  <2>4. cpc \in {"data", "store"} => {nextNode, oldTail} \subseteq live
    BY <2>1 DEF ListInv, ConsumerView, ChainShape
  <2> QED
    BY <2>2, <2>3, <2>4 DEF NoDanglingNode, ListInv, ProducerNodes, ConsumerView
<1> QED
  BY ListInvariance, <1>1, PTL

-----------------------------------------------------------------------------
(* The nodes of the chain whose elements the consumer has: the stub, and   *)
(* the node after it once its data has been read.                          *)
Taken == IF cpc = "store" THEN 2 ELSE 1

(* The contents of the queue, element by element.                          *)
ContentsAre ==
    /\ Taken \in {1, 2} /\ Len(chain) - Taken \in Nat
    /\ contents \in Seq(Elements)
    /\ Len(contents) = Len(chain) - Taken
    /\ \A i \in 1 .. Len(contents) : /\ i + Taken \in Positions
                                     /\ contents[i] = data[chain[i + Taken]]
    /\ \A j \in Positions : j > Taken => /\ j - Taken \in 1 .. Len(contents)
                                         /\ contents[j - Taken] = data[chain[j]]

(* The elements of the queue are those of the chain behind the stub.       *)
LEMMA ContentsLemma == ListInv => ContentsAre
<1> SUFFICES ASSUME ListInv PROVE ContentsAre
  OBVIOUS
<1>1. Positions = 1 .. Len(chain) /\ Len(chain) \in Nat /\ Len(chain) # 0
  BY DEF ListInv, TypeOK, ChainShape, Positions
<1>2. cpc = "store" => 2 \in Positions
  BY DEF ListInv, ConsumerView
<1>3. Taken \in {1, 2} /\ Len(chain) - Taken \in Nat
  BY <1>1, <1>2 DEF Taken
<1>4. contents = [i \in 1 .. (Len(chain) - Taken) |-> data[chain[i + Taken]]]
  BY DEF contents, Taken
<1>5. \A i \in 1 .. (Len(chain) - Taken) : i + Taken \in Positions /\ i + Taken # 1
  BY <1>1, <1>3
<1>6. \A i \in 1 .. (Len(chain) - Taken) : data[chain[i + Taken]] \in Elements
  BY <1>5 DEF ListInv, Payload, Entered
<1>7. contents \in [1 .. (Len(chain) - Taken) -> Elements]
  BY <1>4, <1>6
<1>8. contents \in Seq(Elements) /\ Len(contents) = Len(chain) - Taken
  BY <1>3, <1>7
<1>9. \A j \in Positions : j > Taken => /\ j - Taken \in 1 .. (Len(chain) - Taken)
                                        /\ (j - Taken) + Taken = j
  BY <1>1, <1>3
<1> QED
  BY <1>3, <1>4, <1>5, <1>8, <1>9 DEF ContentsAre

(* Which elements have returned from Enqueue.                              *)
HasReturned(e) ==
    /\ e \in Elements
    /\ e[2] <= sent[e[1]]
    /\ pc[e[1]] \in {"new", "link"} => e[2] # sent[e[1]]

(* HasReturned says which elements an Enqueue has returned for.            *)
LEMMA ReturnedLemma == TypeOK => \A e : e \in returned <=> HasReturned(e)
<1> SUFFICES ASSUME TypeOK, NEW e PROVE e \in returned <=> HasReturned(e)
  OBVIOUS
<1> DEFINE R(p) == {<<p, k>> : k \in 1 .. sent[p]} \ InFlight(p)
<1>1. e \in returned <=> \E p \in Producers : e \in R(p)
  BY DEF returned
<1>2. ASSUME NEW p \in Producers
      PROVE  e \in R(p) <=> /\ \E k \in 1 .. sent[p] : e = <<p, k>>
                            /\ pc[p] \in {"new", "link"} => e # <<p, sent[p]>>
  BY DEF InFlight
<1>3. ASSUME NEW p \in Producers PROVE 1 .. sent[p] \subseteq 1 .. Sends /\ sent[p] \in Int
  BY MPSCQueueAssumption DEF TypeOK
<1>4. ASSUME e \in returned
      PROVE  HasReturned(e)
  <2>1. PICK p \in Producers : e \in R(p)
    BY <1>1, <1>4
  <2>2. PICK k \in 1 .. sent[p] : e = <<p, k>>
    BY <2>1, <1>2
  <2> QED
    BY <2>1, <2>2, <1>2, <1>3 DEF Elements, HasReturned
<1>5. ASSUME HasReturned(e)
      PROVE  e \in returned
  <2>1. PICK p \in Producers, k \in 1 .. Sends : e = <<p, k>>
    BY <1>5 DEF Elements, HasReturned
  <2>2. k \in 1 .. sent[p]
    BY <2>1, <1>3, <1>5, MPSCQueueAssumption DEF HasReturned
  <2> QED
    BY <1>1, <1>2, <1>5, <2>1, <2>2 DEF HasReturned
<1> QED
  BY <1>4, <1>5

-----------------------------------------------------------------------------
(* The facts the refinement rests on, in one state.                        *)
Mapped == ListInv /\ ContentsAre /\ \A e : e \in returned <=> HasReturned(e)

(* Every step of the linked list is a step of Fifo, or changes nothing     *)
(* that Fifo knows of.                                                     *)
LEMMA FifoStep == ASSUME Mapped, Mapped', [Next]_vars PROVE [F!Next]_(F!vars)
<1> USE MPSCQueueAssumption DEF Mapped, memVars, prodVars, consVars
<1>0. ASSUME UNCHANGED <<contents, returned, received>> PROVE [F!Next]_(F!vars)
  BY <1>0 DEF F!vars
<1>types. /\ TypeOK /\ Positions = 1 .. Len(chain) /\ Len(chain) \in Nat
  BY DEF ListInv, TypeOK, Positions
<1>same. ASSUME chain' = chain, Taken' = Taken,
                \A i \in Positions : data'[chain[i]] = data[chain[i]]
         PROVE  contents' = contents
  <2>1. Len(contents') = Len(contents)
    BY <1>same DEF ContentsAre
  <2>2. \A i \in 1 .. Len(contents) : contents'[i] = contents[i]
    BY <1>same, <2>1 DEF ContentsAre
  <2> QED
    BY <2>1, <2>2, SeqEqual DEF ContentsAre
<1>ret. ASSUME \A e : HasReturned(e)' <=> HasReturned(e) PROVE returned' = returned
  BY <1>ret
<1>1. ASSUME NEW p \in Producers, NewNode(p) PROVE [F!Next]_(F!vars)
  <2>1. chain' = chain /\ cpc' = cpc /\ received' = received /\ cpc # "destroyed"
    BY <1>1 DEF NewNode, ListInv, ConsumerView
  <2>2. \A i \in Positions : data'[chain[i]] = data[chain[i]]
    BY <1>1, <2>1, <1>types DEF NewNode, ListInv, ChainShape
  <2>3. \A e : HasReturned(e)' <=> HasReturned(e)
    BY <1>1, <1>types DEF NewNode, HasReturned, TypeOK, Elements
  <2> QED
    BY <1>0, <1>same, <1>ret, <2>1, <2>2, <2>3 DEF Taken
<1>2. ASSUME NEW p \in Producers, Exchange(p) PROVE [F!Next]_(F!vars)
  <2> DEFINE e == <<p, sent[p]>>
  <2>1. /\ chain' = Append(chain, node[p]) /\ UNCHANGED <<data, cpc, received, sent>>
        /\ pc[p] = "new" /\ pc' = [pc EXCEPT ![p] = "link"] /\ node[p] \in Nodes
    BY <1>2, <1>types DEF Exchange, ListInv, ProducerNodes, TypeOK
  <2>2. e \in Elements /\ data[node[p]] = e
    BY <2>1, <1>types DEF ListInv, ProducerNodes, Elements, TypeOK
  <2>3. ~Entered(e)
    BY <2>1 DEF Entered
  <2>4. ~F!SeenBefore(e)
    <3>1. ASSUME NEW i \in DOMAIN contents PROVE contents[i] # e
      <4>1. i \in 1 .. Len(contents)
        BY DEF ContentsAre
      <4>2. i + Taken \in Positions /\ i + Taken # 1 /\ contents[i] = data[chain[i + Taken]]
        BY <4>1 DEF ContentsAre
      <4> QED
        BY <4>2, <2>3 DEF ListInv, Payload
    <3>2. \A i \in DOMAIN received : received[i] # e
      BY <2>3 DEF ListInv, Payload
    <3> QED
      BY <3>1, <3>2 DEF F!SeenBefore
  <2>5. contents' = Append(contents, e)
    <3>1. Taken' = Taken /\ Len(chain') = Len(chain) + 1
      BY <2>1, <1>types DEF Taken, TypeOK
    <3>2. Len(contents') = Len(contents) + 1
      BY <3>1, <1>types DEF ContentsAre
    <3>3. /\ Append(contents, e) \in Seq(Elements)
          /\ Len(Append(contents, e)) = Len(contents) + 1
          /\ \A i \in 1 .. Len(contents) : Append(contents, e)[i] = contents[i]
          /\ Append(contents, e)[Len(contents) + 1] = e
      <4>1. contents \in Seq(Elements) /\ e \in Elements /\ Len(contents) \in Nat
        BY <2>2 DEF ContentsAre
      <4> HIDE DEF e, Mapped
      <4> QED
        BY <4>1, AppendProperties
    <3>4. ASSUME NEW i \in 1 .. Len(contents) PROVE contents'[i] = contents[i]
      <4>1. contents'[i] = data[chain'[i + Taken]]
        BY <2>1, <3>1, <3>2 DEF ContentsAre
      <4>2. i + Taken \in Positions /\ contents[i] = data[chain[i + Taken]]
        BY DEF ContentsAre
      <4>3. chain'[i + Taken] = chain[i + Taken]
        BY <2>1, <4>2, <1>types DEF TypeOK
      <4> QED
        BY <4>1, <4>2, <4>3
    <3>5. contents'[Len(contents) + 1] = e
      <4>1. Len(contents) + 1 + Taken = Len(chain) + 1
        BY <1>types DEF ContentsAre
      <4>2. contents'[Len(contents) + 1] = data[chain'[Len(chain) + 1]]
        BY <2>1, <3>1, <3>2, <4>1 DEF ContentsAre
      <4> QED
        BY <4>2, <2>1, <2>2, <1>types DEF TypeOK
    <3>6. ASSUME NEW i \in 1 .. Len(contents') PROVE contents'[i] = Append(contents, e)[i]
      <4>1. i \in 1 .. Len(contents) \/ i = Len(contents) + 1
        BY <3>2 DEF ContentsAre
      <4> QED
        BY <4>1, <3>3, <3>4, <3>5
    <3>7. contents' \in Seq(Elements)
      BY DEF ContentsAre
    <3> QED
      BY <3>2, <3>3, <3>6, <3>7, SeqEqual
  <2>6. returned' = returned
    <3>1. \A x : HasReturned(x)' <=> HasReturned(x)
      BY <2>1, <1>types DEF HasReturned, TypeOK, Elements
    <3> QED
      BY <3>1, <1>ret
  <2>7. F!Put(e)
    BY <2>1, <2>4, <2>5, <2>6 DEF F!Put
  <2> QED
    BY <2>2, <2>7 DEF F!Next
<1>3. ASSUME NEW p \in Producers, Link(p) PROVE [F!Next]_(F!vars)
  <2> DEFINE e == <<p, sent[p]>>
  <2>1. /\ UNCHANGED <<chain, data, cpc, received, sent>>
        /\ pc[p] = "link" /\ pc' = [pc EXCEPT ![p] = "idle"]
    BY <1>3 DEF Link
  <2>2. PICK i \in Positions : Gap(i) /\ chain[i + 1] = node[p]
    BY <2>1 DEF ListInv, ProducerNodes
  <2>3. data[node[p]] = e /\ e \in Elements
    BY <2>1, <1>types DEF ListInv, ProducerNodes, Elements, TypeOK
  <2>4. i + 1 > Taken
    <3>1. cpc = "store" => next[chain[1]] # Null
      BY DEF ListInv, ConsumerView, ChainShape, TypeOK, Positions
    <3> QED
      BY <2>2, <3>1, <1>types DEF Taken, Gap
  <2>5. F!SeenBefore(e)
    <3>1. i + 1 \in Positions
      BY <2>2 DEF Gap
    <3>2. (i + 1) - Taken \in 1 .. Len(contents) /\ contents[(i + 1) - Taken] = e
      BY <2>2, <2>3, <2>4, <3>1 DEF ContentsAre
    <3>3. (i + 1) - Taken \in DOMAIN contents
      BY <3>2 DEF ContentsAre
    <3> QED
      BY <3>2, <3>3 DEF F!SeenBefore
  <2>6. e \notin returned
    BY <2>1 DEF HasReturned
  <2>7. returned' = returned \cup {e}
    <3>1. ASSUME NEW x PROVE HasReturned(x)' <=> HasReturned(x) \/ x = e
      BY <2>1, <2>3, <1>types DEF HasReturned, Elements, TypeOK
    <3> QED
      BY <3>1
  <2>8. contents' = contents
    BY <2>1, <1>same DEF Taken
  <2>9. F!Return(e)
    BY <2>1, <2>5, <2>6, <2>7, <2>8 DEF F!Return
  <2> QED
    BY <2>3, <2>9 DEF F!Next
<1>4. CASE LoadNext \/ ReturnFalse \/ DeleteTail \/ BeginDestroy \/ DeleteStub
  <2>1. UNCHANGED <<chain, data, received, sent, pc>> /\ Taken' = Taken
    BY <1>4 DEF LoadNext, ReturnFalse, DeleteTail, BeginDestroy, DeleteStub, Taken
  <2>2. returned' = returned
    BY <2>1 DEF returned, InFlight
  <2> QED
    BY <2>1, <2>2, <1>0, <1>same
<1>5. CASE ReadData
  <2>1. /\ UNCHANGED <<chain, data, sent, pc>> /\ received' = Append(received, data[nextNode])
        /\ Taken = 1 /\ Taken' = 2 /\ cpc = "data"
    BY <1>5 DEF ReadData, Taken
  <2>2. nextNode = chain[2] /\ 2 \in Positions /\ next[chain[1]] # Null
    BY <2>1 DEF ListInv, ConsumerView, ChainShape, TypeOK, Positions
  <2>3. contents # <<>> /\ Head(contents) = data[chain[2]]
    <3>1. 2 - Taken \in 1 .. Len(contents) /\ contents[2 - Taken] = data[chain[2]]
      BY <2>1, <2>2 DEF ContentsAre
    <3> QED
      BY <3>1, <2>1 DEF ContentsAre
  <2>4. HasReturned(data[chain[2]])
    <3> DEFINE e == data[chain[2]]
    <3>1. Entered(e)
      BY <2>2 DEF ListInv, Payload
    <3>2. ASSUME pc[e[1]] = "link", e[2] = sent[e[1]] PROVE FALSE
      <4>1. e[1] \in Producers /\ e = <<e[1], sent[e[1]]>>
        BY <3>1, <3>2 DEF Entered, Elements
      <4>2. PICK i \in Positions : Gap(i) /\ chain[i + 1] = node[e[1]] /\ data[node[e[1]]] = e
        BY <4>1, <3>2 DEF ListInv, ProducerNodes
      <4>3. i + 1 \in Positions /\ i + 1 # 1
        BY <4>2, <1>types DEF Gap
      <4>4. i + 1 = 2
        BY <4>2, <4>3, <2>2 DEF ListInv, Payload
      <4> QED
        BY <4>2, <4>4, <2>2, <1>types DEF Gap
    <3> QED
      BY <3>1, <3>2 DEF HasReturned, Entered
  <2>5. contents' = Tail(contents)
    <3>1. Tail(contents) \in Seq(Elements) /\ Len(Tail(contents)) = Len(contents) - 1
          /\ \A i \in 1 .. Len(Tail(contents)) : Tail(contents)[i] = contents[i + 1]
      BY <2>3, HeadTailProperties DEF ContentsAre
    <3>2. Len(contents') = Len(contents) - 1
      BY <2>1, <1>types DEF ContentsAre
    <3>3. ASSUME NEW i \in 1 .. Len(contents') PROVE contents'[i] = Tail(contents)[i]
      <4>1. contents'[i] = data[chain[i + 2]]
        BY <2>1 DEF ContentsAre
      <4>2. i + 1 \in 1 .. Len(contents) /\ (i + 1) + 1 = i + 2
        BY <3>2 DEF ContentsAre
      <4>3. contents[i + 1] = data[chain[(i + 1) + 1]]
        BY <4>2, <2>1 DEF ContentsAre
      <4> QED
        BY <4>1, <4>2, <4>3, <3>1, <3>2
    <3> QED
      BY <3>1, <3>2, <3>3, SeqEqual DEF ContentsAre
  <2>6. returned' = returned
    BY <2>1 DEF returned, InFlight
  <2>7. F!Take
    BY <2>1, <2>2, <2>3, <2>4, <2>5, <2>6 DEF F!Take
  <2> QED
    BY <2>7 DEF F!Next
<1>6. CASE StoreTail
  <2>1. /\ chain' = Tail(chain) /\ UNCHANGED <<data, received, sent, pc>>
        /\ Taken = 2 /\ Taken' = 1
    BY <1>6 DEF StoreTail, Taken
  <2>2. Len(chain') = Len(chain) - 1
    BY <2>1, <1>types DEF ListInv, ChainShape, TypeOK
  <2>3. Len(contents') = Len(contents)
    BY <2>1, <2>2, <1>types DEF ContentsAre
  <2>4. ASSUME NEW i \in 1 .. Len(contents) PROVE contents'[i] = contents[i]
    <3>1. contents'[i] = data[chain'[i + 1]] /\ i + 1 \in Positions'
      BY <2>1, <2>3 DEF ContentsAre
    <3>2. chain'[i + 1] = chain[(i + 1) + 1]
      BY <2>1, <3>1, <1>types DEF ListInv, ChainShape, TypeOK, Positions
    <3>3. contents[i] = data[chain[i + 2]] /\ (i + 1) + 1 = i + 2
      BY <2>1 DEF ContentsAre
    <3> QED
      BY <3>1, <3>2, <3>3
  <2>5. contents' = contents
    BY <2>3, <2>4, SeqEqual DEF ContentsAre
  <2>6. returned' = returned
    BY <2>1 DEF returned, InFlight
  <2> QED
    BY <2>1, <2>5, <2>6, <1>0
<1>7. CASE Terminated \/ UNCHANGED vars
  <2>1. UNCHANGED <<contents, returned, received>>
    BY <1>7 DEF Terminated, vars, contents, returned, InFlight
  <2> QED
    BY <2>1, <1>0
<1> QED
  BY <1>1, <1>2, <1>3, <1>4, <1>5, <1>6, <1>7 DEF Next, Enqueue, Dequeue

(* The lock free queue is a queue: every element enqueued is delivered at  *)
(* most once, in the order of the exchanges, and only after its Enqueue    *)
(* has returned.                                                           *)
THEOREM FifoCorrect == Spec => FifoSpec
<1>1. Init => F!Init
  <2> SUFFICES ASSUME Init PROVE F!Init
    OBVIOUS
  <2>1. Len(chain) = 1 /\ cpc = "idle" /\ received = <<>>
    BY DEF Init
  <2>2. contents = <<>>
    BY <2>1 DEF contents
  <2>3. returned = {}
    BY DEF Init, returned, InFlight
  <2> QED
    BY <2>1, <2>2, <2>3 DEF F!Init
<1>2. ListInv => Mapped
  BY ContentsLemma, ReturnedLemma DEF Mapped, ListInv
<1>3. Mapped /\ Mapped' /\ [Next]_vars => [F!Next]_(F!vars)
  BY FifoStep
<1> QED
  BY ListInvariance, <1>1, <1>2, <1>3, PTL DEF Spec, FifoSpec, F!Spec
==============================================================================
