------------------------- MODULE WorldSocketsProofs -------------------------
(***************************************************************************)
(* Proofs about the sockets of WorldSockets, for any number of sockets,    *)
(* any size of the buffers and any packets: on every socket one party at   *)
(* most carries the conversation on; the count of the thread is that of    *)
(* the sockets it looks after; and the queues, the gathering, the writes   *)
(* and the ways of closing keep what a connection promises (Channel).      *)
(*                                                                         *)
(* The buffers are built by a fold over the packets and flattened by a     *)
(* recursive function.  What these return is proved by induction over the  *)
(* packets; that natural numbers are well founded gives the induction,     *)
(* stated for a predicate that is a function (Induction).                  *)
(***************************************************************************)
EXTENDS WorldSockets, FiniteSetTheorems, FunctionTheorems, SequenceTheorems,
        WellFoundedInduction, TLAPS

(* A socket is the record of its fields, whatever its queues hold.         *)
Fields ==
    {"closed", "closing", "writing", "bufferQueue", "writeQueue", "reads",
     "query", "authed", "caller", "broken", "sent", "received"}

IsSocket(k) == k = [f \in Fields |-> k[f]]

(* Nobody reads and no answer is awaited; or one read is under way; or one *)
(* answer is awaited.                                                      *)
Silence(k) == k.reads = 0 /\ k.query = "none"
Reading(k) == k.reads = 1 /\ k.query = "none"
Asking(k) == k.reads = 0 /\ k.query \in {"ip", "account"}

Polite(k) == IsSocket(k) /\ (Silence(k) \/ Reading(k) \/ Asking(k))

(* The inductive invariant.                                                *)
ReadersInv ==
    /\ DOMAIN sock = Sockets
    /\ sock = [s \in Sockets |-> sock[s]]
    /\ \A s \in Sockets : Polite(sock[s])

(* n is k after a method that neither begins nor ends a read or a query.   *)
SameConversation(k, n) ==
    /\ IsSocket(n)
    /\ n.reads = k.reads
    /\ n.query = k.query

-----------------------------------------------------------------------------
(* What the methods of a socket do to the conversation.                    *)

(* The methods that send, mark or close leave it alone.                    *)
LEMMA QuietMethods ==
    ASSUME NEW k, IsSocket(k)
    PROVE  /\ SameConversation(k, SendPacket(k))
           /\ SameConversation(k, QueuePacket(k))
           /\ SameConversation(k, DelayedCloseSocket(k))
           /\ SameConversation(k, CloseSocket(k))
           /\ SameConversation(k, AsyncProcessQueue(k))
           /\ SameConversation(k, EmptyBufferQueue(k))
<1>1. SameConversation(k, SendPacket(k))
    BY DEF SameConversation, IsSocket, Fields, SendPacket
<1>2. SameConversation(k, QueuePacket(k))
    BY DEF SameConversation, IsSocket, Fields, QueuePacket
<1>3. SameConversation(k, DelayedCloseSocket(k))
    BY DEF SameConversation, IsSocket, Fields, DelayedCloseSocket
<1>4. SameConversation(k, CloseSocket(k))
    BY DEF SameConversation, IsSocket, Fields, CloseSocket
<1>5. SameConversation(k, AsyncProcessQueue(k))
    BY DEF SameConversation, IsSocket, Fields, AsyncProcessQueue
<1>6. SameConversation(k, EmptyBufferQueue(k))
    BY DEF SameConversation, IsSocket, Fields, EmptyBufferQueue
<1> QED
    BY <1>1, <1>2, <1>3, <1>4, <1>5, <1>6

(* AsyncRead begins one read at most.                                      *)
LEMMA ReadBegins ==
    ASSUME NEW k, IsSocket(k)
    PROVE  /\ IsSocket(AsyncRead(k))
           /\ AsyncRead(k).query = k.query
           /\ AsyncRead(k).reads \in {k.reads, k.reads + 1}
    BY DEF IsSocket, Fields, AsyncRead

(* A buffer that is popped, and so every outcome of HandleQueue.           *)
LEMMA PopIsQuiet ==
    ASSUME NEW k, IsSocket(k)
    PROVE  SameConversation(k, PopBuffer(k))
<1> DEFINE rest == [k EXCEPT !.writeQueue = Tail(@)]
<1>1. SameConversation(k, rest)
    BY DEF SameConversation, IsSocket, Fields
<1>2. SameConversation(rest, CloseSocket(rest))
    BY <1>1, QuietMethods DEF SameConversation
<1>3. PopBuffer(k) \in {rest, CloseSocket(rest)}
    BY DEF PopBuffer
<1> QED
    BY <1>1, <1>2, <1>3 DEF SameConversation

(* Every outcome of HandleQueue leaves the conversation alone.             *)
LEMMA HandleQueueIsQuiet ==
    ASSUME NEW k, IsSocket(k), NEW r \in HandleQueue(k)
    PROVE  SameConversation(k, r.to)
<1>1. CASE r = [to |-> k, go |-> FALSE]
    BY <1>1 DEF SameConversation
<1>2. CASE r \in WriteFails(k)
    BY <1>2, PopIsQuiet DEF WriteFails
<1>3. CASE r \in WriteSome(k)
  <2> PICK n \in 0 .. Len(Head(k.writeQueue)) - 1 :
        r = [to |-> AsyncProcessQueue([k EXCEPT
                    !.received = @ \o SubSeq(Head(k.writeQueue), 1, n),
                    !.writeQueue[1] = SubSeq(@, n + 1, Len(@))]),
             go |-> FALSE]
    BY <1>3 DEF WriteSome
  <2> DEFINE part == [k EXCEPT
                    !.received = @ \o SubSeq(Head(k.writeQueue), 1, n),
                    !.writeQueue[1] = SubSeq(@, n + 1, Len(@))]
  <2>1. SameConversation(k, part)
    BY DEF SameConversation, IsSocket, Fields
  <2>2. SameConversation(part, AsyncProcessQueue(part))
    BY <2>1, QuietMethods DEF SameConversation
  <2> QED
    BY <2>1, <2>2 DEF SameConversation
<1>4. CASE r \in WriteAll(k)
  <2> DEFINE full == [k EXCEPT !.received = @ \o Head(k.writeQueue)]
  <2>1. SameConversation(k, full)
    BY DEF SameConversation, IsSocket, Fields
  <2>2. SameConversation(full, PopBuffer(full))
    BY <2>1, PopIsQuiet DEF SameConversation
  <2>3. r.to = PopBuffer(full)
    BY <1>4 DEF WriteAll
  <2> QED
    BY <2>1, <2>2, <2>3 DEF SameConversation
<1> QED
    BY <1>1, <1>2, <1>3, <1>4 DEF HandleQueue

(* A quiet method leaves a polite socket polite.                           *)
LEMMA QuietIsPolite ==
    ASSUME NEW k, NEW n, Polite(k), SameConversation(k, n)
    PROVE  Polite(n)
    BY DEF Polite, SameConversation, Silence, Reading, Asking

(* The callback that answers a query ends it, and may begin one read.      *)
LEMMA AnswersArePolite ==
    ASSUME NEW k, Polite(k), NEW n \in Answered(k)
    PROVE  Polite(n)
<1> DEFINE done == [k EXCEPT !.query = "none"]
<1>1. CASE Silence(k) \/ Reading(k)
    BY <1>1 DEF Answered, Silence, Reading
<1>2. CASE Asking(k)
  <2> DEFINE known == [done EXCEPT !.authed = TRUE]
  <2>1. IsSocket(done) /\ Silence(done)
    BY <1>2 DEF Polite, IsSocket, Fields, Asking, Silence
  <2>2. IsSocket(known) /\ Silence(known)
    BY <2>1 DEF IsSocket, Fields, Silence
  <2> HIDE DEF done, known
  <2>3. ASSUME NEW m, IsSocket(m), Silence(m)
        PROVE  /\ IsSocket(SendPacket(m)) /\ Silence(SendPacket(m))
               /\ Polite(DelayedCloseSocket(m))
               /\ IsSocket(AsyncRead(m))
               /\ Silence(AsyncRead(m)) \/ Reading(AsyncRead(m))
    BY <2>3, QuietMethods, ReadBegins
    DEF SameConversation, Polite, Silence, Reading
  <2>4. ASSUME NEW m, IsSocket(m), Silence(m) \/ Reading(m)
        PROVE  Polite(QueuePacket(m)) /\ Polite(m)
    BY <2>4, QuietMethods DEF SameConversation, Polite, Silence, Reading
  <2>5. /\ Polite(DelayedCloseSocket(done))
        /\ Polite(QueuePacket(AsyncRead(done)))
    BY <2>1, <2>3, <2>4
  <2>6. /\ Polite(DelayedCloseSocket(SendPacket(done)))
        /\ Polite(AsyncRead(SendPacket(known)))
    BY <2>1, <2>2, <2>3, <2>4
  <2>7. n \in {DelayedCloseSocket(done), QueuePacket(AsyncRead(done)),
               DelayedCloseSocket(SendPacket(done)),
               AsyncRead(SendPacket(known))}
    BY <1>2 DEF Answered, Asking, done, known
  <2> QED
    BY <2>5, <2>6, <2>7
<1> QED
    BY <1>1, <1>2 DEF Polite

(* What the client said begins the next read, or a query.                  *)
LEMMA SaidIsPolite ==
    ASSUME NEW k, IsSocket(k), Silence(k), NEW n \in Said(k)
    PROVE  Polite(n)
<1>1. Polite(AsyncRead(k))
    BY ReadBegins DEF Polite, Silence, Reading
<1>2. Polite(CloseSocket(k))
    BY QuietMethods DEF SameConversation, Polite, Silence
<1>3. Polite([k EXCEPT !.query = "account"])
    BY DEF Polite, IsSocket, Fields, Silence, Asking
<1>4. Polite(DelayedCloseSocket(SendPacket(k)))
    BY QuietMethods DEF SameConversation, Polite, Silence
<1> QED
    BY <1>1, <1>2, <1>3, <1>4 DEF Said

-----------------------------------------------------------------------------
(* The invariant.                                                          *)

(* A step that writes one socket, and leaves it polite, preserves it.      *)
(* (What stands in no domain is not written: that Update only visits       *)
(* sockets is not needed.)                                                 *)
LEMMA OneSocketWritten ==
    ASSUME ReadersInv, NEW s, NEW k,
           sock' = [sock EXCEPT ![s] = k],
           s \in Sockets => Polite(k)
    PROVE  ReadersInv'
<1>1. sock' = [r \in Sockets |-> IF r = s THEN k ELSE sock[r]]
    BY DEF ReadersInv
<1>2. \A r \in Sockets : Polite(sock'[r])
    BY <1>1 DEF ReadersInv
<1> QED
    BY <1>1, <1>2 DEF ReadersInv, Polite, IsSocket, Silence, Reading, Asking

(* A step that writes no socket preserves it.                              *)
LEMMA ReadersUnchanged ==
    ASSUME ReadersInv, sock' = sock
    PROVE  ReadersInv'
    BY DEF ReadersInv, Polite, IsSocket, Silence, Reading, Asking

(* It holds at first.                                                      *)
LEMMA InitReaders == Init => ReadersInv
    BY DEF Init, ReadersInv, NewSocket, Polite, IsSocket, Fields, Silence

(* The acceptor asks about the address of a socket that says nothing yet.  *)
LEMMA ReadersAddSocket ==
    ASSUME ReadersInv, NEW s \in Sockets, AddSocket(s)
    PROVE  ReadersInv'
<1>1. sock[s] = NewSocket
    BY DEF AddSocket, Known
<1>2. Polite([sock[s] EXCEPT !.query = "ip"])
    BY <1>1 DEF NewSocket, Polite, IsSocket, Fields, Asking
<1>3. sock' = [sock EXCEPT ![s] = [sock[s] EXCEPT !.query = "ip"]]
    BY DEF AddSocket
<1> QED
    BY <1>2, <1>3, OneSocketWritten

(* The other threads and the network never touch a conversation.           *)
LEMMA ReadersOtherThreads ==
    ASSUME ReadersInv, NEW s \in Sockets,
           \/ WorldSend(s) \/ KickPlayer(s) \/ Shutdown(s)
           \/ RefuseLink(s) \/ RefusedLink(s) \/ LoseConnection(s)
    PROVE  ReadersInv'
<1> DEFINE k == sock[s]
<1> Polite(k) /\ IsSocket(k)
    BY DEF ReadersInv, Polite
<1>1. \E n : sock' = [sock EXCEPT ![s] = n] /\ SameConversation(k, n)
  <2>1. CASE WorldSend(s)
    BY <2>1, QuietMethods DEF WorldSend
  <2>2. CASE KickPlayer(s)
    <3> DEFINE n == [k EXCEPT !.closed = TRUE, !.caller = "close"]
    <3>1. SameConversation(k, n)
        BY DEF SameConversation, IsSocket, Fields
    <3>2. sock' = [sock EXCEPT ![s] = n]
        BY <2>2 DEF KickPlayer, ReadersInv
    <3> QED
        BY <3>1, <3>2
  <2>3. CASE Shutdown(s)
    <3> DEFINE n == [k EXCEPT !.broken = TRUE, !.caller = "none"]
    <3>1. SameConversation(k, n)
        BY DEF SameConversation, IsSocket, Fields
    <3>2. sock' = [sock EXCEPT ![s] = n]
        BY <2>3 DEF Shutdown, ReadersInv
    <3> QED
        BY <3>1, <3>2
  <2>4. CASE RefuseLink(s)
    <3> DEFINE n == [SendPacket(k) EXCEPT !.caller = "refuse"]
    <3>1. SameConversation(k, n)
        BY QuietMethods DEF SameConversation, IsSocket, Fields
    <3> QED
        BY <2>4, <3>1 DEF RefuseLink
  <2>5. CASE RefusedLink(s)
    <3> DEFINE n == [DelayedCloseSocket(k) EXCEPT !.caller = "none"]
    <3>1. SameConversation(k, n)
        BY QuietMethods DEF SameConversation, IsSocket, Fields
    <3> QED
        BY <2>5, <3>1 DEF RefusedLink
  <2>6. CASE LoseConnection(s)
    <3> DEFINE n == [k EXCEPT !.broken = TRUE]
    <3>1. SameConversation(k, n)
        BY DEF SameConversation, IsSocket, Fields
    <3> QED
        BY <2>6, <3>1 DEF LoseConnection
  <2> QED
    BY <2>1, <2>2, <2>3, <2>4, <2>5, <2>6
<1> QED
    BY <1>1, QuietIsPolite, OneSocketWritten

(* Update on its current socket: the callback of a query is the only step  *)
(* that moves a conversation.                                              *)
LEMMA ReadersUpdate ==
    ASSUME ReadersInv, Update
    PROVE  ReadersInv'
<1> DEFINE s == Head(todo)
<1>0. s \in Sockets => Polite(sock[s]) /\ IsSocket(sock[s])
    BY DEF ReadersInv, Polite
<1>1. CASE StartUpdate \/ RemoveClosed \/ TestFlags \/ Exit
    BY <1>1, ReadersUnchanged
    DEF StartUpdate, RemoveClosed, TestFlags, Exit
<1>2. CASE GatherPackets
  <2>1. sock' = [sock EXCEPT ![s] = EmptyBufferQueue(sock[s])]
    BY <1>2 DEF GatherPackets
  <2>2. s \in Sockets => Polite(EmptyBufferQueue(sock[s]))
    BY <1>0, QuietMethods, QuietIsPolite
  <2> QED
    BY <2>1, <2>2, OneSocketWritten
<1>3. CASE WriteBuffer
  <2>1. PICK r \in HandleQueue(sock[s]) : sock' = [sock EXCEPT ![s] = r.to]
    BY <1>3 DEF WriteBuffer
  <2>2. s \in Sockets => Polite(r.to)
    BY <1>0, HandleQueueIsQuiet, QuietIsPolite
  <2> QED
    BY <2>1, <2>2, OneSocketWritten
<1>4. CASE ProcessReadyCallbacks
  <2>1. PICK k \in {sock[s]} \cup Answered(sock[s]) :
            sock' = [sock EXCEPT ![s] = k]
    BY <1>4 DEF ProcessReadyCallbacks
  <2>2. s \in Sockets => Polite(k)
    BY <1>0, AnswersArePolite
  <2> QED
    BY <2>1, <2>2, OneSocketWritten
<1> QED
    BY <1>1, <1>2, <1>3, <1>4 DEF Update

(* The handler of a read ends that read before anything else.              *)
LEMMA ReadersReadHandler ==
    ASSUME ReadersInv, NEW s \in Sockets, ReadHandler(s)
    PROVE  ReadersInv'
<1> DEFINE k == [sock[s] EXCEPT !.reads = @ - 1]
<1>1. Polite(sock[s]) /\ sock[s].reads > 0
    BY DEF ReadersInv, ReadHandler
<1>2. IsSocket(k) /\ Silence(k)
    BY <1>1 DEF Polite, IsSocket, Fields, Silence, Reading, Asking
<1>3. \E n \in {k, CloseSocket(k)} \cup Said(k) : sock' = [sock EXCEPT ![s] = n]
    BY DEF ReadHandler
<1> HIDE DEF k
<1>4. Polite(k) /\ Polite(CloseSocket(k))
    BY <1>2, QuietMethods DEF Polite, SameConversation, Silence
<1>5. \A n \in Said(k) : Polite(n)
    BY <1>2, SaidIsPolite
<1> QED
    BY <1>3, <1>4, <1>5, OneSocketWritten

(* The handler of a write only writes.                                     *)
LEMMA ReadersWriteHandler ==
    ASSUME ReadersInv, NEW s \in Sockets, WriteHandler(s)
    PROVE  ReadersInv'
<1> DEFINE k == [sock[s] EXCEPT !.writing = FALSE]
<1>1. Polite(sock[s])
    BY DEF ReadersInv
<1>2. SameConversation(sock[s], k)
    BY <1>1 DEF Polite, SameConversation, IsSocket, Fields
<1>3. PICK r \in HandleQueue(k) : sock' = [sock EXCEPT ![s] = r.to]
    BY DEF WriteHandler
<1> HIDE DEF k
<1>4. Polite(k) /\ IsSocket(k)
    BY <1>1, <1>2, QuietIsPolite DEF Polite
<1>5. Polite(r.to)
    BY <1>4, HandleQueueIsQuiet, QuietIsPolite
<1> QED
    BY <1>3, <1>5, OneSocketWritten

(* Every step preserves it.                                                *)
LEMMA NextReaders == ReadersInv /\ [Next]_vars => ReadersInv'
<1> SUFFICES ASSUME ReadersInv, [Next]_vars
             PROVE  ReadersInv'
    OBVIOUS
<1>1. CASE Update
    BY <1>1, ReadersUpdate
<1>2. CASE \E s \in Sockets : ReadHandler(s) \/ WriteHandler(s)
    BY <1>2, ReadersReadHandler, ReadersWriteHandler
<1>3. CASE Others
  <2>1. CASE Stop
    BY <2>1, ReadersUnchanged DEF Stop
  <2>2. CASE \E s \in Sockets : AddSocket(s)
    BY <2>2, ReadersAddSocket
  <2> QED
    BY <1>3, <2>1, <2>2, ReadersOtherThreads DEF Others
<1>4. CASE Terminated \/ UNCHANGED vars
    BY <1>4, ReadersUnchanged DEF Terminated, vars
<1> QED
    BY <1>1, <1>2, <1>3, <1>4 DEF Next

(* At any time one party at most carries the conversation of a socket on   *)
(* (Socket::AsyncRead, WorldSocket::CheckIpCallback, ReadDataHandler and   *)
(* HandleAuthSession): two reads never write into the same buffer.         *)
THEOREM ReadersCorrect == Spec => []OneReader
<1>1. ReadersInv => OneReader
    BY DEF ReadersInv, Polite, Silence, Reading, Asking, OneReader
<1> QED
    BY <1>1, InitReaders, NextReaders, PTL DEF Spec

-----------------------------------------------------------------------------
(* Numbers, sequences and folds.                                           *)

(* A set of numbers that is not empty has a smallest one.                  *)
LEMMA Smallest ==
    ASSUME NEW S \in SUBSET Nat, S # {}
    PROVE  \E x \in S : \A y \in S : x <= y
<1>1. PICK x \in S : \A y \in S : <<y, x>> \notin OpToRel(<, Nat)
    BY NatLessThanWellFounded, WFMin
<1>2. \A y \in S : ~(y < x)
    BY <1>1 DEF OpToRel
<1> QED
    BY <1>2

(* What holds of 0, and of i + 1 if it holds of i, holds up to n.          *)
LEMMA Induction ==
    ASSUME NEW n \in Nat, NEW holds, holds[0],
           \A i \in 0 .. n - 1 : holds[i] => holds[i + 1]
    PROVE  \A i \in 0 .. n : holds[i]
<1> DEFINE wrong == {i \in 0 .. n : ~holds[i]}
<1> SUFFICES ASSUME wrong # {}
             PROVE  FALSE
    OBVIOUS
<1>0. wrong \in SUBSET Nat
    OBVIOUS
<1>1. PICK i \in wrong : \A j \in wrong : i <= j
    BY <1>0, Smallest
<1>2. i - 1 \in 0 .. n - 1 /\ i - 1 \notin wrong
    BY <1>1
<1> QED
    BY <1>1, <1>2

(* Max of 1 .. n.                                                          *)
LEMMA MaxOfInterval ==
    ASSUME NEW n \in Nat \ {0}, NEW S \in SUBSET (1 .. n), n \in S
    PROVE  Max(S) = n
<1>1. \A x \in S : n >= x
    OBVIOUS
<1>2. \A x \in S : (\A y \in S : x >= y) => x = n
    OBVIOUS
<1> QED
    BY <1>1, <1>2 DEF Max

(* A sequence without repetition is as long as it has elements.            *)
LEMMA DistinctLength ==
    ASSUME NEW S, NEW q \in Seq(S), \A i, j \in DOMAIN q : q[i] = q[j] => i = j
    PROVE  IsFiniteSet(ToSet(q)) /\ Cardinality(ToSet(q)) = Len(q)
<1> DEFINE T == ToSet(q)
<1>1. DOMAIN q = 1 .. Len(q) /\ Len(q) \in Nat
    OBVIOUS
<1>2. \A i \in 1 .. Len(q) : q[i] \in T
    BY <1>1 DEF ToSet
<1>3. q \in [1 .. Len(q) -> T]
    BY <1>1, <1>2
<1>4. \A t \in T : \E i \in 1 .. Len(q) : q[i] = t
    BY <1>1 DEF ToSet
<1> HIDE DEF T
<1>5. q \in Bijection(1 .. Len(q), T)
    BY <1>1, <1>3, <1>4, Fun_IsBij
<1>6. ExistsBijection(1 .. Len(q), T)
    BY <1>5 DEF ExistsBijection
<1>7. Cardinality(T) = Len(q)
    BY <1>1, <1>6, FS_CountingElements
<1>8. IsFiniteSet(T)
  <2>1. IsFiniteSet(1 .. Len(q))
      BY <1>1, FS_Interval
  <2>2. q \in Surjection(1 .. Len(q), T)
      BY <1>5 DEF Bijection
  <2> QED
      BY <2>1, <2>2, FS_Surjection
<1> QED
    BY <1>7, <1>8 DEF T

-----------------------------------------------------------------------------
(* The sockets that AddNewSockets takes over.                              *)

(* The fold of Opened, over the first sockets of the queue.                *)
OpenedOf(open, s) == IF IsOpen(sock[s]) THEN Append(open, s) ELSE open

IsOpenedFold(it, D) ==
    it = [P \in SUBSET D |->
            IF P = {} THEN <<>>
            ELSE OpenedOf(it[P \ {Max(P)}], newSockets[Max(P)])]

(* There is such a fold over any first sockets.                            *)
LEMMA OpenedFoldExists ==
    ASSUME NEW n \in Nat
    PROVE  \E it : IsOpenedFold(it, 1 .. n)
<1> DEFINE holds == [i \in 0 .. n |-> \E it : IsOpenedFold(it, 1 .. i)]
<1>1. holds[0]
  <2>1. IsOpenedFold([P \in {{}} |-> <<>>], 1 .. 0)
      BY DEF IsOpenedFold
  <2> QED
      BY <2>1
<1>2. ASSUME NEW i \in 0 .. n - 1, holds[i]
      PROVE  holds[i + 1]
  <2>1. PICK it : IsOpenedFold(it, 1 .. i)
      BY <1>2
  <2> DEFINE m == i + 1
             grown == [P \in SUBSET (1 .. m) |->
                         IF m \in P
                         THEN OpenedOf(it[P \ {m}], newSockets[m])
                         ELSE it[P]]
  <2>2. \A P \in SUBSET (1 .. m) : m \notin P => P \in SUBSET (1 .. i)
      OBVIOUS
  <2>3. \A P \in SUBSET (1 .. m) : m \in P => Max(P) = m
      BY MaxOfInterval
  <2>4. \A P \in SUBSET (1 .. m) : m \in P => P # {} /\ grown[P \ {m}] = it[P \ {m}]
      OBVIOUS
  <2>5. \A P \in SUBSET (1 .. i) :
            it[P] = IF P = {} THEN <<>>
                    ELSE OpenedOf(it[P \ {Max(P)}], newSockets[Max(P)])
      BY <2>1 DEF IsOpenedFold
  <2>6. \A P \in SUBSET (1 .. m) : m \notin P => P \ {Max(P)} \in SUBSET (1 .. m)
                                                 /\ m \notin P \ {Max(P)}
      OBVIOUS
  <2>7. \A P \in SUBSET (1 .. m) :
            grown[P] = IF P = {} THEN <<>>
                       ELSE OpenedOf(grown[P \ {Max(P)}], newSockets[Max(P)])
    <3> SUFFICES ASSUME NEW P \in SUBSET (1 .. m)
                 PROVE  grown[P] = IF P = {} THEN <<>>
                                   ELSE OpenedOf(grown[P \ {Max(P)}], newSockets[Max(P)])
        OBVIOUS
    <3>1. CASE m \in P
        BY <2>3, <2>4, <3>1
    <3>2. CASE m \notin P
      <4>1. grown[P] = it[P] /\ grown[P \ {Max(P)}] = it[P \ {Max(P)}]
          BY <2>6, <3>2
      <4> QED
          BY <2>2, <2>5, <3>2, <4>1
    <3> QED
        BY <3>1, <3>2
  <2> HIDE DEF grown
  <2>8. grown = [P \in SUBSET (1 .. m) |-> grown[P]]
      BY DEF grown
  <2>9. IsOpenedFold(grown, 1 .. m)
      BY <2>7, <2>8 DEF IsOpenedFold
  <2> QED
      BY <2>9
<1> HIDE DEF holds
<1>3. holds[n]
    BY <1>1, <1>2, Induction
<1> QED
    BY <1>3 DEF holds

(* Socket by socket.                                                       *)
LEMMA OpenedSteps ==
    ASSUME NEW n \in Nat, DOMAIN newSockets = 1 .. n
    PROVE  \E h : /\ h[0] = <<>>
                  /\ \A i \in 1 .. n : h[i] = OpenedOf(h[i - 1], newSockets[i])
                  /\ Opened = h[n]
<1> DEFINE it == CHOOSE it : IsOpenedFold(it, 1 .. n)
           h == [i \in 0 .. n |-> it[1 .. i]]
<1>1. Opened = it[1 .. n]
    BY DEF Opened, FoldLeft, MapThenFoldSet, IsOpenedFold, OpenedOf
<1>2. IsOpenedFold(it, 1 .. n)
    BY OpenedFoldExists
<1> HIDE DEF it
<1>3. \A P \in SUBSET (1 .. n) :
            it[P] = IF P = {} THEN <<>>
                    ELSE OpenedOf(it[P \ {Max(P)}], newSockets[Max(P)])
    BY <1>2 DEF IsOpenedFold
<1>4. it[1 .. 0] = <<>>
  <2>1. 1 .. 0 = {}
      OBVIOUS
  <2> QED
      BY <1>3, <2>1
<1>5. \A i \in 1 .. n : it[1 .. i] = OpenedOf(it[1 .. i - 1], newSockets[i])
  <2> SUFFICES ASSUME NEW i \in 1 .. n
               PROVE  it[1 .. i] = OpenedOf(it[1 .. i - 1], newSockets[i])
      OBVIOUS
  <2>1. 1 .. i \in SUBSET (1 .. n) /\ i \in 1 .. i /\ (1 .. i) \ {i} = 1 .. i - 1
      OBVIOUS
  <2>2. Max(1 .. i) = i
      BY MaxOfInterval
  <2> QED
      BY <1>3, <2>1, <2>2
<1>6. /\ h[0] = <<>> /\ Opened = h[n]
      /\ \A i \in 1 .. n : h[i] = OpenedOf(h[i - 1], newSockets[i])
    BY <1>1, <1>4, <1>5
<1> QED
    BY <1>6

(* They are the open ones, once each.                                      *)
LEMMA OpenedFacts ==
    ASSUME newSockets \in Seq(Sockets),
           \A i, j \in DOMAIN newSockets : newSockets[i] = newSockets[j] => i = j
    PROVE  /\ Opened \in Seq(Sockets)
           /\ \A i, j \in DOMAIN Opened : Opened[i] = Opened[j] => i = j
           /\ ToSet(Opened) = {s \in ToSet(newSockets) : IsOpen(sock[s])}
<1> DEFINE n == Len(newSockets)
           q == newSockets
<1>1. n \in Nat /\ DOMAIN q = 1 .. n
    OBVIOUS
<1>2. PICK h : /\ h[0] = <<>>
               /\ \A i \in 1 .. n : h[i] = OpenedOf(h[i - 1], q[i])
               /\ Opened = h[n]
    BY <1>1, OpenedSteps
<1> DEFINE Good(i) == /\ h[i] \in Seq(Sockets)
                      /\ \A j, k \in DOMAIN h[i] : h[i][j] = h[i][k] => j = k
                      /\ ToSet(h[i]) = {s \in Sockets :
                            IsOpen(sock[s]) /\ \E j \in 1 .. i : q[j] = s}
           holds == [i \in 0 .. n |-> Good(i)]
<1>3. holds[0]
  <2>1. h[0] = <<>> /\ <<>> \in Seq(Sockets) /\ DOMAIN <<>> = {} /\ 1 .. 0 = {}
      BY <1>2
  <2>2. ToSet(h[0]) = {}
      BY <2>1 DEF ToSet
  <2>3. Good(0)
      BY <2>1, <2>2
  <2> QED
      BY <1>1, <2>3
<1>4. ASSUME NEW i \in 0 .. n - 1, holds[i]
      PROVE  holds[i + 1]
  <2> DEFINE m == i + 1
             s == q[m]
             o == h[i]
  <2>1. /\ m \in 1 .. n /\ m - 1 = i /\ s \in Sockets
        /\ \A j \in 1 .. i : q[j] # s
        /\ \A j \in 1 .. m : j \in 1 .. i \/ j = m
        /\ \A j \in 1 .. i : j \in 1 .. m
      BY <1>1
  <2>2. h[m] = IF IsOpen(sock[s]) THEN Append(o, s) ELSE o
      BY <1>2, <2>1 DEF OpenedOf
  <2>3. /\ o \in Seq(Sockets)
        /\ \A j, k \in DOMAIN o : o[j] = o[k] => j = k
        /\ ToSet(o) = {t \in Sockets : IsOpen(sock[t]) /\ \E j \in 1 .. i : q[j] = t}
      BY <1>1, <1>4
  <2> HIDE DEF o, s, m
  <2>4. CASE IsOpen(sock[s])
    <3>1. /\ Append(o, s) \in Seq(Sockets)
          /\ DOMAIN Append(o, s) = 1 .. Len(o) + 1 /\ DOMAIN o = 1 .. Len(o)
          /\ Len(o) \in Nat
          /\ \A j \in 1 .. Len(o) : Append(o, s)[j] = o[j]
          /\ Append(o, s)[Len(o) + 1] = s
        BY <2>1, <2>3
    <3>2. \A j \in 1 .. Len(o) : o[j] # s
      <4>1. s \notin ToSet(o)
          BY <2>1, <2>3 DEF s, m
      <4> QED
          BY <3>1, <4>1 DEF ToSet
    <3>3. ASSUME NEW j \in 1 .. Len(o) + 1, NEW k \in 1 .. Len(o) + 1,
                 Append(o, s)[j] = Append(o, s)[k]
          PROVE  j = k
      <4>1. CASE j \in 1 .. Len(o) /\ k \in 1 .. Len(o)
          BY <2>3, <3>1, <3>3, <4>1
      <4>2. CASE j = Len(o) + 1 /\ k \in 1 .. Len(o)
          BY <3>1, <3>2, <3>3, <4>2
      <4>3. CASE j \in 1 .. Len(o) /\ k = Len(o) + 1
          BY <3>1, <3>2, <3>3, <4>3
      <4>4. \A x \in 1 .. Len(o) + 1 : x \in 1 .. Len(o) \/ x = Len(o) + 1
          BY <3>1
      <4> QED
          BY <4>1, <4>2, <4>3, <4>4
    <3>4. ToSet(Append(o, s)) = ToSet(o) \cup {s}
        BY <3>1 DEF ToSet
    <3>5. \A t : (\E j \in 1 .. m : q[j] = t) <=> (\E j \in 1 .. i : q[j] = t) \/ t = s
        BY <2>1 DEF s
    <3>6. {t \in Sockets : IsOpen(sock[t]) /\ \E j \in 1 .. m : q[j] = t} = ToSet(o) \cup {s}
        BY <2>1, <2>3, <2>4, <3>5
    <3>7. h[m] = Append(o, s)
        BY <2>2, <2>4
    <3>8. Good(m)
        BY <3>1, <3>3, <3>4, <3>6, <3>7
    <3> QED
        BY <2>1, <3>8 DEF m
  <2>5. CASE ~IsOpen(sock[s])
    <3>1. \A t : IsOpen(sock[t]) => ((\E j \in 1 .. m : q[j] = t) <=> (\E j \in 1 .. i : q[j] = t))
        BY <2>1, <2>5 DEF s
    <3>2. {t \in Sockets : IsOpen(sock[t]) /\ \E j \in 1 .. m : q[j] = t} = ToSet(o)
        BY <2>3, <3>1
    <3>3. Good(m)
        BY <2>2, <2>3, <2>5, <3>2
    <3> QED
        BY <2>1, <3>3 DEF m
  <2> QED
      BY <2>4, <2>5
<1>5. Good(n)
  <2>1. n \in Nat
      BY <1>1
  <2> HIDE DEF n, holds
  <2>2. \A i \in 0 .. n - 1 : holds[i] => holds[i + 1]
      BY <1>4
  <2>3. \A i \in 0 .. n : holds[i]
      BY <1>3, <2>1, <2>2, Induction
  <2>4. holds[n]
      BY <2>1, <2>3
  <2> QED
      BY <2>1, <2>4 DEF holds
<1>6. {s \in Sockets : IsOpen(sock[s]) /\ \E j \in 1 .. n : q[j] = s}
        = {s \in ToSet(q) : IsOpen(sock[s])}
    BY <1>1 DEF ToSet
<1> QED
    BY <1>2, <1>5, <1>6

-----------------------------------------------------------------------------
(* Parts of sequences.                                                     *)

(* The first m elements of a sequence.                                     *)
LEMMA Take ==
    ASSUME NEW S, NEW q \in Seq(S), NEW m \in 0 .. Len(q)
    PROVE  /\ SubSeq(q, 1, m) \in Seq(S) /\ Len(SubSeq(q, 1, m)) = m
           /\ \A i \in 1 .. m : SubSeq(q, 1, m)[i] = q[i]
<1>1. m \in Int /\ m \in Nat /\ 1 \in Int /\ \A i \in 1 .. m : q[i] \in S
    OBVIOUS
<1>2. /\ SubSeq(q, 1, m) \in Seq(S)
      /\ Len(SubSeq(q, 1, m)) = IF 1 <= m THEN m - 1 + 1 ELSE 0
      /\ \A i \in 1 .. m - 1 + 1 : SubSeq(q, 1, m)[i] = q[1 + i - 1]
    BY <1>1, SubSeqProperties
<1>3. m - 1 + 1 = m /\ (~(1 <= m) => m = 0) /\ \A i \in 1 .. m : 1 + i - 1 = i
    BY <1>1
<1> QED
    BY <1>2, <1>3

(* The others.                                                             *)
LEMMA Drop ==
    ASSUME NEW S, NEW q \in Seq(S), NEW m \in 0 .. Len(q)
    PROVE  /\ SubSeq(q, m + 1, Len(q)) \in Seq(S)
           /\ Len(SubSeq(q, m + 1, Len(q))) = Len(q) - m
           /\ \A i \in 1 .. Len(q) - m : SubSeq(q, m + 1, Len(q))[i] = q[m + i]
<1> DEFINE n == Len(q)
           r == SubSeq(q, m + 1, n)
<1>1. m + 1 \in Int /\ n \in Int /\ m \in Int /\ m <= n /\ \A i \in m + 1 .. n : q[i] \in S
    OBVIOUS
<1> HIDE DEF n
<1>2. /\ r \in Seq(S)
      /\ Len(r) = IF m + 1 <= n THEN n - (m + 1) + 1 ELSE 0
      /\ \A i \in 1 .. n - (m + 1) + 1 : r[i] = q[(m + 1) + i - 1]
    BY <1>1, SubSeqProperties
<1> HIDE DEF r
<1>3. /\ n - (m + 1) + 1 = n - m /\ (~(m + 1 <= n) => n - m = 0)
      /\ \A i \in 1 .. n - m : (m + 1) + i - 1 = m + i
    BY <1>1
<1>4. r \in Seq(S) /\ Len(r) = n - m /\ \A i \in 1 .. n - m : r[i] = q[m + i]
    BY <1>2, <1>3
<1> QED
    BY <1>4 DEF n, r


-----------------------------------------------------------------------------
(* The list without a socket.                                              *)

(* The only place is the first one.                                        *)
LEMMA MinOfSingleton ==
    ASSUME NEW n \in Nat
    PROVE  Min({n}) = n
    BY DEF Min

(* Nothing but e leaves a list that holds each socket once.                *)
LEMMA RemoveFirstFacts ==
    ASSUME NEW q \in Seq(Sockets), NEW e \in ToSet(q),
           \A i, j \in DOMAIN q : q[i] = q[j] => i = j
    PROVE  /\ RemoveFirst(q, e) \in Seq(Sockets)
           /\ Len(RemoveFirst(q, e)) = Len(q) - 1
           /\ \A i, j \in DOMAIN RemoveFirst(q, e) :
                RemoveFirst(q, e)[i] = RemoveFirst(q, e)[j] => i = j
           /\ ToSet(RemoveFirst(q, e)) = ToSet(q) \ {e}
<1>1. DOMAIN q = 1 .. Len(q) /\ Len(q) \in Nat
    OBVIOUS
<1>2. PICK n \in 1 .. Len(q) : q[n] = e
    BY <1>1 DEF ToSet
<1>3. {i \in 1 .. Len(q) : q[i] = e} = {n}
    BY <1>1, <1>2
<1>4. SelectInSeq(q, LAMBDA v : v = e) = n
    BY <1>2, <1>3, MinOfSingleton DEF SelectInSeq
<1>5. RemoveFirst(q, e) = RemoveAt(q, n)
    BY <1>1, <1>2, <1>4 DEF RemoveFirst
<1> DEFINE before == SubSeq(q, 1, n - 1)
           after == SubSeq(q, n + 1, Len(q))
           r == before \o after
<1>6. /\ before \in Seq(Sockets) /\ Len(before) = n - 1
      /\ \A i \in 1 .. n - 1 : before[i] = q[i]
  <2>1. n - 1 \in 0 .. Len(q)
      BY <1>1, <1>2
  <2> QED
      BY <2>1, Take
<1>7. /\ after \in Seq(Sockets) /\ Len(after) = Len(q) - n
      /\ \A i \in 1 .. Len(q) - n : after[i] = q[n + i]
  <2>1. n \in 0 .. Len(q)
      BY <1>1, <1>2
  <2> QED
      BY <2>1, Drop
<1> HIDE DEF before, after
<1>8. r \in Seq(Sockets) /\ Len(r) = Len(q) - 1 /\ DOMAIN r = 1 .. Len(q) - 1
  <2>1. r \in Seq(Sockets) /\ Len(r) = Len(before) + Len(after)
      BY <1>6, <1>7, ConcatProperties
  <2> HIDE DEF r
  <2> QED
      BY <1>1, <1>2, <1>6, <1>7, <2>1
<1>9. \A i \in 1 .. Len(q) - 1 : r[i] = IF i < n THEN q[i] ELSE q[i + 1]
  <2> SUFFICES ASSUME NEW i \in 1 .. Len(q) - 1
               PROVE  r[i] = IF i < n THEN q[i] ELSE q[i + 1]
      OBVIOUS
  <2>1. r[i] = IF i <= n - 1 THEN before[i] ELSE after[i - (n - 1)]
      BY <1>1, <1>2, <1>6, <1>7, ConcatProperties
  <2> QED
      BY <1>1, <1>2, <1>6, <1>7, <2>1
<1>10. RemoveFirst(q, e) = r
    BY <1>5 DEF RemoveAt, before, after
<1> HIDE DEF r
<1>11. \A i, j \in DOMAIN r : r[i] = r[j] => i = j
    BY <1>1, <1>2, <1>8, <1>9
<1>12. ToSet(r) = ToSet(q) \ {e}
  <2>1. \A i \in DOMAIN r : \E j \in DOMAIN q : r[i] = q[j] /\ j # n
    <3> SUFFICES ASSUME NEW i \in 1 .. Len(q) - 1
                 PROVE  \E j \in DOMAIN q : r[i] = q[j] /\ j # n
        BY <1>8
    <3>1. CASE i < n
        BY <1>1, <1>2, <1>9, <3>1
    <3>2. CASE ~(i < n)
      <4>1. i + 1 \in DOMAIN q /\ r[i] = q[i + 1] /\ i + 1 # n
          BY <1>1, <1>2, <1>9, <3>2
      <4> QED
          BY <4>1
    <3> QED
        BY <3>1, <3>2
  <2>2. \A t \in ToSet(q) \ {e} : \E i \in DOMAIN r : r[i] = t
    <3> SUFFICES ASSUME NEW t \in ToSet(q) \ {e}
                 PROVE  \E i \in DOMAIN r : r[i] = t
        OBVIOUS
    <3>1. PICK j \in 1 .. Len(q) : q[j] = t /\ j # n
        BY <1>1, <1>2 DEF ToSet
    <3>2. CASE j < n
        BY <1>1, <1>2, <1>8, <1>9, <3>1, <3>2
    <3>3. CASE j > n
      <4>1. j - 1 \in 1 .. Len(q) - 1 /\ ~(j - 1 < n) /\ (j - 1) + 1 = j
          BY <1>1, <1>2, <3>1, <3>3
      <4> QED
          BY <1>8, <1>9, <3>1, <4>1
    <3> QED
        BY <1>1, <1>2, <3>1, <3>2, <3>3
  <2>3. \A i \in DOMAIN r : r[i] \in ToSet(q) /\ r[i] # e
      BY <1>1, <1>2, <2>1 DEF ToSet
  <2>4. \A t \in ToSet(r) : t \in ToSet(q) \ {e}
      BY <2>3 DEF ToSet
  <2>5. \A t \in ToSet(q) \ {e} : t \in ToSet(r)
      BY <2>2 DEF ToSet
  <2> QED
      BY <2>4, <2>5
<1> QED
    BY <1>8, <1>10, <1>11, <1>12

-----------------------------------------------------------------------------
(* Packets in buffers.                                                     *)

(* The function of FlattenSeq, over the first n buffers.                   *)
IsFlattening(f, q, n) ==
    f = [i \in 1 .. n |-> IF i = 1 THEN q[i] ELSE f[i - 1] \o q[i]]

(* The function that FlattenSeq chooses exists.                            *)
LEMMA FlatteningExists ==
    ASSUME NEW q, NEW n \in Nat
    PROVE  \E f : IsFlattening(f, q, n)
<1> DEFINE holds == [i \in 0 .. n |-> \E f : IsFlattening(f, q, i)]
<1>1. holds[0]
  <2>1. IsFlattening([i \in 1 .. 0 |-> <<>>], q, 0)
      BY DEF IsFlattening
  <2> QED
      BY <2>1
<1>2. ASSUME NEW m \in 0 .. n - 1, holds[m]
      PROVE  holds[m + 1]
  <2>1. PICK f : IsFlattening(f, q, m)
      BY <1>2
  <2> DEFINE g == [i \in 1 .. m + 1 |->
                    IF i = m + 1 THEN (IF i = 1 THEN q[i] ELSE f[m] \o q[i]) ELSE f[i]]
  <2>2. \A i \in 1 .. m : f[i] = IF i = 1 THEN q[i] ELSE f[i - 1] \o q[i]
      BY <2>1 DEF IsFlattening
  <2>3. \A i \in 1 .. m + 1 : g[i] = IF i = 1 THEN q[i] ELSE g[i - 1] \o q[i]
    <3> SUFFICES ASSUME NEW i \in 1 .. m + 1
                 PROVE  g[i] = IF i = 1 THEN q[i] ELSE g[i - 1] \o q[i]
        OBVIOUS
    <3>1. CASE i = m + 1
        BY <3>1
    <3>2. CASE i # m + 1
      <4>1. i \in 1 .. m /\ g[i] = f[i] /\ (i # 1 => g[i - 1] = f[i - 1])
          BY <3>2
      <4> QED
          BY <2>2, <4>1
    <3> QED
        BY <3>1, <3>2
  <2>4. g = [i \in 1 .. m + 1 |-> g[i]]
      OBVIOUS
  <2> HIDE DEF g
  <2>5. IsFlattening(g, q, m + 1)
      BY <2>3, <2>4 DEF IsFlattening
  <2> QED
      BY <2>5
<1> HIDE DEF holds
<1>3. holds[n]
    BY <1>1, <1>2, Induction
<1> QED
    BY <1>3 DEF holds

(* Buffer by buffer.                                                       *)
LEMMA FlattenSteps ==
    ASSUME NEW S, NEW q \in Seq(Seq(S))
    PROVE  \E h : /\ h[0] = <<>>
                  /\ \A i \in 1 .. Len(q) : h[i] = h[i - 1] \o q[i]
                  /\ \A i \in 0 .. Len(q) : h[i] \in Seq(S)
                  /\ FlattenSeq(q) = h[Len(q)]
<1> DEFINE n == Len(q)
           f == CHOOSE f : IsFlattening(f, q, n)
           h == [i \in 0 .. n |-> IF i = 0 THEN <<>> ELSE f[i]]
           holds == [i \in 0 .. n |-> h[i] \in Seq(S)]
<1>1. n \in Nat /\ \A i \in 1 .. n : q[i] \in Seq(S)
    OBVIOUS
<1>2. FlattenSeq(q) = IF n = 0 THEN q ELSE f[n]
    BY DEF FlattenSeq, IsFlattening
<1>3. IsFlattening(f, q, n)
    BY <1>1, FlatteningExists
<1> HIDE DEF f
<1>4. \A i \in 1 .. n : f[i] = IF i = 1 THEN q[i] ELSE f[i - 1] \o q[i]
    BY <1>3 DEF IsFlattening
<1>5. q[1] \in Seq(S) => <<>> \o q[1] = q[1]
    OBVIOUS
<1>6. h[0] = <<>>
    OBVIOUS
<1>61. \A i \in 1 .. n : h[i] = f[i]
    BY <1>1
<1>7. \A i \in 1 .. n : h[i] = h[i - 1] \o q[i]
  <2> HIDE DEF h, n
  <2> SUFFICES ASSUME NEW i \in 1 .. n
               PROVE  h[i] = h[i - 1] \o q[i]
      OBVIOUS
  <2>1. CASE i = 1
    <3>1. i - 1 = 0 /\ q[1] \in Seq(S)
        BY <1>1, <2>1
    <3>2. h[i] = q[1]
        BY <1>4, <1>61, <2>1
    <3> QED
        BY <1>5, <1>6, <2>1, <3>1, <3>2
  <2>2. CASE i # 1
    <3>1. i - 1 \in 1 .. n
        BY <1>1, <2>2
    <3> QED
        BY <1>4, <1>61, <2>2, <3>1
  <2> QED
      BY <2>1, <2>2
<1>8. FlattenSeq(q) = h[n]
    BY <1>1, <1>2
<1>9. \A i \in 0 .. n : h[i] \in Seq(S)
  <2> HIDE DEF h
  <2>0. 0 \in 0 .. n /\ h[0] \in Seq(S)
      BY <1>1, <1>6
  <2>1. holds[0]
      BY <2>0
  <2>2. ASSUME NEW i \in 0 .. n - 1, holds[i]
        PROVE  holds[i + 1]
    <3>1. i \in 0 .. n /\ i + 1 \in 1 .. n /\ i + 1 \in 0 .. n /\ (i + 1) - 1 = i
        BY <1>1
    <3>2. h[i] \in Seq(S) /\ q[i + 1] \in Seq(S)
        BY <1>1, <2>2, <3>1
    <3>3. h[i + 1] = h[i] \o q[i + 1]
        BY <1>7, <3>1
    <3>4. h[i + 1] \in Seq(S)
        BY <3>2, <3>3
    <3> HIDE DEF n
    <3> QED
        BY <3>1, <3>4
  <2> HIDE DEF n, holds
  <2>3. \A i \in 0 .. n - 1 : holds[i] => holds[i + 1]
      BY <2>2
  <2>4. \A i \in 0 .. n : holds[i]
      BY <1>1, <2>1, <2>3, Induction
  <2> QED
      BY <2>4 DEF holds
<1> HIDE DEF h
<1> QED
    BY <1>6, <1>7, <1>8, <1>9

(* The packets are those of the buffers.                                   *)
LEMMA FlattenType ==
    ASSUME NEW S, NEW q \in Seq(Seq(S))
    PROVE  FlattenSeq(q) \in Seq(S)
<1>1. Len(q) \in 0 .. Len(q)
    OBVIOUS
<1> QED
    BY <1>1, FlattenSteps

(* No buffer, no packet.                                                   *)
LEMMA FlattenEmpty == FlattenSeq(<<>>) = <<>>
    BY DEF FlattenSeq

(* The packets of one buffer.                                              *)
LEMMA FlattenOne ==
    ASSUME NEW S, NEW b \in Seq(S)
    PROVE  FlattenSeq(<<b>>) = b
<1>1. <<b>> \in Seq(Seq(S)) /\ Len(<<b>>) = 1 /\ <<b>>[1] = b
    OBVIOUS
<1>2. PICK h : /\ h[0] = <<>>
               /\ \A i \in 1 .. 1 : h[i] = h[i - 1] \o <<b>>[i]
               /\ FlattenSeq(<<b>>) = h[1]
    BY <1>1, FlattenSteps
<1>3. h[1] = <<>> \o b
  <2>1. 1 \in 1 .. 1 /\ 1 - 1 = 0
      OBVIOUS
  <2>2. h[1] = h[1 - 1] \o <<b>>[1]
      BY <1>2, <2>1
  <2> QED
      BY <1>1, <1>2, <2>1, <2>2
<1> QED
    BY <1>2, <1>3

(* The packets of two lists of buffers.                                    *)
LEMMA FlattenConcat ==
    ASSUME NEW S, NEW q \in Seq(Seq(S)), NEW r \in Seq(Seq(S))
    PROVE  FlattenSeq(q \o r) = FlattenSeq(q) \o FlattenSeq(r)
<1> DEFINE m == Len(q)
           n == Len(r)
           qr == q \o r
<1>1. /\ m \in Nat /\ n \in Nat /\ qr \in Seq(Seq(S)) /\ Len(qr) = m + n
      /\ \A i \in 1 .. m : qr[i] = q[i]
      /\ \A i \in 1 .. n : qr[m + i] = r[i] /\ r[i] \in Seq(S)
  <2>1. /\ qr \in Seq(Seq(S)) /\ Len(qr) = m + n
        /\ \A i \in 1 .. m + n : qr[i] = IF i <= m THEN q[i] ELSE r[i - m]
      BY ConcatProperties
  <2>2. \A i \in 1 .. n : m + i \in 1 .. m + n /\ ~(m + i <= m) /\ (m + i) - m = i
      OBVIOUS
  <2> HIDE DEF qr
  <2> QED
      BY <2>1, <2>2
<1> HIDE DEF qr, m, n
<1>2. PICK hq : /\ hq[0] = <<>>
                /\ \A i \in 1 .. m : hq[i] = hq[i - 1] \o q[i]
                /\ \A i \in 0 .. m : hq[i] \in Seq(S)
                /\ FlattenSeq(q) = hq[m]
    BY FlattenSteps DEF m
<1>3. PICK hr : /\ hr[0] = <<>>
                /\ \A i \in 1 .. n : hr[i] = hr[i - 1] \o r[i]
                /\ \A i \in 0 .. n : hr[i] \in Seq(S)
                /\ FlattenSeq(r) = hr[n]
    BY FlattenSteps DEF n
<1>4. PICK h : /\ h[0] = <<>>
               /\ \A i \in 1 .. m + n : h[i] = h[i - 1] \o qr[i]
               /\ FlattenSeq(qr) = h[m + n]
  <2>1. qr \in Seq(Seq(S)) /\ Len(qr) = m + n
      BY <1>1
  <2>2. PICK h : /\ h[0] = <<>>
                 /\ \A i \in 1 .. Len(qr) : h[i] = h[i - 1] \o qr[i]
                 /\ FlattenSeq(qr) = h[Len(qr)]
      BY <2>1, FlattenSteps
  <2> QED
      BY <2>1, <2>2
<1>5. h[m] = hq[m]
  <2> DEFINE holds == [i \in 0 .. m |-> h[i] = hq[i]]
  <2>0. 0 \in 0 .. m /\ m \in 0 .. m
      BY <1>1
  <2>1. holds[0]
      BY <1>2, <1>4, <2>0
  <2>2. ASSUME NEW i \in 0 .. m - 1, holds[i]
        PROVE  holds[i + 1]
    <3>1. /\ i + 1 \in 1 .. m /\ i + 1 \in 1 .. m + n /\ (i + 1) - 1 = i
          /\ i + 1 \in 0 .. m /\ i \in 0 .. m
        BY <1>1
    <3>2. h[i] = hq[i]
        BY <2>2, <3>1
    <3>3. qr[i + 1] = q[i + 1]
        BY <1>1, <3>1
    <3>4. h[i + 1] = h[(i + 1) - 1] \o qr[i + 1] /\ hq[i + 1] = hq[(i + 1) - 1] \o q[i + 1]
        BY <1>2, <1>4, <3>1
    <3>5. h[i + 1] = hq[i + 1]
        BY <3>1, <3>2, <3>3, <3>4
    <3> QED
        BY <3>1, <3>5
  <2> HIDE DEF holds
  <2>3. \A i \in 0 .. m - 1 : holds[i] => holds[i + 1]
      BY <2>2
  <2>4. \A i \in 0 .. m : holds[i]
      BY <1>1, <2>1, <2>3, Induction
  <2>5. holds[m]
      BY <2>0, <2>4
  <2> QED
      BY <2>0, <2>5 DEF holds
<1>6. h[m + n] = hq[m] \o hr[n]
  <2> DEFINE holds == [i \in 0 .. n |-> h[m + i] = hq[m] \o hr[i]]
  <2>0. hq[m] \in Seq(S)
      BY <1>1, <1>2
  <2>1. holds[0]
    <3>1. hq[m] \o <<>> = hq[m] /\ m + 0 = m
        BY <1>1, <2>0
    <3>2. 0 \in 0 .. n
        BY <1>1
    <3>3. h[m + 0] = hq[m] \o hr[0]
        BY <1>3, <1>5, <3>1
    <3> QED
        BY <3>2, <3>3
  <2>2. ASSUME NEW i \in 0 .. n - 1, holds[i]
        PROVE  holds[i + 1]
    <3>1. /\ i + 1 \in 1 .. n /\ i + 1 \in 0 .. n /\ (i + 1) - 1 = i
          /\ m + (i + 1) \in 1 .. m + n /\ (m + (i + 1)) - 1 = m + i /\ i \in 0 .. n
        BY <1>1
    <3>2. h[m + i] = hq[m] \o hr[i]
        BY <2>2, <3>1
    <3>31. qr[m + (i + 1)] = r[i + 1]
        BY <1>1, <3>1
    <3>32. /\ h[m + (i + 1)] = h[(m + (i + 1)) - 1] \o qr[m + (i + 1)]
           /\ hr[i + 1] = hr[(i + 1) - 1] \o r[i + 1]
        BY <1>3, <1>4, <3>1
    <3>3. h[m + (i + 1)] = h[m + i] \o r[i + 1] /\ hr[i + 1] = hr[i] \o r[i + 1]
        BY <3>1, <3>31, <3>32
    <3>4. hr[i] \in Seq(S) /\ r[i + 1] \in Seq(S)
        BY <1>1, <1>3, <3>1
    <3>5. (hq[m] \o hr[i]) \o r[i + 1] = hq[m] \o (hr[i] \o r[i + 1])
      <4> DEFINE a == hq[m]
                 b == hr[i]
                 c == r[i + 1]
      <4>1. a \in Seq(S) /\ b \in Seq(S) /\ c \in Seq(S)
          BY <2>0, <3>4
      <4> HIDE DEF a, b, c
      <4>2. (a \o b) \o c = a \o (b \o c)
          BY <4>1, ConcatAssociative
      <4> QED
          BY <4>2 DEF a, b, c
    <3>6. h[m + (i + 1)] = hq[m] \o hr[i + 1]
        BY <3>2, <3>3, <3>5
    <3> QED
        BY <3>1, <3>6
  <2> HIDE DEF holds
  <2>3. \A i \in 0 .. n - 1 : holds[i] => holds[i + 1]
      BY <2>2
  <2>4. \A i \in 0 .. n : holds[i]
      BY <1>1, <2>1, <2>3, Induction
  <2>5. n \in 0 .. n
      BY <1>1
  <2>6. holds[n]
      BY <2>4, <2>5
  <2> QED
      BY <2>5, <2>6 DEF holds
<1> QED
    BY <1>2, <1>3, <1>4, <1>6 DEF qr

(* The first buffer and the others.                                        *)
LEMMA FlattenHead ==
    ASSUME NEW S, NEW q \in Seq(Seq(S)), q # <<>>
    PROVE  FlattenSeq(q) = Head(q) \o FlattenSeq(Tail(q))
<1>1. Head(q) \in Seq(S) /\ Tail(q) \in Seq(Seq(S)) /\ <<Head(q)>> \in Seq(Seq(S))
    BY HeadTailProperties
<1>2. q = <<Head(q)>> \o Tail(q)
    OBVIOUS
<1>3. FlattenSeq(<<Head(q)>> \o Tail(q)) = FlattenSeq(<<Head(q)>>) \o FlattenSeq(Tail(q))
    BY <1>1, FlattenConcat
<1>4. FlattenSeq(<<Head(q)>>) = Head(q)
    BY <1>1, FlattenOne
<1> QED
    BY <1>2, <1>3, <1>4

(* The last buffer and the others.                                         *)
LEMMA FlattenLast ==
    ASSUME NEW S, NEW q \in Seq(Seq(S)), q # <<>>
    PROVE  /\ Front(q) \in Seq(Seq(S)) /\ Last(q) \in Seq(S)
           /\ FlattenSeq(q) = FlattenSeq(Front(q)) \o Last(q)
<1>1. Len(q) \in Nat \ {0} /\ \A i \in 1 .. Len(q) : q[i] \in Seq(S)
    BY EmptySeq
<1>2. Front(q) \in Seq(Seq(S)) /\ Len(Front(q)) = Len(q) - 1
      /\ \A i \in 1 .. Len(q) - 1 : Front(q)[i] = q[i]
  <2>1. \A i \in 1 .. Len(q) - 1 : q[i] \in Seq(S)
      BY <1>1
  <2> QED
    <3> DEFINE n == Len(q) - 1
    <3>1. n \in Nat /\ 1 \in Nat /\ n \in Int /\ Front(q) = SubSeq(q, 1, n)
        BY <1>1 DEF Front
    <3>2. \A i \in 1 .. n : q[i] \in Seq(S)
        BY <2>1
    <3> HIDE DEF n
    <3>3. /\ SubSeq(q, 1, n) \in Seq(Seq(S))
          /\ Len(SubSeq(q, 1, n)) = IF 1 <= n THEN n - 1 + 1 ELSE 0
          /\ \A i \in 1 .. n - 1 + 1 : SubSeq(q, 1, n)[i] = q[1 + i - 1]
        BY <3>1, <3>2, SubSeqProperties
    <3>4. n - 1 + 1 = n /\ (~(1 <= n) => n = 0) /\ \A i \in 1 .. n : 1 + i - 1 = i
        BY <3>1
    <3>5. Len(SubSeq(q, 1, n)) = n /\ \A i \in 1 .. n : SubSeq(q, 1, n)[i] = q[i]
        BY <3>3, <3>4
    <3> QED
        BY <3>1, <3>3, <3>5 DEF n
<1>3. Last(q) \in Seq(S) /\ <<Last(q)>> \in Seq(Seq(S))
    BY <1>1 DEF Last
<1>4. q = Front(q) \o <<Last(q)>>
  <2> DEFINE r == Front(q) \o <<Last(q)>>
  <2>1. /\ r \in Seq(Seq(S)) /\ Len(r) = (Len(q) - 1) + 1
        /\ \A i \in 1 .. (Len(q) - 1) + 1 :
            r[i] = IF i <= Len(q) - 1 THEN Front(q)[i] ELSE <<Last(q)>>[i - (Len(q) - 1)]
      BY <1>1, <1>2, <1>3, ConcatProperties
  <2>2. (Len(q) - 1) + 1 = Len(q) /\ <<Last(q)>>[1] = q[Len(q)]
      BY <1>1 DEF Last
  <2>3. \A i \in 1 .. Len(q) : i <= Len(q) - 1 \/ (i = Len(q) /\ i - (Len(q) - 1) = 1)
      BY <1>1
  <2> HIDE DEF r
  <2>4. \A i \in 1 .. Len(q) : r[i] = q[i]
    <3> SUFFICES ASSUME NEW i \in 1 .. Len(q)
                 PROVE  r[i] = q[i]
        OBVIOUS
    <3>1. r[i] = IF i <= Len(q) - 1 THEN Front(q)[i] ELSE <<Last(q)>>[i - (Len(q) - 1)]
        BY <2>1, <2>2
    <3>2. CASE i <= Len(q) - 1
      <4>1. i \in 1 .. Len(q) - 1
          BY <1>1, <3>2
      <4> QED
          BY <1>2, <3>1, <3>2, <4>1
    <3>3. CASE i = Len(q) /\ i - (Len(q) - 1) = 1
      <4>1. ~(i <= Len(q) - 1)
          BY <1>1, <3>3
      <4> QED
          BY <2>2, <3>1, <3>3, <4>1
    <3> QED
        BY <2>3, <3>2, <3>3
  <2>5. r = q
      BY <2>1, <2>2, <2>4, SeqEqual
  <2> QED
      BY <2>5 DEF r
<1>5. FlattenSeq(Front(q) \o <<Last(q)>>) = FlattenSeq(Front(q)) \o FlattenSeq(<<Last(q)>>)
    BY <1>2, <1>3, FlattenConcat
<1>6. FlattenSeq(<<Last(q)>>) = Last(q)
    BY <1>3, FlattenOne
<1> QED
    BY <1>2, <1>3, <1>4, <1>5, <1>6

(* One more buffer.                                                        *)
LEMMA FlattenAppend ==
    ASSUME NEW S, NEW q \in Seq(Seq(S)), NEW b \in Seq(S)
    PROVE  /\ Append(q, b) \in Seq(Seq(S)) /\ Append(q, b) # <<>>
           /\ FlattenSeq(Append(q, b)) = FlattenSeq(q) \o b
<1>1. <<b>> \in Seq(Seq(S)) /\ Append(q, b) = q \o <<b>>
    BY AppendIsConcat
<1>2. FlattenSeq(q \o <<b>>) = FlattenSeq(q) \o FlattenSeq(<<b>>)
    BY <1>1, FlattenConcat
<1>3. Append(q, b) \in Seq(Seq(S)) /\ Append(q, b) # <<>>
    BY AppendProperties
<1> QED
    BY <1>1, <1>2, <1>3, FlattenOne

(* A packet that is gathered is the last one.                              *)
LEMMA GatherFacts ==
    ASSUME NEW S, NEW q \in Seq(Seq(S)), q # <<>>, NEW p \in S
    PROVE  /\ Gather(q, p) \in Seq(Seq(S)) /\ Gather(q, p) # <<>>
           /\ FlattenSeq(Gather(q, p)) = FlattenSeq(q) \o <<p>>
<1>1. /\ Front(q) \in Seq(Seq(S)) /\ Last(q) \in Seq(S)
      /\ FlattenSeq(q) = FlattenSeq(Front(q)) \o Last(q)
    BY FlattenLast
<1>2. <<p>> \in Seq(S) /\ <<>> \in Seq(S)
    OBVIOUS
<1>3. FlattenSeq(q) \in Seq(S) /\ FlattenSeq(Front(q)) \in Seq(S)
    BY <1>1, FlattenType
<1>4. CASE p \in Large
  <2> DEFINE a == Append(q, <<p>>)
             b == Append(a, <<>>)
  <2>1. a \in Seq(Seq(S)) /\ FlattenSeq(a) = FlattenSeq(q) \o <<p>>
      BY <1>2, FlattenAppend
  <2> HIDE DEF a
  <2>2. /\ b \in Seq(Seq(S)) /\ b # <<>>
        /\ FlattenSeq(b) = FlattenSeq(a) \o <<>>
      BY <1>2, <2>1, FlattenAppend
  <2>3. FlattenSeq(a) \in Seq(S)
      BY <2>1, FlattenType
  <2>4. FlattenSeq(a) \o <<>> = FlattenSeq(a)
      BY <2>3
  <2>5. Gather(q, p) = b
    <3>1. Gather(q, p) = q \o <<<<p>>, <<>>>>
        BY <1>4 DEF Gather
    <3>2. /\ q \o <<<<p>>>> = a /\ a \o <<<<>>>> = b
          /\ <<<<p>>>> \in Seq(Seq(S)) /\ <<<<>>>> \in Seq(Seq(S))
        BY <1>2, <2>1, AppendIsConcat DEF a
    <3>3. <<<<p>>, <<>>>> = <<<<p>>>> \o <<<<>>>>
        BY <1>2
    <3>4. (q \o <<<<p>>>>) \o <<<<>>>> = q \o (<<<<p>>>> \o <<<<>>>>)
      <4> DEFINE x == <<<<p>>>>
                 y == <<<<>>>>
      <4>1. x \in Seq(Seq(S)) /\ y \in Seq(Seq(S))
          BY <3>2
      <4> HIDE DEF x, y
      <4>2. (q \o x) \o y = q \o (x \o y)
          BY <4>1, ConcatAssociative
      <4> QED
          BY <4>2 DEF x, y
    <3> HIDE DEF b
    <3> QED
        BY <3>1, <3>2, <3>3, <3>4
  <2> QED
      BY <2>1, <2>2, <2>4, <2>5
<1>5. CASE p \notin Large /\ Len(Last(q)) = Room
  <2>1. Gather(q, p) = Append(q, <<p>>)
      BY <1>5 DEF Gather
  <2> QED
      BY <1>2, <2>1, FlattenAppend
<1>6. CASE p \notin Large /\ Len(Last(q)) # Room
  <2>1. Gather(q, p) = Append(Front(q), Append(Last(q), p))
      BY <1>6 DEF Gather
  <2> DEFINE f == Front(q)
             l == Last(q)
             g == FlattenSeq(Front(q))
             e == <<p>>
             b == Append(l, p)
  <2>2. Append(l, p) \in Seq(S) /\ Append(l, p) = l \o e
      BY <1>1, AppendProperties, AppendIsConcat
  <2>3. f \in Seq(Seq(S)) /\ b \in Seq(S)
      BY <1>1, <2>2
  <2>4. /\ Append(f, b) \in Seq(Seq(S)) /\ Append(f, b) # <<>>
        /\ FlattenSeq(Append(f, b)) = FlattenSeq(f) \o b
    <3> HIDE DEF f, b
    <3> QED
        BY <2>3, FlattenAppend
  <2>5. g \o (l \o e) = (g \o l) \o e
    <3>1. g \in Seq(S) /\ l \in Seq(S) /\ e \in Seq(S)
        BY <1>1, <1>2, <1>3
    <3> HIDE DEF g, l, e
    <3>2. (g \o l) \o e = g \o (l \o e)
        BY <3>1, ConcatAssociative
    <3> QED
        BY <3>2
  <2> QED
      BY <1>1, <2>1, <2>2, <2>4, <2>5
<1> QED
    BY <1>4, <1>5, <1>6

(* The fold of Buffers, over the first packets.                            *)
IsGatheredFold(it, packets, D) ==
    it = [P \in SUBSET D |->
            IF P = {} THEN <<<<>>>>
            ELSE Gather(it[P \ {Max(P)}], packets[Max(P)])]

(* There is such a fold over any first packets.                            *)
LEMMA GatheredFoldExists ==
    ASSUME NEW packets, NEW n \in Nat
    PROVE  \E it : IsGatheredFold(it, packets, 1 .. n)
<1> DEFINE holds == [i \in 0 .. n |-> \E it : IsGatheredFold(it, packets, 1 .. i)]
<1>1. holds[0]
  <2>1. IsGatheredFold([P \in {{}} |-> <<<<>>>>], packets, 1 .. 0)
      BY DEF IsGatheredFold
  <2> QED
      BY <2>1
<1>2. ASSUME NEW i \in 0 .. n - 1, holds[i]
      PROVE  holds[i + 1]
  <2>1. PICK it : IsGatheredFold(it, packets, 1 .. i)
      BY <1>2
  <2> DEFINE m == i + 1
             grown == [P \in SUBSET (1 .. m) |->
                         IF m \in P
                         THEN Gather(it[P \ {m}], packets[m])
                         ELSE it[P]]
  <2>2. \A P \in SUBSET (1 .. m) : m \notin P => P \in SUBSET (1 .. i)
      OBVIOUS
  <2>3. \A P \in SUBSET (1 .. m) : m \in P => Max(P) = m
      BY MaxOfInterval
  <2>4. \A P \in SUBSET (1 .. m) : m \in P => P # {} /\ grown[P \ {m}] = it[P \ {m}]
      OBVIOUS
  <2>5. \A P \in SUBSET (1 .. i) :
            it[P] = IF P = {} THEN <<<<>>>>
                    ELSE Gather(it[P \ {Max(P)}], packets[Max(P)])
      BY <2>1 DEF IsGatheredFold
  <2>6. \A P \in SUBSET (1 .. m) : m \notin P => P \ {Max(P)} \in SUBSET (1 .. m)
                                                 /\ m \notin P \ {Max(P)}
      OBVIOUS
  <2>7. \A P \in SUBSET (1 .. m) :
            grown[P] = IF P = {} THEN <<<<>>>>
                       ELSE Gather(grown[P \ {Max(P)}], packets[Max(P)])
    <3> SUFFICES ASSUME NEW P \in SUBSET (1 .. m)
                 PROVE  grown[P] = IF P = {} THEN <<<<>>>>
                                   ELSE Gather(grown[P \ {Max(P)}], packets[Max(P)])
        OBVIOUS
    <3>1. CASE m \in P
        BY <2>3, <2>4, <3>1
    <3>2. CASE m \notin P
      <4>1. grown[P] = it[P] /\ grown[P \ {Max(P)}] = it[P \ {Max(P)}]
          BY <2>6, <3>2
      <4> QED
          BY <2>2, <2>5, <3>2, <4>1
    <3> QED
        BY <3>1, <3>2
  <2> HIDE DEF grown
  <2>8. grown = [P \in SUBSET (1 .. m) |-> grown[P]]
      BY DEF grown
  <2>9. IsGatheredFold(grown, packets, 1 .. m)
      BY <2>7, <2>8 DEF IsGatheredFold
  <2> QED
      BY <2>9
<1> HIDE DEF holds
<1>3. holds[n]
    BY <1>1, <1>2, Induction
<1> QED
    BY <1>3 DEF holds

(* Packet by packet.                                                       *)
LEMMA GatheredSteps ==
    ASSUME NEW packets, NEW n \in Nat, DOMAIN packets = 1 .. n
    PROVE  \E h : /\ h[0] = <<<<>>>>
                  /\ \A i \in 1 .. n : h[i] = Gather(h[i - 1], packets[i])
                  /\ FoldLeft(Gather, <<<<>>>>, packets) = h[n]
<1> DEFINE it == CHOOSE it : IsGatheredFold(it, packets, 1 .. n)
           h == [i \in 0 .. n |-> it[1 .. i]]
<1>1. FoldLeft(Gather, <<<<>>>>, packets) = it[1 .. n]
    BY DEF FoldLeft, MapThenFoldSet, IsGatheredFold
<1>2. IsGatheredFold(it, packets, 1 .. n)
    BY GatheredFoldExists
<1> HIDE DEF it
<1>3. \A P \in SUBSET (1 .. n) :
            it[P] = IF P = {} THEN <<<<>>>>
                    ELSE Gather(it[P \ {Max(P)}], packets[Max(P)])
    BY <1>2 DEF IsGatheredFold
<1>4. it[1 .. 0] = <<<<>>>>
  <2>1. 1 .. 0 = {}
      OBVIOUS
  <2> QED
      BY <1>3, <2>1
<1>5. \A i \in 1 .. n : it[1 .. i] = Gather(it[1 .. i - 1], packets[i])
  <2> SUFFICES ASSUME NEW i \in 1 .. n
               PROVE  it[1 .. i] = Gather(it[1 .. i - 1], packets[i])
      OBVIOUS
  <2>1. 1 .. i \in SUBSET (1 .. n) /\ i \in 1 .. i /\ (1 .. i) \ {i} = 1 .. i - 1
      OBVIOUS
  <2>2. Max(1 .. i) = i
      BY MaxOfInterval
  <2> QED
      BY <1>3, <2>1, <2>2
<1>6. \A i \in 0 .. n : h[i] = it[1 .. i]
    OBVIOUS
<1>7. 0 \in 0 .. n /\ n \in 0 .. n /\ \A i \in 1 .. n : i \in 0 .. n /\ i - 1 \in 0 .. n
    OBVIOUS
<1> HIDE DEF h
<1>8. h[0] = <<<<>>>> /\ FoldLeft(Gather, <<<<>>>>, packets) = h[n]
    BY <1>1, <1>4, <1>6, <1>7
<1>9. \A i \in 1 .. n : h[i] = Gather(h[i - 1], packets[i])
    BY <1>5, <1>6, <1>7
<1> QED
    BY <1>8, <1>9

(* The buffers hold the packets in their order, and nothing else.          *)
LEMMA BuffersFacts ==
    ASSUME NEW S, NEW packets \in Seq(S)
    PROVE  /\ Buffers(packets) \in Seq(Seq(S))
           /\ FlattenSeq(Buffers(packets)) = packets
<1> DEFINE n == Len(packets)
           all == FoldLeft(Gather, <<<<>>>>, packets)
<1>1. n \in Nat /\ DOMAIN packets = 1 .. n /\ \A i \in 1 .. n : packets[i] \in S
    OBVIOUS
<1>2. PICK h : /\ h[0] = <<<<>>>>
               /\ \A i \in 1 .. n : h[i] = Gather(h[i - 1], packets[i])
               /\ all = h[n]
    BY <1>1, GatheredSteps
<1> HIDE DEF all
<1> DEFINE prefix == [i \in 0 .. n |-> [j \in 1 .. i |-> packets[j]]]
           holds == [i \in 0 .. n |-> /\ h[i] \in Seq(Seq(S)) /\ h[i] # <<>>
                                      /\ FlattenSeq(h[i]) = prefix[i]]
<1>3. prefix[0] = <<>> /\ prefix[n] = packets
    BY <1>1
<1>4. \A i \in 0 .. n - 1 : prefix[i + 1] = prefix[i] \o <<packets[i + 1]>>
  <2> SUFFICES ASSUME NEW i \in 0 .. n - 1
               PROVE  prefix[i + 1] = prefix[i] \o <<packets[i + 1]>>
      OBVIOUS
  <2>1. i \in 0 .. n /\ i + 1 \in 0 .. n /\ i \in Nat /\ \A j \in 1 .. i : j \in 1 .. n
      BY <1>1
  <2>2. prefix[i] = [j \in 1 .. i |-> packets[j]]
        /\ prefix[i + 1] = [j \in 1 .. i + 1 |-> packets[j]]
      BY <2>1
  <2> HIDE DEF prefix
  <2>3. prefix[i] \in Seq(S) /\ Len(prefix[i]) = i /\ packets[i + 1] \in S
      BY <1>1, <2>1, <2>2
  <2> QED
      BY <2>1, <2>2, <2>3
<1>5. holds[0]
  <2>1. <<<<>>>> \in Seq(Seq(S)) /\ <<<<>>>> # <<>> /\ FlattenSeq(<<<<>>>>) = <<>>
    <3> DEFINE b == <<>>
    <3>1. b \in Seq(S)
        OBVIOUS
    <3>2. <<b>> \in Seq(Seq(S)) /\ <<b>> # <<>>
        BY <3>1
    <3> HIDE DEF b
    <3>3. FlattenSeq(<<b>>) = b
        BY <3>1, FlattenOne
    <3> QED
        BY <3>2, <3>3 DEF b
  <2>2. 0 \in 0 .. n
      BY <1>1
  <2> HIDE DEF prefix, n
  <2> QED
      BY <1>2, <1>3, <2>1, <2>2
<1>6. ASSUME NEW i \in 0 .. n - 1, holds[i]
      PROVE  holds[i + 1]
  <2>1. i \in 0 .. n /\ i + 1 \in 0 .. n /\ i + 1 \in 1 .. n /\ (i + 1) - 1 = i
      BY <1>1
  <2> HIDE DEF prefix, n
  <2>2. h[i] \in Seq(Seq(S)) /\ h[i] # <<>> /\ FlattenSeq(h[i]) = prefix[i]
      BY <1>6, <2>1
  <2>3. h[i + 1] = Gather(h[i], packets[i + 1]) /\ packets[i + 1] \in S
      BY <1>1, <1>2, <2>1
  <2>4. /\ h[i + 1] \in Seq(Seq(S)) /\ h[i + 1] # <<>>
        /\ FlattenSeq(h[i + 1]) = prefix[i] \o <<packets[i + 1]>>
      BY <2>2, <2>3, GatherFacts
  <2>5. FlattenSeq(h[i + 1]) = prefix[i + 1]
      BY <1>4, <2>4
  <2> QED
      BY <2>1, <2>4, <2>5
<1>7. /\ all \in Seq(Seq(S)) /\ all # <<>>
      /\ FlattenSeq(all) = packets
  <2> HIDE DEF n, holds, prefix
  <2>1. \A i \in 0 .. n - 1 : holds[i] => holds[i + 1]
      BY <1>6
  <2>2. \A i \in 0 .. n : holds[i]
      BY <1>1, <1>5, <2>1, Induction
  <2>3. n \in 0 .. n
      BY <1>1
  <2>4. holds[n]
      BY <2>2, <2>3
  <2> QED
      BY <1>2, <1>3, <2>3, <2>4 DEF holds
<1>8. /\ Front(all) \in Seq(Seq(S)) /\ Last(all) \in Seq(S)
      /\ FlattenSeq(all) = FlattenSeq(Front(all)) \o Last(all)
      /\ FlattenSeq(Front(all)) \in Seq(S)
    BY <1>7, FlattenLast, FlattenType
<1>9. Buffers(packets) = IF Last(all) = <<>> THEN Front(all) ELSE all
    BY DEF Buffers, all
<1>10. FlattenSeq(Front(all)) \o <<>> = FlattenSeq(Front(all))
    BY <1>8
<1> QED
    BY <1>7, <1>8, <1>9, <1>10

(* What is taken from a sequence that another one follows.                 *)
LEMMA TakeFirst ==
    ASSUME NEW S, NEW a \in Seq(S), NEW x \in Seq(S), NEW m \in 0 .. Len(a)
    PROVE  /\ m \in 0 .. Len(a \o x)
           /\ SubSeq(a \o x, 1, m) = SubSeq(a, 1, m)
           /\ SubSeq(a \o x, m + 1, Len(a \o x)) = SubSeq(a, m + 1, Len(a)) \o x
<1> DEFINE c == a \o x
           d == SubSeq(a, m + 1, Len(a))
           e == d \o x
           f == SubSeq(c, m + 1, Len(c))
           g == SubSeq(c, 1, m)
           h == SubSeq(a, 1, m)
<1>1. /\ c \in Seq(S) /\ Len(c) = Len(a) + Len(x)
      /\ \A i \in 1 .. Len(a) + Len(x) : c[i] = IF i <= Len(a) THEN a[i] ELSE x[i - Len(a)]
    BY ConcatProperties
<1>2. d \in Seq(S) /\ Len(d) = Len(a) - m /\ \A i \in 1 .. Len(a) - m : d[i] = a[m + i]
    BY Drop
<1> HIDE DEF c, d
<1>3. /\ e \in Seq(S) /\ Len(e) = Len(d) + Len(x)
      /\ \A i \in 1 .. Len(d) + Len(x) : e[i] = IF i <= Len(d) THEN d[i] ELSE x[i - Len(d)]
    BY <1>2, ConcatProperties
<1> DEFINE la == Len(a)
           lx == Len(x)
<1>4. /\ la \in Nat /\ lx \in Nat /\ m \in Nat /\ m <= la /\ m \in 0 .. Len(c)
    BY <1>1
<1>5. f \in Seq(S) /\ Len(f) = Len(c) - m /\ \A i \in 1 .. Len(c) - m : f[i] = c[m + i]
    BY <1>1, <1>4, Drop
<1>6. g \in Seq(S) /\ Len(g) = m /\ \A i \in 1 .. m : g[i] = c[i]
    BY <1>1, <1>4, Take
<1>7. h \in Seq(S) /\ Len(h) = m /\ \A i \in 1 .. m : h[i] = a[i]
    BY Take
<1> HIDE DEF e, f, g, h, la, lx
<1>8. g = h
  <2>1. \A i \in 1 .. m : i \in 1 .. la + lx /\ i <= la
      BY <1>4
  <2>2. \A i \in 1 .. m : c[i] = a[i]
      BY <1>1, <2>1 DEF la, lx
  <2>3. \A i \in 1 .. m : g[i] = h[i]
      BY <1>6, <1>7, <2>2
  <2> QED
      BY <1>6, <1>7, <2>3, SeqEqual
<1>9. f = e
  <2>1. Len(f) = (la - m) + lx /\ Len(e) = (la - m) + lx
      BY <1>1, <1>2, <1>3, <1>4, <1>5 DEF la, lx
  <2>2. ASSUME NEW i \in 1 .. (la - m) + lx
        PROVE  f[i] = e[i]
    <3>1. f[i] = c[m + i]
        BY <1>1, <1>4, <1>5, <2>1
    <3>2. m + i \in 1 .. la + lx /\ (m + i <= la <=> i <= la - m) /\ (m + i) - la = i - (la - m)
        BY <1>4
    <3>3. c[m + i] = IF i <= la - m THEN a[m + i] ELSE x[i - (la - m)]
        BY <1>1, <3>2 DEF la, lx
    <3>4. e[i] = IF i <= la - m THEN d[i] ELSE x[i - (la - m)]
        BY <1>2, <1>3 DEF la, lx
    <3>5. i <= la - m => d[i] = a[m + i]
      <4>1. i <= la - m => i \in 1 .. la - m
          BY <1>4
      <4> QED
          BY <1>2, <4>1 DEF la
    <3> QED
        BY <3>1, <3>3, <3>4, <3>5
  <2> QED
      BY <1>3, <1>5, <2>1, <2>2, SeqEqual
<1> QED
    BY <1>4, <1>8, <1>9 DEF c, d, e, f, g, h

(* A sequence of small numbers is one of larger numbers.                   *)
LEMMA SentMore ==
    ASSUME NEW m \in Nat, NEW n \in Nat, m <= n
    PROVE  Seq(1 .. m) \subseteq Seq(1 .. n) /\ Seq(Seq(1 .. m)) \subseteq Seq(Seq(1 .. n))
<1>1. 1 .. m \subseteq 1 .. n
    OBVIOUS
<1>2. Seq(1 .. m) \subseteq Seq(1 .. n)
    BY <1>1, SeqMonotonic
<1> QED
    BY <1>2, SeqMonotonic

(* A sequence without its head.                                            *)
LEMMA TailFacts ==
    ASSUME NEW S, NEW q \in Seq(S), q # <<>>,
           \A i, j \in DOMAIN q : q[i] = q[j] => i = j
    PROVE  /\ Head(q) \in ToSet(q) /\ Head(q) \in S /\ Tail(q) \in Seq(S)
           /\ \A i, j \in DOMAIN Tail(q) : Tail(q)[i] = Tail(q)[j] => i = j
           /\ ToSet(Tail(q)) = ToSet(q) \ {Head(q)}
<1> DEFINE n == Len(q)
           t == Tail(q)
<1>1. n \in Nat \ {0} /\ DOMAIN q = 1 .. n /\ Head(q) = q[1]
    BY EmptySeq
<1>2. /\ t \in Seq(S) /\ Len(t) = n - 1 /\ DOMAIN t = 1 .. n - 1
      /\ \A i \in 1 .. n - 1 : t[i] = q[i + 1]
  <2>1. /\ t \in Seq(S) /\ Len(t) = n - 1 /\ \A i \in 1 .. Len(t) : t[i] = q[i + 1]
      BY HeadTailProperties
  <2> HIDE DEF t, n
  <2> QED
      BY <2>1
<1>3. Head(q) \in ToSet(q) /\ Head(q) \in S
    BY <1>1, HeadTailProperties DEF ToSet
<1> HIDE DEF t, n
<1>4. \A i \in 1 .. n - 1 : i + 1 \in 1 .. n /\ i + 1 # 1
    BY <1>1
<1>5. \A i, j \in DOMAIN t : t[i] = t[j] => i = j
  <2> SUFFICES ASSUME NEW i \in 1 .. n - 1, NEW j \in 1 .. n - 1, t[i] = t[j]
               PROVE  i = j
      BY <1>2
  <2>1. i + 1 = j + 1
      BY <1>1, <1>2, <1>4
  <2> QED
      BY <2>1
<1>6. ToSet(t) = ToSet(q) \ {Head(q)}
  <2>1. ASSUME NEW i \in 1 .. n - 1
        PROVE  t[i] \in ToSet(q) /\ t[i] # Head(q)
    <3>1. i + 1 \in DOMAIN q /\ 1 \in DOMAIN q /\ i + 1 # 1 /\ t[i] = q[i + 1]
        BY <1>1, <1>2, <1>4
    <3>2. q[i + 1] # q[1]
        BY <3>1
    <3> QED
        BY <1>1, <3>1, <3>2 DEF ToSet
  <2>2. ASSUME NEW e \in ToSet(q) \ {Head(q)}
        PROVE  \E i \in 1 .. n - 1 : t[i] = e
    <3>1. PICK j \in 1 .. n : q[j] = e /\ j # 1
        BY <1>1 DEF ToSet
    <3>2. j - 1 \in 1 .. n - 1 /\ (j - 1) + 1 = j
        BY <1>1, <3>1
    <3> QED
        BY <1>2, <3>1, <3>2
  <2>3. \A e \in ToSet(t) : e \in ToSet(q) \ {Head(q)}
      BY <1>2, <2>1 DEF ToSet
  <2>4. \A e \in ToSet(q) \ {Head(q)} : e \in ToSet(t)
      BY <1>2, <2>2 DEF ToSet
  <2> QED
      BY <2>3, <2>4
<1> QED
    BY <1>2, <1>3, <1>5, <1>6 DEF t

(* Two lists that hold nothing twice, and nothing both.                    *)
LEMMA ConcatFacts ==
    ASSUME NEW S, NEW q \in Seq(S), NEW r \in Seq(S),
           \A i, j \in DOMAIN q : q[i] = q[j] => i = j,
           \A i, j \in DOMAIN r : r[i] = r[j] => i = j,
           \A e \in S : ~(e \in ToSet(q) /\ e \in ToSet(r))
    PROVE  /\ q \o r \in Seq(S) /\ Len(q \o r) = Len(q) + Len(r)
           /\ \A i, j \in DOMAIN (q \o r) : (q \o r)[i] = (q \o r)[j] => i = j
           /\ ToSet(q \o r) = ToSet(q) \cup ToSet(r)
<1> DEFINE m == Len(q)
           n == Len(r)
           c == q \o r
<1>1. /\ c \in Seq(S) /\ Len(c) = m + n
      /\ \A i \in 1 .. m + n : c[i] = IF i <= m THEN q[i] ELSE r[i - m]
    BY ConcatProperties
<1>2. m \in Nat /\ n \in Nat /\ DOMAIN q = 1 .. m /\ DOMAIN r = 1 .. n
      /\ \A i \in 1 .. m : q[i] \in S
    OBVIOUS
<1>3. DOMAIN c = 1 .. m + n
    BY <1>1
<1> HIDE DEF c, m, n
<1>4. \A i \in 1 .. m + n : i \in 1 .. m \/ (i - m \in 1 .. n /\ ~(i <= m))
    BY <1>2
<1>5. \A i \in 1 .. m : i \in 1 .. m + n /\ i <= m
    BY <1>2
<1>6. \A i \in 1 .. n : i + m \in 1 .. m + n /\ ~(i + m <= m) /\ (i + m) - m = i
    BY <1>2
<1>7. \A i \in 1 .. m : c[i] = q[i] /\ q[i] \in ToSet(q)
    BY <1>1, <1>2, <1>5 DEF ToSet
<1>8. \A i \in 1 .. n : c[i + m] = r[i] /\ r[i] \in ToSet(r)
    BY <1>1, <1>2, <1>6 DEF ToSet
<1>9. \A i \in 1 .. m + n : i \in 1 .. m \/ \E k \in 1 .. n : i = k + m
  <2> SUFFICES ASSUME NEW i \in 1 .. m + n, i \notin 1 .. m
               PROVE  \E k \in 1 .. n : i = k + m
      OBVIOUS
  <2>1. i - m \in 1 .. n /\ i = (i - m) + m
      BY <1>2, <1>4
  <2> QED
      BY <2>1
<1>10. ASSUME NEW i \in 1 .. m + n, NEW j \in 1 .. m + n, c[i] = c[j]
       PROVE  i = j
  <2>1. CASE i \in 1 .. m /\ j \in 1 .. m
      BY <1>2, <1>7, <1>10, <2>1
  <2>2. ASSUME NEW a \in 1 .. m, NEW b \in 1 .. n, c[a] = c[b + m]
        PROVE  FALSE
      BY <1>2, <1>7, <1>8, <2>2
  <2>3. ASSUME NEW a \in 1 .. n, NEW b \in 1 .. n, c[a + m] = c[b + m]
        PROVE  a = b
      BY <1>2, <1>8, <2>3
  <2>4. CASE i \in 1 .. m /\ j \notin 1 .. m
      BY <1>9, <1>10, <2>2, <2>4
  <2>5. CASE i \notin 1 .. m /\ j \in 1 .. m
      BY <1>9, <1>10, <2>2, <2>5
  <2>6. CASE i \notin 1 .. m /\ j \notin 1 .. m
      BY <1>9, <1>10, <2>3, <2>6
  <2> QED
      BY <2>1, <2>4, <2>5, <2>6
<1>11. ToSet(c) = ToSet(q) \cup ToSet(r)
  <2>1. \A e \in ToSet(c) : e \in ToSet(q) \/ e \in ToSet(r)
    <3> SUFFICES ASSUME NEW i \in 1 .. m + n
                 PROVE  c[i] \in ToSet(q) \/ c[i] \in ToSet(r)
        BY <1>3 DEF ToSet
    <3> QED
        BY <1>7, <1>8, <1>9
  <2>2. \A e \in ToSet(q) : e \in ToSet(c)
      BY <1>2, <1>3, <1>5, <1>7 DEF ToSet
  <2>3. \A e \in ToSet(r) : e \in ToSet(c)
    <3> SUFFICES ASSUME NEW i \in 1 .. n
                 PROVE  r[i] \in ToSet(c)
        BY <1>2 DEF ToSet
    <3>1. i + m \in DOMAIN c /\ c[i + m] = r[i]
        BY <1>3, <1>6, <1>8
    <3> QED
        BY <3>1 DEF ToSet
  <2> QED
      BY <2>1, <2>2, <2>3
<1> QED
    BY <1>1, <1>3, <1>10, <1>11 DEF c, m, n

-----------------------------------------------------------------------------
(* The invariant of what the queues hold and of what the thread counts.    *)

(* What the queues of a socket hold was sent on it.                        *)
Holds(k) ==
    /\ k.bufferQueue \in Seq(1 .. k.sent)
    /\ k.writeQueue \in Seq(Seq(1 .. k.sent))
    /\ k.received \in Seq(1 .. k.sent)

(* A client that has not answered gets two packets at most, the other ones *)
(* as many as the world may send and a refusal; and a socket whose address *)
(* is looked up is untouched, but for its connection.                      *)
Rules(k) ==
    /\ k.authed => k.query = "none"
    /\ ~k.authed => k.sent <= 2 /\ (IsOpen(k) => k.sent <= 1)
    /\ k.authed /\ IsOpen(k) /\ k.caller # "refuse" => k.sent < MaxPackets
    /\ k.query = "ip" =>
        /\ ~k.authed /\ ~k.closed /\ ~k.closing /\ ~k.writing
        /\ k.reads = 0 /\ k.sent = 0 /\ k.caller = "none"
        /\ k.bufferQueue = <<>> /\ k.writeQueue = <<>>

(* The invariant of one socket.                                            *)
Sound(k) == k \in SocketState /\ Holds(k) /\ Rules(k)

(* A list without repetition.                                              *)
Distinct(q) == \A i, j \in DOMAIN q : q[i] = q[j] => i = j

(* The lists of the thread hold each socket once, in one place.            *)
Lists ==
    /\ newSockets \in Seq(Sockets) /\ list \in Seq(Sockets) /\ todo \in Seq(Sockets)
    /\ Distinct(newSockets) /\ Distinct(list) /\ Distinct(todo)
    /\ \A s \in Sockets : ~(s \in ToSet(newSockets) /\ s \in ToSet(list))
    /\ \A s \in ToSet(todo) : s \in ToSet(list)
    /\ todo = <<>> <=> step \in {"idle", "gone"}

(* The count is that of the sockets in the lists.                          *)
Counted == connections = Len(newSockets) + Len(list)

(* What the acceptor handed over is untouched, and nobody forgets an open  *)
(* socket.                                                                 *)
Kept ==
    /\ \A s \in ToSet(newSockets) : sock[s].query = "ip"
    /\ \A s \in Sockets : sock[s] # NewSocket /\ ~sock[s].closed => LookedAfter(s)

(* The inductive invariant.                                                *)
SocketsInv ==
    /\ connections \in Nat /\ stopped \in BOOLEAN
    /\ step \in {"idle", "gather", "test", "write", "callbacks", "gone"}
    /\ sock \in [Sockets -> SocketState]
    /\ \A s \in Sockets : Sound(sock[s])
    /\ Lists
    /\ step # "gone" => Counted /\ Kept

-----------------------------------------------------------------------------
(* What a method of a socket does, as its connection sees it.              *)

(* What was sent and has not arrived.                                      *)
Chan(k) == IF k.broken THEN <<>> ELSE FlattenSeq(k.writeQueue) \o k.bufferQueue

(* The connection does nothing, sends a packet, delivers the first m of    *)
(* them, or breaks when these have arrived.                                *)
Stays(k, n) ==
    /\ n.broken = k.broken /\ n.sent = k.sent
    /\ n.received = k.received /\ Chan(n) = Chan(k)

Sends(k, n) ==
    /\ ~k.broken /\ ~n.broken
    /\ n.sent = k.sent + 1 /\ n.received = k.received
    /\ Chan(n) = Append(Chan(k), n.sent)

Delivers(k, n, m) ==
    /\ ~k.broken /\ ~n.broken
    /\ n.sent = k.sent
    /\ n.received = k.received \o SubSeq(Chan(k), 1, m)
    /\ Chan(n) = SubSeq(Chan(k), m + 1, Len(Chan(k)))

Breaks(k, n, m) ==
    /\ ~k.broken /\ n.broken
    /\ n.received = k.received \o SubSeq(Chan(k), 1, m)

(* The socket k becomes n, which is sound, by one step of its connection at *)
(* most.                                                                   *)
Moves(k, n) ==
    /\ Sound(n)
    /\ k.closed => n.closed
    /\ \/ n.broken /\ k.broken /\ n.received = k.received
       \/ Stays(k, n)
       \/ Sends(k, n)
       \/ \E m \in 0 .. Len(Chan(k)) : Delivers(k, n, m) \/ Breaks(k, n, m)

(* The queues are left alone.                                              *)
SameQueues(k, n) ==
    /\ n.bufferQueue = k.bufferQueue /\ n.writeQueue = k.writeQueue
    /\ n.received = k.received /\ n.sent = k.sent

(* What is on its way was sent.                                            *)
LEMMA ChanType ==
    ASSUME NEW k, Sound(k)
    PROVE  /\ FlattenSeq(k.writeQueue) \in Seq(1 .. k.sent)
           /\ Chan(k) \in Seq(1 .. k.sent)
           /\ k.sent \in Nat /\ k.broken \in BOOLEAN
<1>1. k.sent \in Nat /\ k.broken \in BOOLEAN
    BY SocketsAssumption DEF Sound, SocketState, MaxPackets
<1>2. FlattenSeq(k.writeQueue) \in Seq(1 .. k.sent)
    BY FlattenType DEF Sound, Holds
<1>3. FlattenSeq(k.writeQueue) \o k.bufferQueue \in Seq(1 .. k.sent)
    BY <1>2, ConcatProperties DEF Sound, Holds
<1>4. <<>> \in Seq(1 .. k.sent)
    OBVIOUS
<1>5. Chan(k) \in Seq(1 .. k.sent)
    BY <1>3, <1>4 DEF Chan
<1> QED
    BY <1>1, <1>2, <1>5

(* A change of the flags.                                                  *)
LEMMA FlagsMove ==
    ASSUME NEW k, Sound(k), NEW n \in SocketState, SameQueues(k, n), Rules(n),
           k.closed => n.closed, k.broken => n.broken
    PROVE  Moves(k, n)
<1>1. Sound(n)
    BY DEF Sound, Holds, SameQueues
<1>2. k.broken \in BOOLEAN /\ n.broken \in BOOLEAN
    BY <1>1, ChanType
<1>3. CASE n.broken = k.broken
  <2>1. Chan(n) = Chan(k)
      BY <1>3 DEF Chan, SameQueues
  <2> QED
      BY <1>1, <1>3, <2>1 DEF Moves, Stays, SameQueues
<1>4. CASE ~k.broken /\ n.broken
  <2> DEFINE c == Chan(k)
  <2>1. c \in Seq(1 .. k.sent) /\ k.received \in Seq(1 .. k.sent)
      BY ChanType DEF Sound, Holds
  <2> HIDE DEF c
  <2>2. 0 \in 0 .. Len(c)
      BY <2>1
  <2>3. SubSeq(c, 1, 0) = <<>>
      BY SubSeqEmpty
  <2>4. k.received \o <<>> = k.received
      BY <2>1
  <2>5. Breaks(k, n, 0)
      BY <1>4, <2>3, <2>4 DEF Breaks, SameQueues, c
  <2> QED
      BY <1>1, <2>2, <2>5 DEF Moves, c
<1> QED
    BY <1>2, <1>3, <1>4

(* A packet that is sent is the last one in the queue, and new.            *)
LEMMA SendMoves ==
    ASSUME NEW k, Sound(k), NEW n \in SocketState, Rules(n),
           n.bufferQueue = Append(k.bufferQueue, k.sent + 1),
           n.writeQueue = k.writeQueue, n.received = k.received,
           n.sent = k.sent + 1, n.broken = k.broken, k.closed => n.closed
    PROVE  Moves(k, n)
<1> DEFINE a == k.sent
           b == n.sent
<1>1. a \in Nat /\ b = a + 1 /\ a <= b /\ b \in Nat /\ b \in 1 .. b
    BY ChanType
<1>2. Seq(1 .. a) \subseteq Seq(1 .. b) /\ Seq(Seq(1 .. a)) \subseteq Seq(Seq(1 .. b))
    BY <1>1, SentMore
<1>3. /\ k.bufferQueue \in Seq(1 .. b) /\ n.writeQueue \in Seq(Seq(1 .. b))
      /\ n.received \in Seq(1 .. b)
    BY <1>2 DEF Sound, Holds
<1>4. n.bufferQueue \in Seq(1 .. b) /\ n.bufferQueue = k.bufferQueue \o <<b>>
      /\ <<b>> \in Seq(1 .. b)
  <2> DEFINE q == k.bufferQueue
  <2>1. q \in Seq(1 .. b) /\ b \in 1 .. b /\ n.bufferQueue = Append(q, b)
      BY <1>1, <1>3
  <2>2. <<b>> \in Seq(1 .. b)
      BY <2>1
  <2> DEFINE T == 1 .. b
  <2>3. q \in Seq(T) /\ b \in T
      BY <2>1
  <2> HIDE DEF q, b, T
  <2>4. Append(q, b) \in Seq(T)
      BY <2>3, AppendProperties
  <2>5. Append(q, b) = q \o <<b>>
      BY <2>3, AppendIsConcat
  <2> QED
      BY <2>1, <2>2, <2>4, <2>5 DEF q, T
<1>5. Sound(n)
    BY <1>3, <1>4 DEF Sound, Holds
<1>6. CASE k.broken
    BY <1>5, <1>6 DEF Moves
<1>7. CASE ~k.broken
  <2> DEFINE f == FlattenSeq(k.writeQueue)
             u == k.bufferQueue
             v == <<b>>
  <2>1. f \in Seq(1 .. b) /\ u \in Seq(1 .. b) /\ v \in Seq(1 .. b)
      BY <1>2, <1>3, <1>4, ChanType
  <2>2. (f \o u) \o v = f \o (u \o v) /\ f \o u \in Seq(1 .. b)
    <3> HIDE DEF f, u, v
    <3> QED
        BY <2>1, ConcatAssociative, ConcatProperties
  <2>3. Append(f \o u, b) = (f \o u) \o v
    <3> HIDE DEF f, u, b
    <3> QED
        BY <1>1, <2>2, AppendIsConcat
  <2>4. Chan(n) = Append(Chan(k), b)
      BY <1>4, <1>7, <2>2, <2>3 DEF Chan
  <2> QED
      BY <1>5, <1>7, <2>4 DEF Moves, Sends
<1> QED
    BY <1>6, <1>7

(* The initializer, which is queued for writing while nothing else is.     *)
LEMMA QueuedMoves ==
    ASSUME NEW k, Sound(k), NEW n \in SocketState, Rules(n),
           k.bufferQueue = <<>>, k.writeQueue = <<>>,
           n.bufferQueue = <<>>, n.writeQueue = Append(<<>>, <<k.sent + 1>>),
           n.received = k.received,
           n.sent = k.sent + 1, n.broken = k.broken, k.closed => n.closed
    PROVE  Moves(k, n)
<1> DEFINE a == k.sent
           b == n.sent
           q == <<b>>
<1>1. a \in Nat /\ b = a + 1 /\ a <= b /\ b \in Nat /\ b \in 1 .. b
    BY ChanType
<1>2. n.received \in Seq(1 .. b)
    BY <1>1, SentMore DEF Sound, Holds
<1>3. q \in Seq(1 .. b)
    BY <1>1
<1>4. <<>> \in Seq(1 .. b) /\ <<>> \in Seq(Seq(1 .. b)) /\ Append(<<>>, q) = <<q>>
    OBVIOUS
<1> HIDE DEF q
<1>5. <<q>> \in Seq(Seq(1 .. b)) /\ FlattenSeq(<<q>>) = q /\ q \o <<>> = q
    BY <1>3, FlattenOne
<1>6. Sound(n)
    BY <1>2, <1>4, <1>5 DEF Sound, Holds, q
<1>7. CASE k.broken
    BY <1>6, <1>7 DEF Moves
<1>8. CASE ~k.broken
  <2>1. Chan(k) = <<>>
    <3>1. <<>> \o <<>> = <<>>
        OBVIOUS
    <3> QED
        BY <1>8, <3>1, FlattenEmpty DEF Chan
  <2>2. Chan(n) = q
      BY <1>4, <1>5, <1>8 DEF Chan, q
  <2>3. Append(<<>>, b) = q
      BY DEF q
  <2> QED
      BY <1>6, <1>8, <2>1, <2>2, <2>3 DEF Moves, Sends
<1> QED
    BY <1>7, <1>8

-----------------------------------------------------------------------------
(* The outcomes of HandleQueue.                                            *)

(* A part of a queue is a queue.                                           *)
LEMMA QueueTypes ==
    ASSUME NEW k, Sound(k), k.writeQueue # <<>>
    PROVE  /\ Head(k.writeQueue) \in Seq(1 .. k.sent)
           /\ Tail(k.writeQueue) \in Seq(Seq(1 .. k.sent))
           /\ FlattenSeq(Tail(k.writeQueue)) \in Seq(1 .. k.sent)
           /\ FlattenSeq(k.writeQueue) =
                Head(k.writeQueue) \o FlattenSeq(Tail(k.writeQueue))
           /\ k.bufferQueue \in Seq(1 .. k.sent) /\ k.received \in Seq(1 .. k.sent)
           /\ ~k.broken => Chan(k) = Head(k.writeQueue) \o
                              (FlattenSeq(Tail(k.writeQueue)) \o k.bufferQueue)
<1> DEFINE S == 1 .. k.sent
           q == k.writeQueue
           h == Head(q)
           t == Tail(q)
           f == FlattenSeq(t)
           u == k.bufferQueue
<1>1. q \in Seq(Seq(S)) /\ u \in Seq(S) /\ k.received \in Seq(S) /\ q # <<>>
    BY DEF Sound, Holds
<1>2. h \in Seq(S) /\ t \in Seq(Seq(S))
  <2> HIDE DEF q, S
  <2> QED
      BY <1>1, HeadTailProperties
<1>3. f \in Seq(S) /\ FlattenSeq(q) = h \o f
  <2> HIDE DEF S, q
  <2>1. FlattenSeq(q) = h \o f
      BY <1>1, FlattenHead
  <2> HIDE DEF t
  <2> QED
      BY <1>2, <2>1, FlattenType
<1>4. (h \o f) \o u = h \o (f \o u)
  <2> HIDE DEF S, h, f, u
  <2> QED
      BY <1>1, <1>2, <1>3, ConcatAssociative
<1>5. ~k.broken => Chan(k) = h \o (f \o u)
    BY <1>3, <1>4 DEF Chan
<1> QED
    BY <1>1, <1>2, <1>3, <1>5

(* m packets of the first buffer arrive.                                   *)
LEMMA WriteMoves ==
    ASSUME NEW k, Sound(k), k.writeQueue # <<>>, ~k.broken,
           NEW m \in 0 .. Len(Head(k.writeQueue)),
           NEW n \in SocketState, Rules(n), k.closed => n.closed,
           n.bufferQueue = k.bufferQueue, n.sent = k.sent,
           n.writeQueue \in Seq(Seq(1 .. k.sent)),
           FlattenSeq(n.writeQueue) =
                SubSeq(Head(k.writeQueue), m + 1, Len(Head(k.writeQueue)))
                    \o FlattenSeq(Tail(k.writeQueue)),
           n.received = k.received \o SubSeq(Head(k.writeQueue), 1, m)
    PROVE  Moves(k, n)
<1> DEFINE S == 1 .. k.sent
           h == Head(k.writeQueue)
           f == FlattenSeq(Tail(k.writeQueue))
           u == k.bufferQueue
           d == SubSeq(h, m + 1, Len(h))
           x == f \o u
<1>1. /\ h \in Seq(S) /\ f \in Seq(S) /\ u \in Seq(S) /\ k.received \in Seq(S)
      /\ Chan(k) = h \o x
    BY QueueTypes
<1>0. m \in 0 .. Len(h)
    OBVIOUS
<1>2. SubSeq(h, 1, m) \in Seq(S) /\ d \in Seq(S)
  <2> HIDE DEF S, h
  <2> QED
      BY <1>0, <1>1, Take, Drop
<1>3. n.received \in Seq(S)
  <2> DEFINE g == SubSeq(h, 1, m)
  <2>1. n.received = k.received \o g /\ g \in Seq(S)
      BY <1>2
  <2> HIDE DEF g, S
  <2> QED
      BY <1>1, <2>1, ConcatProperties
<1>4. Sound(n)
    BY <1>1, <1>3 DEF Sound, Holds
<1>5. x \in Seq(S) /\ (d \o f) \o u = d \o x
  <2> HIDE DEF S, f, u, d
  <2> QED
      BY <1>1, <1>2, ConcatProperties, ConcatAssociative
<1>6. /\ m \in 0 .. Len(h \o x)
      /\ SubSeq(h \o x, 1, m) = SubSeq(h, 1, m)
      /\ SubSeq(h \o x, m + 1, Len(h \o x)) = d \o x
  <2>1. h \in Seq(S) /\ x \in Seq(S) /\ m \in 0 .. Len(h)
      BY <1>0, <1>1, <1>5
  <2> HIDE DEF S, h, x, d
  <2>2. /\ m \in 0 .. Len(h \o x)
        /\ SubSeq(h \o x, 1, m) = SubSeq(h, 1, m)
        /\ SubSeq(h \o x, m + 1, Len(h \o x)) = SubSeq(h, m + 1, Len(h)) \o x
      BY ONLY <2>1, TakeFirst
  <2> QED
      BY <2>2 DEF d
<1>7. n.broken \in BOOLEAN
    BY DEF SocketState
<1>8. CASE n.broken
  <2>1. Breaks(k, n, m)
      BY <1>1, <1>6, <1>8 DEF Breaks
  <2> QED
      BY <1>1, <1>4, <1>6, <2>1 DEF Moves
<1>9. CASE ~n.broken
  <2>1. Chan(n) = d \o x
      BY <1>5, <1>9 DEF Chan
  <2>2. Delivers(k, n, m)
      BY <1>1, <1>6, <1>9, <2>1 DEF Delivers
  <2> QED
      BY <1>1, <1>4, <1>6, <2>2 DEF Moves
<1> QED
    BY <1>7, <1>8, <1>9

(* What PopBuffer makes of a socket that got m packets in addition.        *)
LEMMA PopFacts ==
    ASSUME NEW k, Sound(k), k.writeQueue # <<>>, NEW g \in Seq(1 .. MaxPackets),
           NEW n, n = PopBuffer([k EXCEPT !.received = g])
    PROVE  /\ n \in SocketState /\ Rules(n) /\ (k.closed => n.closed)
           /\ n.bufferQueue = k.bufferQueue /\ n.sent = k.sent
           /\ n.writeQueue = Tail(k.writeQueue) /\ n.received = g
           /\ (k.broken => n.broken)
<1>1. Tail(k.writeQueue) \in Seq(Seq(1 .. MaxPackets))
    BY HeadTailProperties DEF Sound, SocketState
<1>2. k \in SocketState /\ Rules(k) /\ k.query # "ip"
    BY DEF Sound, Rules
<1> DEFINE rest == [k EXCEPT !.received = g, !.writeQueue = Tail(@)]
<1>3. n = rest \/ n = CloseSocket(rest)
    BY <1>2 DEF PopBuffer, SocketState
<1>4. CASE n = rest
    BY <1>1, <1>2, <1>4 DEF SocketState, Rules, IsOpen
<1>5. CASE n = CloseSocket(rest)
    BY <1>1, <1>2, <1>5 DEF SocketState, Rules, IsOpen, CloseSocket
<1> QED
    BY <1>3, <1>4, <1>5

(* HandleQueue.                                                            *)
LEMMA HandleMoves ==
    ASSUME NEW k, Sound(k), NEW r \in HandleQueue(k)
    PROVE  Moves(k, r.to)
<1>0. k \in SocketState /\ Rules(k)
    BY DEF Sound
<1>1. CASE k.writeQueue = <<>>
  <2>1. r.to = k
      BY <1>1 DEF HandleQueue
  <2> QED
      BY <1>0, <2>1, FlagsMove DEF SameQueues
<1>2. CASE k.writeQueue # <<>>
  <2> DEFINE q == k.writeQueue
             S == 1 .. k.sent
             h == Head(q)
             t == Tail(q)
             P == 1 .. MaxPackets
  <2>0. k.sent \in Nat /\ MaxPackets \in Nat /\ k.sent <= MaxPackets
      BY <1>0, SocketsAssumption DEF SocketState, MaxPackets
  <2>1. /\ h \in Seq(S) /\ t \in Seq(Seq(S)) /\ FlattenSeq(t) \in Seq(S)
        /\ k.received \in Seq(S) /\ q \in Seq(Seq(S)) /\ q # <<>>
      BY <1>2, QueueTypes DEF Sound, Holds
  <2>2. Seq(S) \subseteq Seq(P) /\ Seq(Seq(S)) \subseteq Seq(Seq(P))
      BY <2>0, SentMore
  <2>3. CASE r \in WriteFails(k)
    <3>1. r.to = PopBuffer(k) /\ (k.broken \/ h = <<>>)
        BY <2>3 DEF WriteFails
    <3>2. k = [k EXCEPT !.received = k.received]
        BY <1>0 DEF SocketState
    <3>3. k.received \in Seq(P)
        BY <2>1, <2>2
    <3> DEFINE n == r.to
    <3>4. /\ n \in SocketState /\ Rules(n) /\ (k.closed => n.closed)
          /\ n.bufferQueue = k.bufferQueue /\ n.sent = k.sent
          /\ n.writeQueue = t /\ n.received = k.received
          /\ (k.broken => n.broken)
        BY <1>2, <3>1, <3>2, <3>3, PopFacts
    <3> HIDE DEF n
    <3>5. CASE k.broken
      <4>1. n.broken /\ n.received = k.received /\ (k.closed => n.closed)
          BY <3>4, <3>5
      <4>2. Sound(n)
          BY <2>1, <3>4 DEF Sound, Holds
      <4> QED
          BY <3>5, <4>1, <4>2 DEF Moves, n
    <3>6. CASE ~k.broken
      <4>1. h = <<>> /\ 0 \in 0 .. Len(h)
          BY <3>1, <3>6
      <4>2. SubSeq(h, 1, 0) = <<>> /\ SubSeq(h, 0 + 1, Len(h)) = <<>>
          BY <4>1
      <4>3. k.received \o <<>> = k.received /\ <<>> \o FlattenSeq(t) = FlattenSeq(t)
        <5> HIDE DEF t, S
        <5> QED
            BY <2>1, ConcatEmptySeq
      <4>4. Moves(k, n)
          BY <1>2, <2>1, <3>4, <3>6, <4>1, <4>2, <4>3, WriteMoves
      <4> QED
          BY <4>4 DEF n
    <3> QED
        BY <3>5, <3>6
  <2>4. CASE r \in WriteSome(k)
    <3>1. PICK m \in 0 .. Len(h) - 1 :
            r = [to |-> AsyncProcessQueue([k EXCEPT
                    !.received = @ \o SubSeq(Head(k.writeQueue), 1, m),
                    !.writeQueue[1] = SubSeq(@, m + 1, Len(@))]),
                 go |-> FALSE]
        BY <2>4 DEF WriteSome
    <3> DEFINE n == r.to
               d == SubSeq(h, m + 1, Len(h))
               g == k.received \o SubSeq(h, 1, m)
               w == [q EXCEPT ![1] = d]
    <3>2. m \in 0 .. Len(h) /\ ~k.broken
      <4>1. ~k.broken
          BY <2>4 DEF WriteSome
      <4> HIDE DEF h, S
      <4>2. Len(h) \in Nat
          BY <2>1
      <4> QED
          BY <4>1, <4>2
    <3>3. SubSeq(h, 1, m) \in Seq(S) /\ d \in Seq(S)
      <4> HIDE DEF h, S
      <4> QED
          BY <2>1, <3>2, Take, Drop
    <3>4. g \in Seq(S)
      <4> DEFINE v == SubSeq(h, 1, m)
      <4>1. v \in Seq(S) /\ g = k.received \o v
          BY <3>3
      <4> HIDE DEF v, S, g
      <4> QED
          BY <2>1, <4>1, ConcatProperties
    <3>5. q[1] = h
        BY <2>1
    <3>6. /\ w \in Seq(Seq(S)) /\ w # <<>> /\ Head(w) = d /\ Tail(w) = t
      <4> HIDE DEF q, d, S
      <4> QED
          BY <2>1, <3>3
    <3>7. FlattenSeq(w) = d \o FlattenSeq(t)
      <4> HIDE DEF w, S
      <4> QED
          BY <3>6, FlattenHead
    <3>8. n = [k EXCEPT !.received = g, !.writeQueue = w, !.writing = TRUE]
        BY <1>0, <3>1, <3>5 DEF AsyncProcessQueue, SocketState
    <3>9. g \in Seq(P) /\ w \in Seq(Seq(P))
        BY <2>2, <3>4, <3>6
    <3> HIDE DEF n, g, w
    <3>10. n \in SocketState
        BY <1>0, <3>8, <3>9 DEF SocketState
    <3>11. /\ n.bufferQueue = k.bufferQueue /\ n.sent = k.sent
           /\ n.writeQueue = w /\ n.received = g /\ n.closed = k.closed
        BY <1>0, <3>8 DEF SocketState
    <3>12. Rules(n)
        BY <1>0, <1>2, <3>8 DEF SocketState, Rules, IsOpen
    <3>13. Moves(k, n)
        BY <1>2, <3>2, <3>6, <3>7, <3>10, <3>11, <3>12, WriteMoves DEF g
    <3> QED
        BY <3>13 DEF n
  <2>5. CASE r \in WriteAll(k)
    <3> DEFINE n == r.to
               g == k.received \o h
    <3>1. n = PopBuffer([k EXCEPT !.received = g]) /\ ~k.broken
        BY <2>5 DEF WriteAll
    <3>2. g \in Seq(S)
      <4> HIDE DEF h, S
      <4> QED
          BY <2>1, ConcatProperties
    <3>3. g \in Seq(P)
        BY <2>2, <3>2
    <3> HIDE DEF g, n
    <3>4. /\ n \in SocketState /\ Rules(n) /\ (k.closed => n.closed)
          /\ n.bufferQueue = k.bufferQueue /\ n.sent = k.sent
          /\ n.writeQueue = t /\ n.received = g
        BY <1>2, <3>1, <3>3, PopFacts
    <3>5. /\ Len(h) \in 0 .. Len(h) /\ SubSeq(h, 1, Len(h)) = h
          /\ SubSeq(h, Len(h) + 1, Len(h)) = <<>>
      <4> HIDE DEF h, S
      <4>1. Len(h) \in Nat /\ Len(h) < Len(h) + 1
          BY <2>1
      <4>2. Len(h) \in 0 .. Len(h) /\ Len(h) + 1 \in Int /\ Len(h) \in Int
          BY <4>1
      <4> QED
          BY <2>1, <4>1, <4>2, SubSeqFull, SubSeqEmpty
    <3>6. <<>> \o FlattenSeq(t) = FlattenSeq(t)
      <4> HIDE DEF t, S
      <4> QED
          BY <2>1, ConcatEmptySeq
    <3>7. Moves(k, n)
        BY <1>2, <2>1, <3>1, <3>4, <3>5, <3>6, WriteMoves DEF g
    <3> QED
        BY <3>7 DEF n
  <2> QED
      BY <1>2, <2>3, <2>4, <2>5 DEF HandleQueue
<1> QED
    BY <1>1, <1>2

-----------------------------------------------------------------------------
(* The other methods.                                                      *)

(* There is room for the three packets of the authentication.              *)
LEMMA MaxPacketsType == MaxPackets \in Nat /\ MaxPackets > 3
    BY SocketsAssumption DEF MaxPackets

(* Nothing is gathered from an empty queue.                                *)
LEMMA NoBuffers == Buffers(<<>>) = <<>>
<1> DEFINE q == <<>>
           all == FoldLeft(Gather, <<<<>>>>, q)
<1>1. 0 \in Nat /\ DOMAIN q = 1 .. 0
    OBVIOUS
<1>2. all = <<<<>>>>
  <2> HIDE DEF q
  <2>1. PICK h : h[0] = <<<<>>>> /\ FoldLeft(Gather, <<<<>>>>, q) = h[0]
      BY <1>1, GatheredSteps
  <2> QED
      BY <2>1
<1>3. Last(<<<<>>>>) = <<>> /\ Front(<<<<>>>>) = <<>>
    BY DEF Last, Front
<1> QED
    BY <1>2, <1>3 DEF Buffers

(* WorldSocket::Update moves the packets from one queue to the other.      *)
LEMMA GatherMoves ==
    ASSUME NEW k, Sound(k)
    PROVE  Moves(k, EmptyBufferQueue(k))
<1> DEFINE n == EmptyBufferQueue(k)
           S == 1 .. k.sent
           q == k.writeQueue
           u == k.bufferQueue
           b == Buffers(u)
           w == q \o b
           P == 1 .. MaxPackets
<1>1. /\ k \in SocketState /\ Rules(k) /\ k.sent \in Nat /\ k.sent <= MaxPackets
      /\ q \in Seq(Seq(S)) /\ u \in Seq(S) /\ k.received \in Seq(S)
    BY MaxPacketsType DEF Sound, Holds, SocketState
<1>2. b \in Seq(Seq(S)) /\ FlattenSeq(b) = u
  <2> HIDE DEF S, u
  <2> QED
      BY <1>1, BuffersFacts
<1>3. w \in Seq(Seq(S)) /\ FlattenSeq(w) = FlattenSeq(q) \o u /\ FlattenSeq(w) \in Seq(S)
  <2> HIDE DEF S, u, q, b
  <2>1. FlattenSeq(w) = FlattenSeq(q) \o FlattenSeq(b)
      BY <1>1, <1>2, FlattenConcat
  <2>2. w \in Seq(Seq(S))
      BY <1>1, <1>2, ConcatProperties
  <2> HIDE DEF w
  <2> QED
      BY <1>2, <2>1, <2>2, FlattenType
<1>4. Seq(S) \subseteq Seq(P) /\ Seq(Seq(S)) \subseteq Seq(Seq(P))
    BY <1>1, MaxPacketsType, SentMore
<1>5. n = [k EXCEPT !.writeQueue = w, !.bufferQueue = <<>>]
    BY <1>1 DEF EmptyBufferQueue, SocketState
<1>6. w \in Seq(Seq(P)) /\ <<>> \in Seq(P) /\ <<>> \in Seq(S)
    BY <1>3, <1>4
<1>7. k.query = "ip" => w = <<>>
  <2>1. <<>> \o <<>> = <<>>
      OBVIOUS
  <2> QED
      BY <1>1, <2>1, NoBuffers DEF Rules
<1> HIDE DEF n, w
<1>8. n \in SocketState
    BY <1>1, <1>5, <1>6 DEF SocketState
<1>9. /\ n.bufferQueue = <<>> /\ n.writeQueue = w /\ n.received = k.received
      /\ n.sent = k.sent /\ n.closed = k.closed /\ n.broken = k.broken
    BY <1>1, <1>5 DEF SocketState
<1>10. Rules(n)
    BY <1>1, <1>5, <1>7 DEF SocketState, Rules, IsOpen
<1>11. Sound(n)
    BY <1>1, <1>3, <1>6, <1>8, <1>9, <1>10 DEF Sound, Holds
<1>12. FlattenSeq(w) \o <<>> = FlattenSeq(w)
  <2> HIDE DEF S
  <2> QED
      BY <1>3, ConcatEmptySeq
<1>13. Chan(n) = Chan(k)
    BY <1>3, <1>9, <1>12 DEF Chan
<1>14. Stays(k, n)
    BY <1>9, <1>13 DEF Stays
<1> QED
    BY <1>9, <1>11, <1>14 DEF Moves, n

(* What SendPacket makes of an open socket.                                *)
LEMMA SentType ==
    ASSUME NEW k, Sound(k), k.sent < MaxPackets
    PROVE  /\ k.sent + 1 \in 0 .. MaxPackets
           /\ Append(k.bufferQueue, k.sent + 1) \in Seq(1 .. MaxPackets)
<1>1. k.sent \in Nat /\ k.sent + 1 \in 1 .. MaxPackets /\ k.sent + 1 \in 0 .. MaxPackets
    BY MaxPacketsType DEF Sound, SocketState
<1>2. k.bufferQueue \in Seq(1 .. MaxPackets)
    BY DEF Sound, SocketState
<1> DEFINE S == 1 .. MaxPackets
           p == k.sent + 1
<1>3. Append(k.bufferQueue, p) \in Seq(S)
  <2>1. k.bufferQueue \in Seq(S) /\ p \in S
      BY <1>1, <1>2
  <2> HIDE DEF S, p
  <2> QED
      BY <2>1, AppendProperties
<1> QED
    BY <1>1, <1>3

(* CloseSocket, on a socket that has spoken.                               *)
LEMMA CloseMoves ==
    ASSUME NEW k, Sound(k), k.query # "ip"
    PROVE  Moves(k, CloseSocket(k))
<1>1. k \in SocketState /\ Rules(k)
    BY DEF Sound
<1>2. ASSUME NEW n, n = CloseSocket(k)
      PROVE  Moves(k, n)
  <2>1. n \in SocketState /\ n.broken /\ n.closed
      BY <1>1, <1>2 DEF CloseSocket, SocketState
  <2>2. Rules(n)
    <3>1. /\ n.authed = k.authed /\ n.query = k.query /\ n.sent = k.sent
          /\ ~IsOpen(n)
        BY <1>1, <1>2 DEF CloseSocket, SocketState, IsOpen
    <3> QED
        BY <1>1, <3>1 DEF Rules
  <2>3. SameQueues(k, n)
      BY <1>1, <1>2 DEF CloseSocket, SocketState, SameQueues
  <2> QED
      BY <2>1, <2>2, <2>3, FlagsMove
<1> QED
    BY <1>2

(* What the client said.                                                   *)
LEMMA SaidMoves ==
    ASSUME NEW k, Sound(k), IsOpen(k), k.query # "ip", NEW n \in Said(k)
    PROVE  Moves(k, n)
<1>1. k \in SocketState /\ Rules(k)
    BY DEF Sound
<1>2. CASE n = AsyncRead(k)
  <2>1. n = [k EXCEPT !.reads = @ + 1]
      BY <1>1, <1>2 DEF AsyncRead, SocketState
  <2>0. k.reads + 1 \in Nat
      BY <1>1 DEF SocketState
  <2>2. n \in SocketState /\ n.broken = k.broken /\ n.closed = k.closed
      BY <1>1, <2>0, <2>1 DEF SocketState
  <2>4. Rules(n)
      BY <1>1, <2>1 DEF SocketState, Rules, IsOpen
  <2>3. SameQueues(k, n)
      BY <1>1, <2>1 DEF SocketState, SameQueues
  <2> QED
      BY <2>2, <2>3, <2>4, FlagsMove
<1>3. CASE n = CloseSocket(k)
    BY <1>3, CloseMoves
<1>4. CASE ~k.authed /\ n = [k EXCEPT !.query = "account"]
  <2>2. n \in SocketState /\ Rules(n) /\ n.broken = k.broken /\ n.closed = k.closed
      BY <1>1, <1>4 DEF SocketState, Rules, IsOpen
  <2>3. SameQueues(k, n)
      BY <1>1, <1>4 DEF SocketState, SameQueues
  <2> QED
      BY <2>2, <2>3, FlagsMove
<1>5. CASE ~k.authed /\ n = DelayedCloseSocket(SendPacket(k))
  <2> DEFINE p == k.sent + 1
             u == Append(k.bufferQueue, p)
  <2>1. k.sent <= 1 /\ k.sent < MaxPackets /\ k.sent \in Nat
      BY <1>1, <1>5, MaxPacketsType DEF Rules, SocketState
  <2>2. p \in 0 .. MaxPackets /\ u \in Seq(1 .. MaxPackets) /\ p <= 2
      BY <2>1, SentType
  <2>3. n = [k EXCEPT !.sent = p, !.bufferQueue = u, !.closing = TRUE]
      BY <1>1, <1>5 DEF DelayedCloseSocket, SendPacket, SocketState
  <2> HIDE DEF p, u
  <2>4. n \in SocketState
      BY <1>1, <2>2, <2>3 DEF SocketState
  <2>5. Rules(n)
      BY <1>1, <1>5, <2>2, <2>3 DEF SocketState, Rules, IsOpen
  <2>6. /\ n.bufferQueue = u /\ n.sent = p /\ n.writeQueue = k.writeQueue
        /\ n.received = k.received /\ n.broken = k.broken /\ n.closed = k.closed
      BY <1>1, <2>3 DEF SocketState
  <2> QED
      BY <2>4, <2>5, <2>6, SendMoves DEF p, u
<1> QED
    BY <1>2, <1>3, <1>4, <1>5 DEF Said

(* A change of the flags before anything else.                             *)
LEMMA AfterFlags ==
    ASSUME NEW k, NEW j, SameQueues(k, j), j.broken = k.broken,
           k.closed => j.closed, NEW n, Moves(j, n)
    PROVE  Moves(k, n)
<1>1. Chan(j) = Chan(k)
    BY DEF Chan, SameQueues
<1> QED
    BY <1>1 DEF Moves, Stays, Sends, Delivers, Breaks, SameQueues

(* What the callback of a query does.                                      *)
LEMMA AnswersMove ==
    ASSUME NEW k, Sound(k), NEW n \in Answered(k)
    PROVE  Moves(k, n)
<1>1. k \in SocketState /\ Rules(k)
    BY DEF Sound
<1> DEFINE done == [k EXCEPT !.query = "none"]
           known == [done EXCEPT !.authed = TRUE]
<1>2. CASE n = k
    BY <1>1, <1>2, FlagsMove DEF SameQueues
<1>3. CASE n = DelayedCloseSocket(done)
  <2>1. n = [k EXCEPT !.query = "none", !.closing = TRUE]
      BY <1>1, <1>3 DEF DelayedCloseSocket, SocketState
  <2>2. n \in SocketState /\ Rules(n) /\ n.broken = k.broken /\ n.closed = k.closed
      BY <1>1, <2>1 DEF SocketState, Rules, IsOpen
  <2>3. SameQueues(k, n)
      BY <1>1, <2>1 DEF SocketState, SameQueues
  <2> QED
      BY <2>2, <2>3, FlagsMove
<1>4. CASE k.query = "ip" /\ n = QueuePacket(AsyncRead(done))
  <2> DEFINE b == <<1>>
             w == Append(<<>>, b)
  <2>1. /\ ~k.authed /\ ~k.closed /\ ~k.closing /\ k.reads = 0 /\ k.sent = 0
        /\ k.bufferQueue = <<>> /\ k.writeQueue = <<>>
      BY <1>1, <1>4 DEF Rules
  <2>2. n = [k EXCEPT !.query = "none", !.reads = 1, !.sent = 1, !.writeQueue = w]
    <3>1. n = [k EXCEPT !.query = "none", !.reads = @ + 1, !.sent = @ + 1,
                        !.writeQueue = Append(@, <<k.sent + 1>>)]
        BY <1>1, <1>4, <2>1 DEF QueuePacket, AsyncRead, IsOpen, SocketState
    <3>2. k.reads + 1 = 1 /\ k.sent + 1 = 1 /\ Append(k.writeQueue, <<k.sent + 1>>) = w
        BY <2>1
    <3> HIDE DEF w
    <3> QED
        BY <1>1, <3>1, <3>2 DEF SocketState
  <2>3. w \in Seq(Seq(1 .. MaxPackets)) /\ 1 \in 0 .. MaxPackets
    <3>1. 1 \in 1 .. MaxPackets /\ 1 \in 0 .. MaxPackets
        BY MaxPacketsType
    <3>2. b \in Seq(1 .. MaxPackets)
        BY <3>1
    <3> HIDE DEF b
    <3> QED
        BY <3>1, <3>2
  <2> HIDE DEF w
  <2>4. n \in SocketState
      BY <1>1, <2>2, <2>3 DEF SocketState
  <2>5. Rules(n)
      BY <1>1, <2>1, <2>2 DEF SocketState, Rules, IsOpen
  <2>6. /\ n.bufferQueue = <<>> /\ n.sent = k.sent + 1 /\ n.writeQueue = w
        /\ n.received = k.received /\ n.broken = k.broken /\ n.closed = k.closed
      BY <1>1, <2>1, <2>2 DEF SocketState
  <2>7. w = Append(<<>>, <<k.sent + 1>>)
    <3>1. k.sent + 1 = 1
        BY <2>1
    <3> QED
        BY <3>1 DEF w
  <2> QED
      BY <2>1, <2>4, <2>5, <2>6, <2>7, QueuedMoves
<1>5. CASE k.query = "account" /\ n = DelayedCloseSocket(SendPacket(done))
  <2>1. ~k.authed /\ k.sent \in Nat
      BY <1>1, <1>5, MaxPacketsType DEF Rules, SocketState
  <2>2. CASE IsOpen(k)
    <3> DEFINE p == k.sent + 1
               u == Append(k.bufferQueue, p)
    <3>1. k.sent <= 1 /\ k.sent < MaxPackets
        BY <1>1, <2>1, <2>2, MaxPacketsType DEF Rules
    <3>2. p \in 0 .. MaxPackets /\ u \in Seq(1 .. MaxPackets) /\ p <= 2
        BY <2>1, <3>1, SentType
    <3>3. n = [k EXCEPT !.query = "none", !.sent = p, !.bufferQueue = u, !.closing = TRUE]
        BY <1>1, <1>5, <2>2 DEF DelayedCloseSocket, SendPacket, SocketState, IsOpen
    <3> HIDE DEF p, u
    <3>4. n \in SocketState
        BY <1>1, <3>2, <3>3 DEF SocketState
    <3>5. Rules(n)
        BY <1>1, <2>1, <3>2, <3>3 DEF SocketState, Rules, IsOpen
    <3>6. /\ n.bufferQueue = u /\ n.sent = p /\ n.writeQueue = k.writeQueue
          /\ n.received = k.received /\ n.broken = k.broken /\ n.closed = k.closed
        BY <1>1, <3>3 DEF SocketState
    <3> QED
        BY <3>4, <3>5, <3>6, SendMoves DEF p, u
  <2>3. CASE ~IsOpen(k)
    <3>1. n = DelayedCloseSocket(done)
        BY <1>1, <1>5, <2>3 DEF SendPacket, SocketState, IsOpen
    <3> QED
        BY <1>3, <3>1
  <2> QED
      BY <2>2, <2>3
<1>6. CASE k.query = "account" /\ n = AsyncRead(SendPacket(known))
  <2>1. ~k.authed /\ k.sent \in Nat /\ k.sent <= 2
      BY <1>1, <1>6, MaxPacketsType DEF Rules, SocketState
  <2>2. CASE IsOpen(k)
    <3> DEFINE p == k.sent + 1
               u == Append(k.bufferQueue, p)
    <3>1. k.sent <= 1 /\ k.sent < MaxPackets
        BY <1>1, <2>1, <2>2, MaxPacketsType DEF Rules
    <3>2. p \in 0 .. MaxPackets /\ u \in Seq(1 .. MaxPackets) /\ p < MaxPackets
        BY <2>1, <3>1, SentType, MaxPacketsType
    <3>3. n = [k EXCEPT !.query = "none", !.authed = TRUE, !.sent = p, !.bufferQueue = u,
                        !.reads = @ + 1]
        BY <1>1, <1>6, <2>2 DEF AsyncRead, SendPacket, SocketState, IsOpen
    <3> HIDE DEF p, u
    <3>34. k.reads + 1 \in Nat
        BY <1>1 DEF SocketState
    <3>4. n \in SocketState
        BY <1>1, <3>2, <3>3, <3>34 DEF SocketState
    <3>5. Rules(n)
        BY <1>1, <3>2, <3>3 DEF SocketState, Rules, IsOpen
    <3>6. /\ n.bufferQueue = u /\ n.sent = p /\ n.writeQueue = k.writeQueue
          /\ n.received = k.received /\ n.broken = k.broken /\ n.closed = k.closed
        BY <1>1, <3>3 DEF SocketState
    <3> QED
        BY <3>4, <3>5, <3>6, SendMoves DEF p, u
  <2>3. CASE ~IsOpen(k)
    <3>1. n = [k EXCEPT !.query = "none", !.authed = TRUE]
        BY <1>1, <1>6, <2>3 DEF AsyncRead, SendPacket, SocketState, IsOpen
    <3>2. n \in SocketState /\ n.broken = k.broken /\ n.closed = k.closed /\ SameQueues(k, n)
        BY <1>1, <3>1 DEF SocketState, SameQueues
    <3>3. Rules(n)
        BY <1>1, <2>1, <2>3, <3>1 DEF SocketState, Rules, IsOpen
    <3> QED
        BY <3>2, <3>3, FlagsMove
  <2> QED
      BY <2>2, <2>3
<1>7. k.query \in {"none", "ip", "account"}
    BY <1>1 DEF SocketState
<1> QED
    BY <1>2, <1>3, <1>4, <1>5, <1>6, <1>7 DEF Answered

(* The handler of a read.                                                  *)
LEMMA ReadMoves ==
    ASSUME NEW k, Sound(k), k.reads > 0,
           NEW j, j = [k EXCEPT !.reads = @ - 1],
           NEW n, n \in {j, CloseSocket(j)} \/ (IsOpen(j) /\ n \in Said(j))
    PROVE  Moves(k, n)
<1>1. k \in SocketState /\ Rules(k) /\ k.reads \in Nat /\ k.query # "ip"
    BY DEF Sound, Rules, SocketState
<1>2. /\ j \in SocketState /\ j.broken = k.broken /\ j.closed = k.closed
      /\ j.query = k.query
  <2>1. k.reads - 1 \in Nat
      BY <1>1
  <2> QED
      BY <1>1, <2>1 DEF SocketState
<1>3. SameQueues(k, j) /\ Rules(j)
    BY <1>1 DEF SocketState, SameQueues, Rules, IsOpen
<1>4. Sound(j)
    BY <1>2, <1>3 DEF Sound, Holds, SameQueues
<1>5. CASE n = j
    BY <1>2, <1>3, <1>5, FlagsMove
<1>6. CASE n = CloseSocket(j)
  <2>1. Moves(j, n)
      BY <1>1, <1>2, <1>4, <1>6, CloseMoves
  <2> QED
      BY <1>2, <1>3, <2>1, AfterFlags
<1>7. CASE IsOpen(j) /\ n \in Said(j)
  <2>1. Moves(j, n)
      BY <1>1, <1>2, <1>4, <1>7, SaidMoves
  <2> QED
      BY <1>2, <1>3, <2>1, AfterFlags
<1> QED
    BY <1>5, <1>6, <1>7

(* The handler of a write.                                                 *)
LEMMA WriteHandlerMoves ==
    ASSUME NEW k, Sound(k), NEW r \in HandleQueue([k EXCEPT !.writing = FALSE])
    PROVE  Moves(k, r.to)
<1> DEFINE j == [k EXCEPT !.writing = FALSE]
<1>1. k \in SocketState /\ Rules(k)
    BY DEF Sound
<1>2. /\ j \in SocketState /\ j.broken = k.broken /\ j.closed = k.closed
    BY <1>1 DEF SocketState
<1>3. SameQueues(k, j) /\ Rules(j)
    BY <1>1 DEF SocketState, SameQueues, Rules, IsOpen
<1>4. Sound(j)
    BY <1>2, <1>3 DEF Sound, Holds, SameQueues
<1> HIDE DEF j
<1>5. Moves(j, r.to)
    BY <1>4, HandleMoves DEF j
<1> QED
    BY <1>2, <1>3, <1>5, AfterFlags

-----------------------------------------------------------------------------
(* The steps.                                                              *)

(* The calls of the other threads.                                         *)
LEMMA OthersMove ==
    ASSUME SocketsInv, NEW s \in Sockets,
           \/ WorldSend(s) \/ KickPlayer(s) \/ Shutdown(s)
           \/ RefuseLink(s) \/ RefusedLink(s) \/ LoseConnection(s)
    PROVE  \E n : /\ sock' = [sock EXCEPT ![s] = n] /\ Moves(sock[s], n)
                  /\ sock[s].query = "ip" => n.query = "ip"
<1> DEFINE k == sock[s]
<1>1. /\ k \in SocketState /\ Rules(k) /\ Sound(k)
      /\ sock \in [Sockets -> SocketState]
    BY DEF SocketsInv, Sound
<1> SUFFICES \E n : sock' = [sock EXCEPT ![s] = n] /\ Moves(k, n)
                    /\ (k.query = "ip" => n.query = "ip")
    OBVIOUS
<1>2. ASSUME NEW n, k.authed, IsOpen(k), k.caller = "none", k.sent < MaxPackets,
             \/ n = SendPacket(k) /\ k.sent < MaxPackets - 1
             \/ n = [SendPacket(k) EXCEPT !.caller = "refuse"]
      PROVE  Moves(k, n) /\ k.query # "ip"
  <2> DEFINE p == k.sent + 1
             u == Append(k.bufferQueue, p)
  <2>2. /\ p \in 0 .. MaxPackets /\ u \in Seq(1 .. MaxPackets)
        /\ k.sent < MaxPackets - 1 => p < MaxPackets
      BY <1>1, <1>2, SentType, MaxPacketsType DEF SocketState
  <2> HIDE DEF k
  <2>3. \/ n = [k EXCEPT !.sent = p, !.bufferQueue = u] /\ p < MaxPackets
        \/ n = [k EXCEPT !.sent = p, !.bufferQueue = u, !.caller = "refuse"]
      BY <1>1, <1>2, <2>2 DEF SendPacket, SocketState
  <2> HIDE DEF p, u
  <2>4. n \in SocketState
      BY <1>1, <2>2, <2>3 DEF SocketState
  <2>5. Rules(n)
      BY <1>1, <1>2, <2>2, <2>3 DEF SocketState, Rules, IsOpen
  <2>6. /\ n.bufferQueue = u /\ n.sent = p /\ n.writeQueue = k.writeQueue
        /\ n.received = k.received /\ n.broken = k.broken /\ n.closed = k.closed
      BY <1>1, <2>3 DEF SocketState
  <2>7. k.query # "ip"
      BY <1>1, <1>2 DEF Rules
  <2> QED
      BY <1>1, <2>4, <2>5, <2>6, <2>7, SendMoves DEF p, u
<1>3. CASE WorldSend(s)
  <2>1. /\ k.authed /\ k.caller = "none" /\ k.sent < MaxPackets - 1 /\ k.sent < MaxPackets
        /\ sock' = [sock EXCEPT ![s] = SendPacket(k)]
      BY <1>1, <1>3, MaxPacketsType DEF WorldSend, SocketState
  <2>2. CASE IsOpen(k)
      BY <1>2, <2>1, <2>2
  <2>3. CASE ~IsOpen(k)
    <3>1. SendPacket(k) = k
        BY <2>3 DEF SendPacket
    <3>2. Moves(k, k)
        BY <1>1, FlagsMove DEF SameQueues
    <3> QED
        BY <2>1, <3>1, <3>2
  <2> QED
      BY <2>2, <2>3
<1>4. CASE KickPlayer(s)
  <2> DEFINE n == [k EXCEPT !.closed = TRUE, !.caller = "close"]
  <2>1. k.authed /\ sock' = [sock EXCEPT ![s] = n]
      BY <1>1, <1>4 DEF KickPlayer
  <2> HIDE DEF k
  <2>2. /\ n \in SocketState /\ n.closed /\ n.broken = k.broken /\ SameQueues(k, n)
      BY <1>1, <2>1 DEF SocketState, SameQueues
  <2>3. Rules(n) /\ n.query = k.query
      BY <1>1, <2>1 DEF SocketState, Rules, IsOpen
  <2> HIDE DEF n
  <2> QED
      BY <1>1, <2>1, <2>2, <2>3, FlagsMove
<1>5. CASE Shutdown(s)
  <2> DEFINE n == [k EXCEPT !.broken = TRUE, !.caller = "none"]
  <2>1. k.caller = "close" /\ sock' = [sock EXCEPT ![s] = n]
      BY <1>1, <1>5 DEF Shutdown
  <2> HIDE DEF k
  <2>2. /\ n \in SocketState /\ n.closed = k.closed /\ n.broken /\ SameQueues(k, n)
      BY <1>1, <2>1 DEF SocketState, SameQueues
  <2>3. Rules(n) /\ n.query = k.query
      BY <1>1, <2>1 DEF SocketState, Rules, IsOpen
  <2> HIDE DEF n
  <2> QED
      BY <1>1, <2>1, <2>2, <2>3, FlagsMove
<1>6. CASE RefuseLink(s)
  <2>1. k.sent < MaxPackets
      BY <1>1, <1>6 DEF RefuseLink, Rules
  <2> QED
      BY <1>2, <1>6, <2>1 DEF RefuseLink
<1>7. CASE RefusedLink(s)
  <2> DEFINE n == [k EXCEPT !.closing = TRUE, !.caller = "none"]
  <2>1. k.caller = "refuse" /\ sock' = [sock EXCEPT ![s] = n]
      BY <1>1, <1>7 DEF RefusedLink, DelayedCloseSocket
  <2> HIDE DEF k
  <2>2. /\ n \in SocketState /\ n.closed = k.closed /\ n.broken = k.broken
        /\ SameQueues(k, n)
      BY <1>1, <2>1 DEF SocketState, SameQueues
  <2>3. Rules(n) /\ n.query = k.query
      BY <1>1, <2>1 DEF SocketState, Rules, IsOpen
  <2> HIDE DEF n
  <2> QED
      BY <1>1, <2>1, <2>2, <2>3, FlagsMove
<1>8. CASE LoseConnection(s)
  <2> DEFINE n == [k EXCEPT !.broken = TRUE]
  <2>1. sock' = [sock EXCEPT ![s] = n]
      BY <1>1, <1>8 DEF LoseConnection
  <2> HIDE DEF k
  <2>2. /\ n \in SocketState /\ n.closed = k.closed /\ n.broken /\ SameQueues(k, n)
      BY <1>1, <2>1 DEF SocketState, SameQueues
  <2>3. Rules(n) /\ n.query = k.query
      BY <1>1, <2>1 DEF SocketState, Rules, IsOpen
  <2> HIDE DEF n
  <2> QED
      BY <1>1, <2>1, <2>2, <2>3, FlagsMove
<1> QED
    BY <1>3, <1>4, <1>5, <1>6, <1>7, <1>8

(* The acceptor asks about the address.                                    *)
LEMMA AcceptMoves ==
    ASSUME SocketsInv, NEW s \in Sockets, AddSocket(s)
    PROVE  \E n : /\ sock' = [sock EXCEPT ![s] = n] /\ Moves(sock[s], n)
                  /\ n.query = "ip"
<1> DEFINE k == sock[s]
           n == [k EXCEPT !.query = "ip"]
<1>1. /\ k \in SocketState /\ Sound(k) /\ k = NewSocket
      /\ sock' = [sock EXCEPT ![s] = n]
    BY DEF SocketsInv, Sound, AddSocket, Known
<1> HIDE DEF k
<1>2. n \in SocketState /\ SameQueues(k, n) /\ n.closed = k.closed /\ n.broken = k.broken
      /\ n.query = "ip"
    BY <1>1 DEF SocketState, SameQueues
<1>3. Rules(n)
    BY <1>1 DEF NewSocket, Rules, IsOpen
<1> HIDE DEF n
<1>4. Moves(k, n)
    BY <1>1, <1>2, <1>3, FlagsMove
<1> QED
    BY <1>1, <1>2, <1>4 DEF k

(* The socket that Update is at.                                           *)
LEMMA Current ==
    ASSUME SocketsInv, step \notin {"idle", "gone"}
    PROVE  /\ todo # <<>> /\ Head(todo) \in Sockets
           /\ Head(todo) \in ToSet(todo) /\ Head(todo) \in ToSet(list)
           /\ Head(todo) \notin ToSet(newSockets)
<1>1. todo # <<>> /\ todo \in Seq(Sockets) /\ Distinct(todo)
    BY DEF SocketsInv, Lists
<1>2. Head(todo) \in ToSet(todo) /\ Head(todo) \in Sockets
    BY <1>1, TailFacts DEF Distinct
<1> QED
    BY <1>1, <1>2 DEF SocketsInv, Lists

(* Update, at its current socket.                                          *)
LEMMA UpdateMoves ==
    ASSUME SocketsInv, GatherPackets \/ WriteBuffer \/ ProcessReadyCallbacks
    PROVE  \E n : /\ sock' = [sock EXCEPT ![Head(todo)] = n]
                  /\ Moves(sock[Head(todo)], n)
<1> DEFINE s == Head(todo)
<1>1. s \in Sockets
    BY Current DEF GatherPackets, WriteBuffer, ProcessReadyCallbacks
<1>2. Sound(sock[s])
    BY <1>1 DEF SocketsInv
<1>3. CASE GatherPackets
    BY <1>2, <1>3, GatherMoves DEF GatherPackets
<1>4. CASE WriteBuffer
    BY <1>2, <1>4, HandleMoves DEF WriteBuffer
<1>5. CASE ProcessReadyCallbacks
  <2>1. PICK k \in {sock[s]} \cup Answered(sock[s]) : sock' = [sock EXCEPT ![s] = k]
      BY <1>5 DEF ProcessReadyCallbacks
  <2>2. Moves(sock[s], sock[s])
      BY <1>2, FlagsMove DEF SameQueues, Sound
  <2> QED
      BY <1>2, <2>1, <2>2, AnswersMove
<1> QED
    BY <1>3, <1>4, <1>5

(* The handlers.                                                           *)
LEMMA HandlersMove ==
    ASSUME SocketsInv, NEW s \in Sockets, ReadHandler(s) \/ WriteHandler(s)
    PROVE  \E n : sock' = [sock EXCEPT ![s] = n] /\ Moves(sock[s], n)
<1>1. Sound(sock[s])
    BY DEF SocketsInv
<1>2. CASE ReadHandler(s)
  <2> DEFINE k == sock[s]
             j == [k EXCEPT !.reads = @ - 1]
  <2>1. k.reads > 0
      BY <1>2 DEF ReadHandler
  <2>2. PICK n : /\ sock' = [sock EXCEPT ![s] = n]
                 /\ n \in {j, CloseSocket(j)} \/ (IsOpen(j) /\ n \in Said(j))
      BY <1>2 DEF ReadHandler
  <2> QED
      BY <1>1, <2>1, <2>2, ReadMoves
<1>3. CASE WriteHandler(s)
    BY <1>1, <1>3, WriteHandlerMoves DEF WriteHandler
<1> QED
    BY <1>2, <1>3

-----------------------------------------------------------------------------
(* The invariant.                                                          *)

(* A socket that has moved is sound, and what was closed stays so.         *)
LEMMA OneMoved ==
    ASSUME SocketsInv, NEW s \in Sockets, NEW n,
           sock' = [sock EXCEPT ![s] = n], Moves(sock[s], n)
    PROVE  /\ sock' \in [Sockets -> SocketState]
           /\ (\A t \in Sockets : Sound(sock[t]))'
           /\ \A t \in Sockets : sock'[t] = IF t = s THEN n ELSE sock[t]
           /\ \A t \in Sockets : sock[t].closed => sock'[t].closed
<1>1. sock \in [Sockets -> SocketState] /\ Sound(n) /\ n \in SocketState
    BY DEF SocketsInv, Moves, Sound
<1>2. \A t \in Sockets : sock'[t] = IF t = s THEN n ELSE sock[t]
    BY <1>1
<1>3. \A t \in Sockets : Sound(sock'[t])
    BY <1>1, <1>2 DEF SocketsInv
<1>4. (\A t \in Sockets : Sound(sock[t]))'
    BY <1>3
<1>5. \A t \in Sockets : sock[t].closed => sock'[t].closed
    BY <1>2 DEF Moves
<1>6. sock' \in [Sockets -> SocketState]
    BY <1>1
<1> QED
    BY <1>2, <1>4, <1>5, <1>6

(* The lists stay as they are, the thread at most goes on.                 *)
LEMMA ListsStay ==
    ASSUME SocketsInv, NEW s \in Sockets, NEW n,
           sock' = [sock EXCEPT ![s] = n], Moves(sock[s], n),
           UNCHANGED threadVars, Lists',
           step' \in {"idle", "gather", "test", "write", "callbacks", "gone"},
           step' = "gone" <=> step = "gone",
           s \in ToSet(newSockets) /\ step # "gone" => n.query = "ip",
           sock[s] = NewSocket => LookedAfter(s)
    PROVE  SocketsInv'
<1>1. /\ sock' \in [Sockets -> SocketState]
      /\ (\A t \in Sockets : Sound(sock[t]))'
      /\ \A t \in Sockets : sock'[t] = IF t = s THEN n ELSE sock[t]
      /\ \A t \in Sockets : sock[t].closed => sock'[t].closed
    BY OneMoved
<1>2. Counted <=> Counted'
    BY DEF Counted, threadVars
<1>3. \A t : LookedAfter(t) <=> LookedAfter(t)'
    BY DEF LookedAfter, threadVars
<1>4. newSockets' = newSockets /\ newSockets \in Seq(Sockets)
    BY DEF threadVars, SocketsInv, Lists
<1>5. ASSUME step # "gone"
      PROVE  Kept'
  <2>1. Kept
      BY <1>5 DEF SocketsInv
  <2>2. \A t \in ToSet(newSockets') : sock'[t].query = "ip"
    <3>1. \A t \in ToSet(newSockets) : t \in Sockets
        BY <1>4 DEF ToSet
    <3> QED
        BY <1>1, <1>4, <1>5, <2>1, <3>1 DEF Kept
  <2>3. ASSUME NEW t \in Sockets, sock'[t] # NewSocket, ~sock'[t].closed
        PROVE  LookedAfter(t)
    <3>1. ~sock[t].closed
        BY <1>1, <2>3
    <3>2. CASE sock[t] # NewSocket
        BY <2>1, <3>1, <3>2 DEF Kept
    <3>3. CASE sock[t] = NewSocket
        BY <1>1, <2>3, <3>3
    <3> QED
        BY <3>2, <3>3
  <2>4. \A t \in Sockets : sock'[t] # NewSocket /\ ~sock'[t].closed => LookedAfter(t)'
      BY <1>3, <2>3
  <2> QED
      BY <2>2, <2>4 DEF Kept
<1>6. connections' = connections /\ stopped' = stopped
    BY DEF threadVars
<1> QED
    BY <1>1, <1>2, <1>5, <1>6 DEF SocketsInv

(* The invariant holds at first.                                           *)
LEMMA InitSockets == Init => SocketsInv
<1> SUFFICES ASSUME Init PROVE SocketsInv
    OBVIOUS
<1>1. <<>> \in Seq(1 .. 0) /\ <<>> \in Seq(Seq(1 .. 0)) /\ <<>> \in Seq(1 .. MaxPackets)
      /\ <<>> \in Seq(Seq(1 .. MaxPackets)) /\ 0 \in 0 .. MaxPackets
    BY MaxPacketsType
<1>2. Sound(NewSocket)
  <2>1. NewSocket \in SocketState
      BY <1>1 DEF NewSocket, SocketState
  <2>2. Holds(NewSocket)
      BY <1>1 DEF NewSocket, Holds
  <2>3. Rules(NewSocket)
      BY MaxPacketsType DEF NewSocket, Rules, IsOpen
  <2> QED
      BY <2>1, <2>2, <2>3 DEF Sound
<1>3. /\ sock \in [Sockets -> SocketState] /\ \A s \in Sockets : sock[s] = NewSocket
    BY <1>2 DEF Init, Sound
<1>4. ToSet(<<>>) = {} /\ <<>> \in Seq(Sockets) /\ DOMAIN <<>> = {} /\ Len(<<>>) = 0
    BY DEF ToSet
<1>5. Lists /\ Counted
    BY <1>4 DEF Init, Lists, Counted, Distinct
<1>6. Kept
    BY <1>3, <1>4 DEF Init, Kept
<1> QED
    BY <1>2, <1>3, <1>5, <1>6 DEF Init, SocketsInv

(* The other threads and the network preserve it.                          *)
LEMMA SocketsOthers ==
    ASSUME SocketsInv, NEW s \in Sockets,
           \/ WorldSend(s) \/ KickPlayer(s) \/ Shutdown(s)
           \/ RefuseLink(s) \/ RefusedLink(s) \/ LoseConnection(s)
    PROVE  SocketsInv'
<1>1. PICK n : /\ sock' = [sock EXCEPT ![s] = n] /\ Moves(sock[s], n)
               /\ sock[s].query = "ip" => n.query = "ip"
    BY OthersMove
<1>2. UnchangedThread
    BY DEF WorldSend, KickPlayer, Shutdown, RefuseLink, RefusedLink, LoseConnection
<1>3. sock[s] = NewSocket => LookedAfter(s)
    BY DEF WorldSend, KickPlayer, Shutdown, RefuseLink, RefusedLink, LoseConnection,
           NewSocket, Known, LookedAfter
<1>4. UNCHANGED threadVars /\ Lists' /\ step' = step
    BY <1>2 DEF UnchangedThread, SocketsInv, Lists, threadVars, Distinct
<1>5. s \in ToSet(newSockets) /\ step # "gone" => n.query = "ip"
    BY <1>1 DEF SocketsInv, Kept
<1>6. step \in {"idle", "gather", "test", "write", "callbacks", "gone"}
    BY DEF SocketsInv
<1> QED
    BY <1>1, <1>3, <1>4, <1>5, <1>6, ListsStay

(* The handlers preserve it: they only run for sockets that have begun to  *)
(* read or to write.                                                       *)
LEMMA SocketsHandlers ==
    ASSUME SocketsInv, NEW s \in Sockets, ReadHandler(s) \/ WriteHandler(s)
    PROVE  SocketsInv'
<1>1. PICK n : sock' = [sock EXCEPT ![s] = n] /\ Moves(sock[s], n)
    BY HandlersMove
<1>2. UnchangedThread /\ step = "idle" /\ (sock[s].reads > 0 \/ sock[s].writing)
    BY DEF ReadHandler, WriteHandler
<1>3. sock[s] # NewSocket
    BY <1>2 DEF NewSocket
<1>4. UNCHANGED threadVars /\ Lists' /\ step' = step
    BY <1>2 DEF UnchangedThread, SocketsInv, Lists, threadVars, Distinct
<1>5. s \notin ToSet(newSockets)
  <2>1. Sound(sock[s]) /\ Kept
      BY <1>2 DEF SocketsInv
  <2>2. sock[s].query # "ip"
      BY <1>2, <2>1 DEF Sound, Rules
  <2> QED
      BY <2>1, <2>2 DEF Kept
<1> QED
    BY <1>1, <1>2, <1>3, <1>4, <1>5, ListsStay

(* The next socket, or the end of Update.                                  *)
LEMMA NextFacts ==
    ASSUME SocketsInv, todo # <<>>, NextSocket
    PROVE  /\ todo' \in Seq(Sockets) /\ Distinct(todo')
           /\ ToSet(todo') = ToSet(todo) \ {Head(todo)}
           /\ step' \in {"idle", "gather"}
           /\ todo' = <<>> <=> step' \in {"idle", "gone"}
<1>1. todo \in Seq(Sockets) /\ Distinct(todo)
    BY DEF SocketsInv, Lists
<1>2. /\ Tail(todo) \in Seq(Sockets) /\ Distinct(Tail(todo))
      /\ ToSet(Tail(todo)) = ToSet(todo) \ {Head(todo)}
    BY <1>1, TailFacts DEF Distinct
<1> QED
    BY <1>2 DEF NextSocket

(* The steps of Update on its current socket preserve it.                  *)
LEMMA SocketsUpdate ==
    ASSUME SocketsInv, GatherPackets \/ WriteBuffer \/ ProcessReadyCallbacks
    PROVE  SocketsInv'
<1> DEFINE s == Head(todo)
<1>1. /\ step \notin {"idle", "gone"} /\ UNCHANGED threadVars
    BY DEF GatherPackets, WriteBuffer, ProcessReadyCallbacks
<1>2. todo # <<>> /\ s \in Sockets /\ s \in ToSet(list) /\ s \notin ToSet(newSockets)
    BY <1>1, Current
<1>3. PICK n : sock' = [sock EXCEPT ![s] = n] /\ Moves(sock[s], n)
    BY UpdateMoves
<1>4. LookedAfter(s)
    BY <1>2 DEF LookedAfter
<1>5. Lists' /\ step' \in {"idle", "gather", "test", "write", "callbacks"}
  <2>1. CASE GatherPackets \/ WriteBuffer
    <3>1. todo' = todo /\ step' \in {"test", "write", "callbacks"}
        BY <2>1 DEF GatherPackets, WriteBuffer
    <3> QED
        BY <1>1, <1>2, <3>1 DEF SocketsInv, Lists, threadVars, Distinct
  <2>2. CASE ProcessReadyCallbacks
    <3>1. /\ todo' \in Seq(Sockets) /\ Distinct(todo')
          /\ ToSet(todo') = ToSet(todo) \ {Head(todo)}
          /\ step' \in {"idle", "gather"}
          /\ todo' = <<>> <=> step' \in {"idle", "gone"}
        BY <1>2, <2>2, NextFacts DEF ProcessReadyCallbacks
    <3>2. \A t \in ToSet(todo') : t \in ToSet(list)
        BY <3>1 DEF SocketsInv, Lists
    <3> QED
        BY <1>1, <3>1, <3>2 DEF SocketsInv, Lists, threadVars, Distinct
  <2> QED
      BY <2>1, <2>2
<1> HIDE DEF s
<1> QED
    BY <1>1, <1>2, <1>3, <1>4, <1>5, ListsStay

(* The acceptor puts the socket in the queue that nobody knew.             *)
LEMMA SocketsAddSocket ==
    ASSUME SocketsInv, NEW s \in Sockets, AddSocket(s)
    PROVE  SocketsInv'
<1>1. PICK n : /\ sock' = [sock EXCEPT ![s] = n] /\ Moves(sock[s], n)
               /\ n.query = "ip"
    BY AcceptMoves
<1>2. /\ sock' \in [Sockets -> SocketState]
      /\ (\A t \in Sockets : Sound(sock[t]))'
      /\ \A t \in Sockets : sock'[t] = IF t = s THEN n ELSE sock[t]
      /\ \A t \in Sockets : sock[t].closed => sock'[t].closed
    BY <1>1, OneMoved
<1> DEFINE q == newSockets
           r == Append(q, s)
           o == <<s>>
<1>3. /\ s \notin ToSet(q) /\ s \notin ToSet(list)
      /\ newSockets' = r /\ connections' = connections + 1
      /\ UNCHANGED <<list, stopped, step, todo>>
    BY DEF AddSocket, Known
<1>4. q \in Seq(Sockets) /\ Distinct(q)
    BY DEF SocketsInv, Lists
<1>5. /\ o \in Seq(Sockets) /\ Len(o) = 1 /\ ToSet(o) = {s} /\ Distinct(o)
    BY DEF ToSet, Distinct
<1>6. /\ r \in Seq(Sockets) /\ Len(r) = Len(q) + 1 /\ Distinct(r)
      /\ ToSet(r) = ToSet(q) \cup {s}
  <2>1. r = q \o o
      BY <1>4, AppendIsConcat
  <2>2. \A t \in Sockets : ~(t \in ToSet(q) /\ t \in ToSet(o))
      BY <1>3, <1>5
  <2> HIDE DEF q, r, o
  <2>3. /\ q \o o \in Seq(Sockets) /\ Len(q \o o) = Len(q) + Len(o)
        /\ Distinct(q \o o) /\ ToSet(q \o o) = ToSet(q) \cup ToSet(o)
    <3>1. q \in Seq(Sockets) /\ o \in Seq(Sockets) /\ Distinct(q) /\ Distinct(o)
        BY <1>4, <1>5
    <3> QED
        BY <2>2, <3>1, ConcatFacts DEF Distinct
  <2> QED
      BY <1>5, <2>1, <2>3
<1> HIDE DEF r
<1>7. Lists'
    BY <1>3, <1>6 DEF SocketsInv, Lists, Distinct
<1>8. ASSUME step # "gone"
      PROVE  Counted' /\ Kept'
  <2>1. Counted /\ Kept
      BY <1>8 DEF SocketsInv
  <2>2. Counted'
    <3>1. Len(q) \in Nat /\ Len(list) \in Nat
        BY <1>4 DEF SocketsInv, Lists
    <3> QED
        BY <1>3, <1>6, <2>1, <3>1 DEF Counted
  <2>3. \A t : LookedAfter(t)' <=> LookedAfter(t) \/ t = s
      BY <1>3, <1>6 DEF LookedAfter
  <2>4. \A t \in ToSet(newSockets') : sock'[t].query = "ip"
    <3>1. \A t \in ToSet(q) : t \in Sockets
        BY <1>4 DEF ToSet
    <3> QED
        BY <1>1, <1>2, <1>3, <1>6, <2>1, <3>1 DEF Kept
  <2>5. \A t \in Sockets : sock'[t] # NewSocket /\ ~sock'[t].closed => LookedAfter(t)'
      BY <1>2, <2>1, <2>3 DEF Kept
  <2> QED
      BY <2>2, <2>4, <2>5 DEF Kept
<1>9. connections' \in Nat /\ stopped' \in BOOLEAN
    BY <1>3 DEF SocketsInv
<1>10. step' \in {"idle", "gather", "test", "write", "callbacks", "gone"}
    BY <1>3 DEF SocketsInv
<1> QED
    BY <1>2, <1>3, <1>7, <1>8, <1>9, <1>10 DEF SocketsInv

(* Nothing that the thread looks after changes but the lists.              *)
LEMMA SockStays ==
    ASSUME SocketsInv, sock' = sock, Lists',
           connections' \in Nat, stopped' \in BOOLEAN,
           step' \in {"idle", "gather", "test", "write", "callbacks", "gone"},
           step' # "gone" => Counted' /\ Kept'
    PROVE  SocketsInv'
<1>1. (\A t \in Sockets : Sound(sock[t]))'
    BY DEF SocketsInv
<1> QED
    BY <1>1 DEF SocketsInv

(* AddNewSockets takes all over: none is closed yet.                       *)
LEMMA SocketsStartUpdate ==
    ASSUME SocketsInv, StartUpdate
    PROVE  SocketsInv'
<1> DEFINE o == Opened
           l == list \o o
<1>1. /\ newSockets \in Seq(Sockets) /\ Distinct(newSockets)
      /\ list \in Seq(Sockets) /\ Distinct(list)
      /\ \A s \in Sockets : ~(s \in ToSet(newSockets) /\ s \in ToSet(list))
      /\ Counted /\ Kept
    BY DEF SocketsInv, Lists, StartUpdate
<1>2. /\ o \in Seq(Sockets) /\ Distinct(o)
      /\ ToSet(o) = {s \in ToSet(newSockets) : IsOpen(sock[s])}
    BY <1>1, OpenedFacts DEF Distinct
<1>3. ToSet(o) = ToSet(newSockets)
  <2>1. \A s \in ToSet(newSockets) : s \in Sockets
      BY <1>1 DEF ToSet
  <2>2. \A s \in ToSet(newSockets) : IsOpen(sock[s])
      BY <1>1, <2>1 DEF Kept, SocketsInv, Sound, Rules, IsOpen
  <2> QED
      BY <1>2, <2>2
<1> HIDE DEF o
<1>4. /\ l \in Seq(Sockets) /\ Len(l) = Len(list) + Len(o) /\ Distinct(l)
      /\ ToSet(l) = ToSet(list) \cup ToSet(newSockets)
  <2>1. \A s \in Sockets : ~(s \in ToSet(list) /\ s \in ToSet(o))
      BY <1>1, <1>3
  <2> QED
      BY <1>1, <1>2, <1>3, <2>1, ConcatFacts DEF Distinct
<1>5. /\ list' = l /\ newSockets' = <<>> /\ todo' = l
      /\ step' = IF l = <<>> THEN "idle" ELSE "gather"
      /\ connections' = connections - (Len(newSockets) - Len(o))
      /\ UNCHANGED <<stopped, sock>>
    BY DEF StartUpdate, o
<1> HIDE DEF l
<1>6. ToSet(<<>>) = {} /\ <<>> \in Seq(Sockets) /\ DOMAIN <<>> = {} /\ Len(<<>>) = 0
    BY DEF ToSet
<1>7. Lists'
    BY <1>4, <1>5, <1>6 DEF Lists, Distinct
<1>8. Counted' /\ connections' \in Nat
  <2>1. Len(newSockets) \in Nat /\ Len(list) \in Nat /\ Len(o) \in Nat
      BY <1>1, <1>2
  <2>2. connections' = Len(list) + Len(o)
      BY <1>1, <1>5, <2>1 DEF Counted
  <2> QED
      BY <1>4, <1>5, <1>6, <2>1, <2>2 DEF Counted
<1>9. Kept'
  <2>1. \A t : LookedAfter(t) => LookedAfter(t)'
      BY <1>4, <1>5 DEF LookedAfter
  <2> QED
      BY <1>1, <1>5, <1>6, <2>1 DEF Kept
<1>10. stopped' \in BOOLEAN
    BY <1>5 DEF SocketsInv
<1> QED
    BY <1>5, <1>7, <1>8, <1>9, <1>10, SockStays

(* A socket that is closed leaves the list and the count.                  *)
LEMMA SocketsRemoveClosed ==
    ASSUME SocketsInv, RemoveClosed
    PROVE  SocketsInv'
<1> DEFINE s == Head(todo)
           l == RemoveFirst(list, s)
<1>1. /\ step = "test" /\ sock[s].closed /\ list' = l
      /\ connections' = connections - 1 /\ NextSocket
      /\ UNCHANGED <<newSockets, stopped, sock>>
    BY DEF RemoveClosed
<1>2. todo # <<>> /\ s \in Sockets /\ s \in ToSet(list)
    BY <1>1, Current
<1>3. /\ newSockets \in Seq(Sockets) /\ list \in Seq(Sockets) /\ Distinct(list)
      /\ \A t \in ToSet(todo) : t \in ToSet(list)
      /\ Counted /\ Kept
    BY <1>1 DEF SocketsInv, Lists
<1>4. /\ todo' \in Seq(Sockets) /\ Distinct(todo')
      /\ ToSet(todo') = ToSet(todo) \ {s}
      /\ step' \in {"idle", "gather"}
      /\ todo' = <<>> <=> step' \in {"idle", "gone"}
    BY <1>1, <1>2, NextFacts
<1> HIDE DEF s
<1>5. /\ l \in Seq(Sockets) /\ Len(l) = Len(list) - 1 /\ Distinct(l)
      /\ ToSet(l) = ToSet(list) \ {s}
    BY <1>2, <1>3, RemoveFirstFacts DEF Distinct
<1> HIDE DEF l
<1>6. \A t \in ToSet(todo') : t \in ToSet(l)
    BY <1>3, <1>4, <1>5
<1>7. Lists'
    BY <1>1, <1>4, <1>5, <1>6 DEF SocketsInv, Lists, Distinct
<1>8. Counted' /\ connections' \in Nat
  <2>1. Len(newSockets) \in Nat /\ Len(list) \in Nat /\ Len(list) - 1 \in Nat
    <3>1. Len(l) \in Nat /\ Len(newSockets) \in Nat /\ Len(list) \in Nat
        BY <1>3, <1>5
    <3> QED
        BY <1>5, <3>1
  <2>2. connections' = Len(newSockets) + (Len(list) - 1)
      BY <1>1, <1>3, <2>1 DEF Counted
  <2> QED
      BY <1>1, <1>5, <2>1, <2>2 DEF Counted
<1>9. Kept'
  <2>1. \A t : LookedAfter(t) => LookedAfter(t)' \/ t = s
      BY <1>1, <1>5 DEF LookedAfter
  <2>2. sock[s].closed
      BY <1>1
  <2> QED
      BY <1>1, <1>3, <2>1, <2>2 DEF Kept
<1>10. stopped' \in BOOLEAN
    BY <1>1 DEF SocketsInv
<1> QED
    BY <1>1, <1>4, <1>7, <1>8, <1>9, <1>10, SockStays

(* The test of the flags changes no socket.                                *)
LEMMA SocketsTestFlags ==
    ASSUME SocketsInv, TestFlags
    PROVE  SocketsInv'
<1>1. /\ step = "test" /\ step' \in {"callbacks", "write"}
      /\ UNCHANGED <<threadVars, sock, todo>>
    BY DEF TestFlags
<1>2. Lists'
    BY <1>1 DEF SocketsInv, Lists, threadVars, Distinct
<1>3. Counted' /\ Kept'
    BY <1>1 DEF SocketsInv, Counted, Kept, LookedAfter, threadVars
<1>4. connections' \in Nat /\ stopped' \in BOOLEAN
    BY <1>1 DEF SocketsInv, threadVars
<1> QED
    BY <1>1, <1>2, <1>3, <1>4, SockStays

(* At its end the thread forgets its sockets.                              *)
LEMMA SocketsExit ==
    ASSUME SocketsInv, Exit
    PROVE  SocketsInv'
<1>1. ToSet(<<>>) = {} /\ <<>> \in Seq(Sockets) /\ DOMAIN <<>> = {}
    BY DEF ToSet
<1>2. todo = <<>> /\ todo' = todo /\ list' = <<>> /\ newSockets' = <<>> /\ step' = "gone"
      /\ connections' = connections /\ stopped' = stopped /\ sock' = sock
    BY DEF Exit, SocketsInv, Lists
<1>3. Lists'
    BY <1>1, <1>2 DEF Lists, Distinct
<1>4. connections' \in Nat /\ stopped' \in BOOLEAN
    BY <1>2 DEF SocketsInv
<1> QED
    BY <1>2, <1>3, <1>4, SockStays

(* Nothing that the invariant is about changes.                            *)
LEMMA SocketsStay ==
    ASSUME SocketsInv, Stop \/ Terminated \/ UNCHANGED vars
    PROVE  SocketsInv'
<1>1. UNCHANGED <<newSockets, list, connections, sock, step, todo>>
      /\ stopped' \in BOOLEAN
    BY DEF Stop, Terminated, vars, threadVars, SocketsInv
<1>2. Lists'
    BY <1>1 DEF SocketsInv, Lists, Distinct
<1>3. step # "gone" => Counted' /\ Kept'
    BY <1>1 DEF SocketsInv, Counted, Kept, LookedAfter
<1>4. /\ connections' \in Nat /\ step' = step
      /\ step \in {"idle", "gather", "test", "write", "callbacks", "gone"}
    BY <1>1 DEF SocketsInv
<1> QED
    BY <1>1, <1>2, <1>3, <1>4, SockStays

(* Every step preserves the invariant.                                     *)
LEMMA NextSockets == SocketsInv /\ [Next]_vars => SocketsInv'
<1> SUFFICES ASSUME SocketsInv, [Next]_vars
             PROVE  SocketsInv'
    OBVIOUS
<1>1. CASE Update
    BY <1>1, SocketsStartUpdate, SocketsRemoveClosed, SocketsTestFlags, SocketsExit,
       SocketsUpdate DEF Update
<1>2. CASE \E s \in Sockets : ReadHandler(s) \/ WriteHandler(s)
    BY <1>2, SocketsHandlers
<1>3. CASE Others
  <2>1. CASE Stop
    BY <2>1, SocketsStay
  <2>2. CASE \E s \in Sockets : AddSocket(s)
    BY <2>2, SocketsAddSocket
  <2> QED
    BY <1>3, <2>1, <2>2, SocketsOthers DEF Others
<1>4. CASE Terminated \/ UNCHANGED vars
    BY <1>4, SocketsStay
<1> QED
    BY <1>1, <1>2, <1>3, <1>4 DEF Next

(* Every value is of its type.                                             *)
THEOREM TypeCorrect == Spec => []TypeOK
<1>1. SocketsInv => TypeOK
    BY DEF SocketsInv, Lists, TypeOK
<1> QED
    BY <1>1, InitSockets, NextSockets, PTL DEF Spec

(* The count by which the acceptor chooses a thread is that of the sockets *)
(* the thread looks after, and an open socket that is known is one of them *)
(* (NetworkThread::AddSocket, AddNewSockets and Update).                   *)
THEOREM RegisteredCorrect == Spec => []Registered
<1>1. ASSUME SocketsInv, step # "gone"
      PROVE  /\ connections = Cardinality({s \in Sockets : LookedAfter(s)})
             /\ \A s \in Sockets : Known(s) /\ ~sock[s].closed => LookedAfter(s)
  <2> DEFINE q == newSockets
             l == list
             c == q \o l
  <2>1. /\ q \in Seq(Sockets) /\ l \in Seq(Sockets) /\ Distinct(q) /\ Distinct(l)
        /\ \A s \in Sockets : ~(s \in ToSet(q) /\ s \in ToSet(l))
        /\ connections = Len(q) + Len(l) /\ Kept
      BY <1>1 DEF SocketsInv, Lists, Counted
  <2>2. /\ c \in Seq(Sockets) /\ Len(c) = Len(q) + Len(l) /\ Distinct(c)
        /\ ToSet(c) = ToSet(q) \cup ToSet(l)
    <3> HIDE DEF q, l
    <3> QED
        BY <2>1, ConcatFacts DEF Distinct
  <2> HIDE DEF c
  <2>3. Cardinality(ToSet(c)) = Len(c)
      BY <2>2, DistinctLength DEF Distinct
  <2>4. ToSet(c) = {s \in Sockets : LookedAfter(s)}
    <3>1. \A s \in ToSet(c) : s \in Sockets
        BY <2>2 DEF ToSet
    <3> QED
        BY <2>2, <3>1 DEF LookedAfter
  <2> QED
      BY <2>1, <2>2, <2>3, <2>4 DEF Kept, Known, LookedAfter
<1>2. SocketsInv => Registered
    BY <1>1 DEF Registered
<1> QED
    BY <1>2, InitSockets, NextSockets, PTL DEF Spec

-----------------------------------------------------------------------------
(* The refinement.                                                         *)

(* The state of the connections, as Channel has it.                        *)
OpenOf == [s \in Sockets |-> ~sock[s].broken]
FlightOf == [s \in Sockets |-> Chan(sock[s])]
ReceivedOf == [s \in Sockets |-> sock[s].received]

(* A packet that was not sent is neither on its way nor delivered.         *)
LEMMA NewPacket ==
    ASSUME NEW k, Sound(k), NEW p \in Nat, p > k.sent
    PROVE  /\ ~\E i \in DOMAIN Chan(k) : Chan(k)[i] = p
           /\ ~\E i \in DOMAIN k.received : k.received[i] = p
<1>1. Chan(k) \in Seq(1 .. k.sent) /\ k.received \in Seq(1 .. k.sent) /\ k.sent \in Nat
    BY ChanType DEF Sound, Holds
<1> DEFINE S == 1 .. k.sent
           c == Chan(k)
           r == k.received
<1>2. c \in Seq(S) /\ r \in Seq(S) /\ p \notin S
    BY <1>1
<1> HIDE DEF S, c, r
<1>3. \A i \in DOMAIN c : c[i] \in S
    BY <1>2
<1>4. \A i \in DOMAIN r : r[i] \in S
    BY <1>2
<1> QED
    BY <1>2, <1>3, <1>4 DEF c, r

(* A step of one socket is a step of its connection, or none.              *)
LEMMA MoveRefines ==
    ASSUME SocketsInv, NEW s \in Sockets, NEW n,
           sock' = [sock EXCEPT ![s] = n], Moves(sock[s], n)
    PROVE  [Connection!Next]_Connection!vars
<1> DEFINE k == sock[s]
<1>1. /\ sock \in [Sockets -> SocketState] /\ Sound(k) /\ Sound(n)
      /\ \A t \in Sockets : sock'[t] = IF t = s THEN n ELSE sock[t]
    BY OneMoved DEF SocketsInv, Moves
<1>2. /\ OpenOf = [t \in Sockets |-> ~sock[t].broken]
      /\ FlightOf = [t \in Sockets |->
            IF sock[t].broken THEN <<>>
            ELSE FlattenSeq(sock[t].writeQueue) \o sock[t].bufferQueue]
      /\ ReceivedOf = [t \in Sockets |-> sock[t].received]
    BY DEF OpenOf, FlightOf, ReceivedOf, Chan
<1>3. /\ OpenOf' = [t \in Sockets |-> ~sock'[t].broken]
      /\ FlightOf' = [t \in Sockets |-> Chan(sock'[t])]
      /\ ReceivedOf' = [t \in Sockets |-> sock'[t].received]
    BY DEF OpenOf, FlightOf, ReceivedOf, Chan
<1>4. /\ OpenOf' = [OpenOf EXCEPT ![s] = ~n.broken]
      /\ FlightOf' = [FlightOf EXCEPT ![s] = Chan(n)]
      /\ ReceivedOf' = [ReceivedOf EXCEPT ![s] = n.received]
  <2>1. /\ OpenOf' = [t \in Sockets |-> IF t = s THEN ~n.broken ELSE ~sock[t].broken]
        /\ FlightOf' = [t \in Sockets |-> IF t = s THEN Chan(n) ELSE Chan(sock[t])]
        /\ ReceivedOf' = [t \in Sockets |-> IF t = s THEN n.received ELSE sock[t].received]
      BY <1>1, <1>3
  <2> QED
      BY <2>1 DEF OpenOf, FlightOf, ReceivedOf
<1>5. OpenOf[s] = ~k.broken /\ FlightOf[s] = Chan(k) /\ ReceivedOf[s] = k.received
    BY DEF OpenOf, FlightOf, ReceivedOf
<1>6. k.broken \in BOOLEAN /\ n.broken \in BOOLEAN
    BY <1>1, ChanType
<1>7. CASE n.broken /\ k.broken /\ n.received = k.received
  <2>1. Chan(n) = Chan(k)
      BY <1>7 DEF Chan
  <2>2. UNCHANGED <<OpenOf, FlightOf, ReceivedOf>>
      BY <1>4, <1>5, <1>7, <2>1 DEF OpenOf, FlightOf, ReceivedOf
  <2> QED
      BY <1>2, <1>3, <2>2 DEF Connection!vars, OpenOf, FlightOf, ReceivedOf, Chan
<1>8. CASE Stays(k, n)
  <2>2. UNCHANGED <<OpenOf, FlightOf, ReceivedOf>>
      BY <1>4, <1>5, <1>8 DEF Stays, OpenOf, FlightOf, ReceivedOf
  <2> QED
      BY <1>2, <1>3, <2>2 DEF Connection!vars, OpenOf, FlightOf, ReceivedOf, Chan
<1>9. CASE Sends(k, n)
  <2> DEFINE p == n.sent
  <2>1. p \in 1 .. MaxPackets /\ p \in Nat /\ p > k.sent
      BY <1>1, <1>9, ChanType DEF Sends, Sound, SocketState
  <2>2. /\ ~\E i \in DOMAIN FlightOf[s] : FlightOf[s][i] = p
        /\ ~\E i \in DOMAIN ReceivedOf[s] : ReceivedOf[s][i] = p
      BY <1>1, <1>5, <2>1, NewPacket
  <2>3. /\ OpenOf[s] /\ OpenOf' = OpenOf /\ ReceivedOf' = ReceivedOf
        /\ FlightOf' = [FlightOf EXCEPT ![s] = Append(FlightOf[s], p)]
    <3>1. OpenOf[s] /\ OpenOf' = OpenOf
        BY <1>4, <1>5, <1>9 DEF Sends, OpenOf
    <3>2. ReceivedOf' = ReceivedOf
        BY <1>4, <1>5, <1>9 DEF Sends, ReceivedOf
    <3>3. FlightOf' = [FlightOf EXCEPT ![s] = Append(FlightOf[s], p)]
        BY <1>4, <1>5, <1>9 DEF Sends
    <3> QED
        BY <3>1, <3>2, <3>3
  <2>4. Connection!Send(s, p)
      BY <1>2, <1>3, <2>2, <2>3 DEF Connection!Send, Connection!Sent, FlightOf, Chan
  <2> QED
      BY <2>1, <2>4 DEF Connection!Next
<1>10. ASSUME NEW m \in 0 .. Len(Chan(k)), Delivers(k, n, m)
       PROVE  Connection!Next
  <2>1. /\ OpenOf[s] /\ OpenOf' = OpenOf
        /\ ReceivedOf' = [ReceivedOf EXCEPT ![s] = ReceivedOf[s] \o SubSeq(FlightOf[s], 1, m)]
        /\ FlightOf' = [FlightOf EXCEPT
                ![s] = SubSeq(FlightOf[s], m + 1, Len(FlightOf[s]))]
        /\ m \in 0 .. Len(FlightOf[s])
      BY <1>4, <1>5, <1>10 DEF Delivers, OpenOf
  <2>2. Connection!Deliver(s, m) /\ m \in 0 .. Len(FlightOf[s])
      BY <1>2, <1>3, <2>1 DEF Connection!Deliver, Connection!DeliverFirst, FlightOf, Chan
  <2> QED
      BY <1>2, <2>2 DEF Connection!Next
<1>11. ASSUME NEW m \in 0 .. Len(Chan(k)), Breaks(k, n, m)
       PROVE  Connection!Next
  <2>0. Chan(n) = <<>>
      BY <1>11 DEF Breaks, Chan
  <2>1. /\ OpenOf[s] /\ OpenOf' = [OpenOf EXCEPT ![s] = FALSE]
        /\ ReceivedOf' = [ReceivedOf EXCEPT ![s] = ReceivedOf[s] \o SubSeq(FlightOf[s], 1, m)]
        /\ FlightOf' = [FlightOf EXCEPT ![s] = <<>>]
        /\ m \in 0 .. Len(FlightOf[s])
      BY <1>4, <1>5, <1>11, <2>0 DEF Breaks
  <2>2. Connection!Break(s, m) /\ m \in 0 .. Len(FlightOf[s])
      BY <1>2, <1>3, <2>1 DEF Connection!Break, Connection!DeliverFirst, FlightOf, Chan
  <2> QED
      BY <1>2, <2>2 DEF Connection!Next
<1> QED
    BY <1>7, <1>8, <1>9, <1>10, <1>11 DEF Moves

(* A step that writes no socket is none of a connection.                   *)
LEMMA ConnectionsStay ==
    ASSUME sock' = sock
    PROVE  [Connection!Next]_Connection!vars
    BY DEF Connection!vars

(* Every step is one of a connection, or none.                             *)
LEMMA ConnectionStep == SocketsInv /\ [Next]_vars => [Connection!Next]_Connection!vars
<1> SUFFICES ASSUME SocketsInv, [Next]_vars
             PROVE  [Connection!Next]_Connection!vars
    OBVIOUS
<1>1. CASE Update
  <2>1. CASE GatherPackets \/ WriteBuffer \/ ProcessReadyCallbacks
    <3>1. Head(todo) \in Sockets
        BY <2>1, Current DEF GatherPackets, WriteBuffer, ProcessReadyCallbacks
    <3> QED
        BY <2>1, <3>1, UpdateMoves, MoveRefines
  <2>2. CASE StartUpdate \/ RemoveClosed \/ TestFlags \/ Exit
      BY <2>2, ConnectionsStay DEF StartUpdate, RemoveClosed, TestFlags, Exit
  <2> QED
      BY <1>1, <2>1, <2>2 DEF Update
<1>2. CASE \E s \in Sockets : ReadHandler(s) \/ WriteHandler(s)
    BY <1>2, HandlersMove, MoveRefines
<1>3. CASE Others
  <2>1. CASE Stop
      BY <2>1, ConnectionsStay DEF Stop
  <2>2. CASE \E s \in Sockets : AddSocket(s)
      BY <2>2, AcceptMoves, MoveRefines
  <2> QED
      BY <1>3, <2>1, <2>2, OthersMove, MoveRefines DEF Others
<1>4. CASE Terminated \/ UNCHANGED vars
    BY <1>4, ConnectionsStay DEF Terminated, vars
<1> QED
    BY <1>1, <1>2, <1>3, <1>4 DEF Next

(* The two queues, the gathering in buffers, the partial writes and every  *)
(* way of closing (WorldSocket::Update, Socket::HandleQueue, CloseSocket): *)
(* what a connection delivers is what was sent on it, in order and once,   *)
(* until it breaks.                                                        *)
THEOREM ChannelCorrect == Spec => ChannelSpec
<1>1. Init => Connection!Init
  <2> SUFFICES ASSUME Init PROVE Connection!Init
      OBVIOUS
  <2>1. /\ \A s \in Sockets : /\ ~sock[s].broken /\ sock[s].writeQueue = <<>>
                              /\ sock[s].bufferQueue = <<>> /\ sock[s].received = <<>>
      BY DEF Init, NewSocket
  <2>2. FlattenSeq(<<>>) \o <<>> = <<>>
      BY FlattenEmpty
  <2> QED
      BY <2>1, <2>2 DEF Connection!Init
<1> QED
    BY <1>1, InitSockets, NextSockets, ConnectionStep, PTL DEF Spec, ChannelSpec, Connection!Spec
==============================================================================
