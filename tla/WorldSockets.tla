---------------------------- MODULE WorldSockets ----------------------------
(***************************************************************************)
(* The sockets of the world server (shared/Networking/Socket.h,            *)
(* NetworkThread.h and game/Server/WorldSocket.cpp): one network thread,   *)
(* the acceptor, which hands new sockets over to it, and the world and map *)
(* threads, which send packets, kick clients and refuse instance           *)
(* connections.                                                            *)
(*                                                                         *)
(* The network thread is one io_context: its timer runs NetworkThread::    *)
(* Update, socket after socket, and between two updates run the handlers   *)
(* of asynchronous reads and writes.  Update is cut where another thread   *)
(* can come in between: the queue that SendPacket fills is emptied, the    *)
(* flags are tested, each buffer is written, query callbacks are called.   *)
(* CloseSocket on another thread is cut between the exchange of _closed    *)
(* and the shutdown of the connection.                                     *)
(*                                                                         *)
(* Abstracted: a packet is a number, the p-th that was sent on its socket; *)
(* the lock free queue is the queue it implements (MPSCQueue); bytes are   *)
(* counted in packets, so that a part of a packet is none; compression and *)
(* encryption are left out; what a client says is left open.  The session  *)
(* behind a socket is in WorldSessions.                                    *)
(***************************************************************************)
EXTENDS Integers, FiniteSets, SequencesExt

CONSTANTS
    Sockets,
    Room,        \* how many small packets fit in a buffer
    Large,       \* the packets that are larger than a buffer
    Silent,      \* bound: the sockets whose clients say nothing and stay
    MaxSends     \* bound: how many packets the world sends on each socket

ASSUME SocketsAssumption ==
    /\ IsFiniteSet(Sockets)
    /\ {Room, MaxSends} \subseteq Nat \ {0}
    /\ Large \subseteq Nat
    /\ Silent \subseteq Sockets

(* The initializer, the answer to the authentication, and a refusal are    *)
(* sent besides what the world sends.                                      *)
MaxPackets == MaxSends + 3

VARIABLES
    newSockets,   \* _newSockets
    list,         \* _sockets
    connections,  \* _connections
    stopped,      \* _stopped
    sock,         \* the state of each socket
    step,         \* where Update is: at a step of the current socket, or "idle"
    todo          \* the sockets Update has yet to visit, the current one first

threadVars == <<newSockets, list, connections, stopped>>
vars == <<threadVars, sock, step, todo>>

SocketState ==
    [closed : BOOLEAN, closing : BOOLEAN, writing : BOOLEAN,
     bufferQueue : Seq(1 .. MaxPackets), writeQueue : Seq(Seq(1 .. MaxPackets)),
     reads : Nat,                          \* asynchronous reads under way
     query : {"none", "ip", "account"},    \* the callback in _queryProcessor
     authed : BOOLEAN,
     caller : {"none", "close", "refuse"}, \* another thread inside a call
     broken : BOOLEAN,                     \* shut down here, or lost
     sent : 0 .. MaxPackets,
     received : Seq(1 .. MaxPackets)]

NewSocket ==
    [closed |-> FALSE, closing |-> FALSE, writing |-> FALSE,
     bufferQueue |-> <<>>, writeQueue |-> <<>>, reads |-> 0, query |-> "none",
     authed |-> FALSE, caller |-> "none", broken |-> FALSE, sent |-> 0,
     received |-> <<>>]

Init ==
    /\ newSockets = <<>>
    /\ list = <<>>
    /\ connections = 0
    /\ stopped = FALSE
    /\ sock = [s \in Sockets |-> NewSocket]
    /\ step = "idle"
    /\ todo = <<>>

-----------------------------------------------------------------------------
(* The methods of a socket, as functions of its state.                     *)

IsOpen(k) == ~k.closed /\ ~k.closing

SendPacket(k) ==
    IF IsOpen(k)
    THEN [k EXCEPT !.sent = @ + 1, !.bufferQueue = Append(@, k.sent + 1)]
    ELSE k

QueuePacket(k) ==
    [k EXCEPT !.sent = @ + 1, !.writeQueue = Append(@, <<k.sent + 1>>)]

DelayedCloseSocket(k) == [k EXCEPT !.closing = TRUE]

CloseSocket(k) == [k EXCEPT !.closed = TRUE, !.broken = TRUE]

AsyncRead(k) == IF IsOpen(k) THEN [k EXCEPT !.reads = @ + 1] ELSE k

\* AsyncProcessQueue: a handler will run when the connection can be written.
AsyncProcessQueue(k) == [k EXCEPT !.writing = TRUE]

PopBuffer(k) ==
    LET rest == [k EXCEPT !.writeQueue = Tail(@)] IN
    IF k.closing /\ rest.writeQueue = <<>> THEN CloseSocket(rest) ELSE rest

(* The outcomes of HandleQueue on a queue that is not empty.  go is what   *)
(* it returns: whether its caller goes on with the next buffer.            *)
WriteFails(k) ==
    IF k.broken \/ Head(k.writeQueue) = <<>>
    THEN {[to |-> PopBuffer(k), go |-> FALSE]}
    ELSE {}

WriteSome(k) ==
    IF k.broken THEN {}
    ELSE {[to |-> AsyncProcessQueue([k EXCEPT
                    !.received = @ \o SubSeq(Head(k.writeQueue), 1, n),
                    !.writeQueue[1] = SubSeq(@, n + 1, Len(@))]),
           go |-> FALSE] : n \in 0 .. Len(Head(k.writeQueue)) - 1}

WriteAll(k) ==
    IF k.broken \/ Head(k.writeQueue) = <<>> THEN {}
    ELSE LET to == PopBuffer([k EXCEPT !.received = @ \o Head(k.writeQueue)])
         IN {[to |-> to, go |-> to.writeQueue # <<>>]}

HandleQueue(k) ==
    IF k.writeQueue = <<>> THEN {[to |-> k, go |-> FALSE]}
    ELSE WriteFails(k) \cup WriteSome(k) \cup WriteAll(k)

\* A mutant: a large packet overtakes what was gathered before it.
GatherOvertaken(buffers, p) ==
    LET last == Last(buffers) IN
    IF p \in Large THEN Front(buffers) \o <<<<p>>, last>>
    ELSE IF Len(last) = Room THEN Append(buffers, <<p>>)
    ELSE Append(Front(buffers), Append(last, p))

(* WorldSocket::Update gathers the packets in buffers; one that is too     *)
(* large has a buffer of its own, after what was gathered before it, be it *)
(* nothing.                                                                *)
Gather(buffers, p) ==
    LET last == Last(buffers) IN
    IF p \in Large THEN buffers \o <<<<p>>, <<>>>>
    ELSE IF Len(last) = Room THEN Append(buffers, <<p>>)
    ELSE Append(Front(buffers), Append(last, p))

\* A mutant: a buffer that is not full is not queued.
BuffersFullOnly(packets) ==
    LET all == FoldLeft(Gather, <<<<>>>>, packets) IN
    IF Len(Last(all)) < Room THEN Front(all) ELSE all

Buffers(packets) ==
    LET all == FoldLeft(Gather, <<<<>>>>, packets) IN
    IF Last(all) = <<>> THEN Front(all) ELSE all

EmptyBufferQueue(k) ==
    [k EXCEPT !.writeQueue = @ \o Buffers(k.bufferQueue), !.bufferQueue = <<>>]

-----------------------------------------------------------------------------
(* The acceptor.  Start asks the database about the address.               *)

Known(s) == s \in ToSet(newSockets) \cup ToSet(list) \/ sock[s] # NewSocket

AddSocket(s) ==
    /\ ~stopped
    /\ ~Known(s)
    /\ sock' = [sock EXCEPT ![s].query = "ip"]
    /\ newSockets' = Append(newSockets, s)
    /\ connections' = connections + 1
    /\ UNCHANGED <<list, stopped, step, todo>>

-----------------------------------------------------------------------------
(* The other threads, once the client has a session.                       *)

UnchangedThread == UNCHANGED <<threadVars, step, todo>>

WorldSend(s) ==
    /\ sock[s].authed
    /\ sock[s].caller = "none"
    /\ sock[s].sent < MaxPackets - 1
    /\ sock' = [sock EXCEPT ![s] = SendPacket(@)]
    /\ UnchangedThread

(* KickPlayer: the exchange, then the shutdown and OnClose.                *)
KickPlayer(s) ==
    /\ sock[s].authed
    /\ sock[s].caller = "none"
    /\ ~sock[s].closed
    /\ sock' = [sock EXCEPT ![s].closed = TRUE, ![s].caller = "close"]
    /\ UnchangedThread

Shutdown(s) ==
    /\ sock[s].caller = "close"
    /\ sock' = [sock EXCEPT ![s].broken = TRUE, ![s].caller = "none"]
    /\ UnchangedThread

(* ProcessLinkInstanceSocket of a connection that no session waits for.    *)
RefuseLink(s) ==
    /\ sock[s].authed
    /\ sock[s].caller = "none"
    /\ IsOpen(sock[s])
    /\ sock' = [sock EXCEPT ![s] = [SendPacket(@) EXCEPT !.caller = "refuse"]]
    /\ UnchangedThread

RefusedLink(s) ==
    /\ sock[s].caller = "refuse"
    /\ sock' = [sock EXCEPT ![s] = [DelayedCloseSocket(@) EXCEPT !.caller = "none"]]
    /\ UnchangedThread

(* The network loses the connection, or the client goes.                   *)
LoseConnection(s) ==
    /\ Known(s)
    /\ s \notin Silent
    /\ ~sock[s].broken
    /\ sock' = [sock EXCEPT ![s].broken = TRUE]
    /\ UnchangedThread

-----------------------------------------------------------------------------
(* NetworkThread::Update.                                                  *)

(* Those of the new sockets that are open, in their order.                 *)
Opened ==
    FoldLeft(LAMBDA open, s : IF IsOpen(sock[s]) THEN Append(open, s) ELSE open,
             <<>>, newSockets)

(* AddNewSockets, under the lock that AddSocket takes.                     *)
StartUpdate ==
    /\ step = "idle"
    /\ ~stopped
    /\ list' = list \o Opened
    /\ connections' = connections - (Len(newSockets) - Len(Opened))
    /\ newSockets' = <<>>
    /\ todo' = list'
    /\ step' = IF list' = <<>> THEN "idle" ELSE "gather"
    /\ UNCHANGED <<stopped, sock>>

NextSocket ==
    /\ todo' = Tail(todo)
    /\ step' = IF Tail(todo) = <<>> THEN "idle" ELSE "gather"

GatherPackets ==
    /\ step = "gather"
    /\ sock' = [sock EXCEPT ![Head(todo)] = EmptyBufferQueue(@)]
    /\ step' = "test"
    /\ UNCHANGED <<threadVars, todo>>

\* A mutant: the socket goes, its place in the count stays.
RemoveClosedUncounted ==
    /\ step = "test"
    /\ sock[Head(todo)].closed
    /\ list' = RemoveFirst(list, Head(todo))
    /\ NextSocket
    /\ UNCHANGED <<newSockets, connections, stopped, sock>>

RemoveClosed ==
    /\ step = "test"
    /\ sock[Head(todo)].closed
    /\ list' = RemoveFirst(list, Head(todo))
    /\ connections' = connections - 1
    /\ NextSocket
    /\ UNCHANGED <<newSockets, stopped, sock>>

\* A mutant: a closed socket is served like an open one.
TestFlagsIfClosed ==
    /\ step = "test"
    /\ LET k == sock[Head(todo)] IN
        step' = IF k.writing \/ (k.writeQueue = <<>> /\ ~k.closing)
                THEN "callbacks" ELSE "write"
    /\ UNCHANGED <<threadVars, sock, todo>>

TestFlags ==
    /\ step = "test"
    /\ LET k == sock[Head(todo)] IN
        /\ ~k.closed
        /\ step' = IF k.writing \/ (k.writeQueue = <<>> /\ ~k.closing)
                   THEN "callbacks" ELSE "write"
    /\ UNCHANGED <<threadVars, sock, todo>>

WriteBuffer ==
    /\ step = "write"
    /\ \E r \in HandleQueue(sock[Head(todo)]) :
        /\ sock' = [sock EXCEPT ![Head(todo)] = r.to]
        /\ step' = IF r.go THEN "write" ELSE "callbacks"
    /\ UNCHANGED <<threadVars, todo>>

(* CheckIpCallback, and the callbacks of the two authentications, with the *)
(* ways in which they turn a client down.                                  *)
Answered(k) ==
    LET done == [k EXCEPT !.query = "none"] IN
    CASE k.query = "none" -> {k}
      [] k.query = "ip" ->
            {DelayedCloseSocket(done), QueuePacket(AsyncRead(done))}
      [] k.query = "account" ->
            {DelayedCloseSocket(done),
             DelayedCloseSocket(SendPacket(done)),
             AsyncRead(SendPacket([done EXCEPT !.authed = TRUE]))}

ProcessReadyCallbacks ==
    /\ step = "callbacks"
    /\ \E k \in {sock[Head(todo)]} \cup Answered(sock[Head(todo)]) :
        sock' = [sock EXCEPT ![Head(todo)] = k]
    /\ NextSocket
    /\ UNCHANGED threadVars

-----------------------------------------------------------------------------
(* The handlers of asynchronous operations.                                *)

\* A mutant: the next read begins while the authentication is looked up.
SaidAndReads(k) ==
    {AsyncRead(k), CloseSocket(k)}
        \cup IF k.authed THEN {}
             ELSE {[AsyncRead(k) EXCEPT !.query = "account"],
                   DelayedCloseSocket(SendPacket(k))}

(* What the client said is dealt with and the next read begins, or asks    *)
(* for an authentication, that is looked up or denied, or is malformed.    *)
Said(k) ==
    {AsyncRead(k), CloseSocket(k)}
        \cup IF k.authed THEN {}
             ELSE {[k EXCEPT !.query = "account"], DelayedCloseSocket(SendPacket(k))}

ReadHandler(s) ==
    /\ step = "idle"
    /\ ~stopped
    /\ sock[s].reads > 0
    /\ LET k == [sock[s] EXCEPT !.reads = @ - 1]
           failed == IF k.broken THEN {CloseSocket(k)} ELSE {}
           handled == IF IsOpen(k) /\ s \notin Silent THEN Said(k) ELSE {k}
       IN \E to \in failed \cup handled : sock' = [sock EXCEPT ![s] = to]
    /\ UnchangedThread

WriteHandler(s) ==
    /\ step = "idle"
    /\ ~stopped
    /\ sock[s].writing
    /\ LET k == [sock[s] EXCEPT !.writing = FALSE] IN
        \E r \in HandleQueue(k) : sock' = [sock EXCEPT ![s] = r.to]
    /\ UnchangedThread

-----------------------------------------------------------------------------
(* The end of the network thread: the handler under way ends, no other one *)
(* begins.                                                                 *)

Stop ==
    /\ ~stopped
    /\ stopped' = TRUE
    /\ UNCHANGED <<newSockets, list, connections, sock, step, todo>>

Exit ==
    /\ stopped
    /\ step = "idle"
    /\ newSockets' = <<>>
    /\ list' = <<>>
    /\ step' = "gone"
    /\ UNCHANGED <<connections, stopped, sock, todo>>

Terminated ==
    /\ step = "gone"
    /\ UNCHANGED vars

-----------------------------------------------------------------------------
Update ==
    \/ StartUpdate \/ GatherPackets \/ RemoveClosed \/ TestFlags
    \/ WriteBuffer \/ ProcessReadyCallbacks \/ Exit

Others ==
    \/ Stop
    \/ \E s \in Sockets :
        \/ AddSocket(s) \/ LoseConnection(s)
        \/ WorldSend(s) \/ KickPlayer(s) \/ Shutdown(s)
        \/ RefuseLink(s) \/ RefusedLink(s)

Next ==
    \/ Update
    \/ \E s \in Sockets : ReadHandler(s) \/ WriteHandler(s)
    \/ Others
    \/ Terminated

Spec == Init /\ [][Next]_vars

(* The network thread runs, a handler that is ready is not passed over for *)
(* ever by the timer, a call that another thread has begun ends, and a     *)
(* client reads: a write that is tried again and again gets through,       *)
(* unless the connection is lost.                                          *)
WriteGetsThrough(s) ==
    /\ WriteBuffer \/ WriteHandler(s)
    /\ Len(sock'[s].writeQueue) < Len(sock[s].writeQueue)

FairSpec ==
    /\ Spec
    /\ WF_vars(Update)
    /\ \A s \in Sockets :
        /\ WF_vars(Shutdown(s) \/ RefusedLink(s))
        /\ SF_vars(WriteHandler(s)) /\ SF_vars(WriteGetsThrough(s))

-----------------------------------------------------------------------------
TypeOK ==
    /\ newSockets \in Seq(Sockets)
    /\ list \in Seq(Sockets)
    /\ connections \in Nat
    /\ stopped \in BOOLEAN
    /\ sock \in [Sockets -> SocketState]
    /\ step \in {"idle", "gather", "test", "write", "callbacks", "gone"}
    /\ todo \in Seq(Sockets)

LookedAfter(s) == s \in ToSet(newSockets) \cup ToSet(list)

(* The count by which the acceptor chooses a thread is that of the sockets *)
(* the thread looks after, and an open socket is one of them: none is      *)
(* counted twice or dropped on its way from the acceptor to its removal.   *)
Registered ==
    step # "gone" =>
        /\ connections = Cardinality({s \in Sockets : LookedAfter(s)})
        /\ \A s \in Sockets : Known(s) /\ ~sock[s].closed => LookedAfter(s)

(* At any time one party at most carries a conversation on: a read that is *)
(* under way, or a query whose answer will start the next one.  (Two reads *)
(* would write into the same buffer.)                                      *)
OneReader ==
    \A s \in Sockets :
        sock[s].reads + (IF sock[s].query = "none" THEN 0 ELSE 1) <= 1

Connection == INSTANCE Channel
    WITH Connections <- Sockets,
         Packets <- 1 .. MaxPackets,
         open <- [s \in Sockets |-> ~sock[s].broken],
         inflight <- [s \in Sockets |->
            IF sock[s].broken THEN <<>>
            ELSE FlattenSeq(sock[s].writeQueue) \o sock[s].bufferQueue],
         received <- [s \in Sockets |-> sock[s].received]

(* The two queues, the gathering in buffers, the partial writes and every  *)
(* way of closing keep what a connection promises.                         *)
ChannelSpec == Connection!Spec

(* What was accepted for sending arrives in the end, unless the connection *)
(* is closed or lost, or the server stops.                                 *)
Delivered ==
    \A s \in Sockets :
        []<>(Len(sock[s].received) = sock[s].sent \/ sock[s].broken \/ stopped)

(* A closed socket leaves the thread, and its place in the count.          *)
Removed ==
    \A s \in Sockets : sock[s].closed ~> (~LookedAfter(s) \/ stopped)

(* "Marks the socket for closing after write buffer becomes empty".        *)
(* Violated: a socket that is marked when its buffer is already empty is   *)
(* never closed.                                                           *)
ClosingCloses ==
    \A s \in Sockets : sock[s].closing ~> (sock[s].closed \/ stopped)
=============================================================================
