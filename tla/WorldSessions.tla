--------------------------- MODULE WorldSessions ---------------------------
(***************************************************************************)
(* The sessions of the world server (game/World/World.cpp,                 *)
(* game/Server/WorldSession.cpp, WorldSocket.cpp, Handlers/                *)
(* CharacterHandler.cpp): a session is created by the network thread when  *)
(* its client is authenticated, handed over to the world thread, kept in   *)
(* m_sessions or made to wait in m_QueuedPlayer, logs a character in over  *)
(* a second connection, and is deleted by the world thread.                *)
(*                                                                         *)
(* Threads: the network threads deal with the sockets, the world thread    *)
(* runs World::UpdateSessions, and in between the rest of the world; the   *)
(* only worker of the character database executes what is posted to it in  *)
(* order.  A step of the world thread waits for the lock of a socket that  *)
(* it closes.                                                              *)
(*                                                                         *)
(* Abstracted: an account has one character, and what is saved of it is    *)
(* how far it has got; a packet is the request it carries; a packet other  *)
(* than the log in and the log out is none.  The sockets themselves, with  *)
(* their queues, are in WorldSockets, the database in DatabaseWorkerPool.  *)
(***************************************************************************)
EXTENDS Integers, FiniteSets, SequencesExt

CONSTANTS
    None,
    Sessions, Accounts,
    Account,          \* whose session it is
    Exempt,           \* the sessions that may skip the queue
    Limit,            \* m_playerLimit
    Tolerance,        \* whether CONFIG_INTERVAL_DISCONNECT_TOLERANCE is set
    MisjudgesFailure, \* a client may report that a connection failed after
                      \* the server has accepted it
    Playing,          \* bound: the sessions whose clients log characters in
    MaxKeys,          \* bound: how many connection keys a session hands out
    MaxProgress       \* bound: how often a character gets further

ASSUME SessionsAssumption ==
    /\ IsFiniteSet(Sessions)
    /\ None \notin Sessions
    /\ Account \in [Sessions -> Accounts]
    /\ Exempt \subseteq Sessions /\ Playing \subseteq Sessions
    /\ {Limit, MaxKeys, MaxProgress} \subseteq Nat
    /\ {Tolerance, MisjudgesFailure} \subseteq BOOLEAN

(* The socket <<s, 0>> is the one that session s was created for, <<s, k>> *)
(* the one that a client opens with the k-th key it got from s.            *)
Sockets == Sessions \X (0 .. MaxKeys)
Realm(s) == <<s, 0>>

VARIABLES
    world,        \* what the world thread works on, see World below
    addSessQueue, \* handed over by the network thread, as are
    linkQueue,    \* _linkSocketQueue
    phase,        \* where UpdateSessions is
    current,      \* the socket or the session it deals with
    todo,         \* the accounts whose sessions it has yet to update
    progress      \* how far each character really got

vars == <<world, addSessQueue, linkQueue, phase, current, todo, progress>>

SocketState ==
    [state : {"none", "open", "closed"},
     session : BOOLEAN]                   \* whether _worldSession is set

SessionState ==
    [life : {"none", "new", "known", "deleted"},  \* known to the world thread
     inQueue : BOOLEAN,                   \* m_inQueue
     wants : {"nothing", "login", "logout"},   \* in _recvQueue
     loading : BOOLEAN,                   \* m_playerLoading
     loaded : Seq(0 .. MaxProgress),      \* finished login queries
     keys : 0 .. MaxKeys,                 \* _instanceConnectKey is the last
     player : BOOLEAN, at : 0 .. MaxProgress,  \* _player, and how far it is
     realm : BOOLEAN, instance : 0 .. MaxKeys] \* m_Socket, 0 for none

Task ==
    [save : BOOLEAN, of : Sessions, at : 0 .. MaxProgress]

World ==
    [ses : [Sessions -> SessionState],
     sock : [Sockets -> SocketState],
     sessions : [Accounts -> Sessions \cup {None}],  \* m_sessions
     queued : Seq(Sessions),                         \* m_QueuedPlayer
     disconnects : SUBSET Accounts,                  \* m_disconnects
     players : [Accounts -> Nat],         \* the Player objects of an account
     db : Seq(Task),
     saved : [Accounts -> 0 .. MaxProgress]]

NewSession ==
    [life |-> "none", inQueue |-> FALSE, wants |-> "nothing",
     loading |-> FALSE, loaded |-> <<>>, keys |-> 0, player |-> FALSE, at |-> 0,
     realm |-> FALSE, instance |-> 0]

Init ==
    /\ world =
        [ses |-> [s \in Sessions |-> NewSession],
         sock |-> [k \in Sockets |->
            [state |-> "none", session |-> FALSE]],
         sessions |-> [a \in Accounts |-> None],
         queued |-> <<>>,
         disconnects |-> {},
         players |-> [a \in Accounts |-> 0],
         db |-> <<>>,
         saved |-> [a \in Accounts |-> 0]]
    /\ addSessQueue = <<>>
    /\ linkQueue = <<>>
    /\ phase = "idle"
    /\ current = None
    /\ todo = {}
    /\ progress = [a \in Accounts |-> 0]

-----------------------------------------------------------------------------
(* What the methods do to the world.                                       *)

IsOpen(w, k) == w.sock[k].state = "open"

(* CloseSocket of each of the sockets, with OnClose.                       *)
Close(w, socks) ==
    [w EXCEPT !.sock = [k \in Sockets |->
        IF k \in socks /\ IsOpen(w, k)
        THEN [@[k] EXCEPT !.state = "closed", !.session = FALSE]
        ELSE @[k]]]

RealmHeld(w, s) == IF w.ses[s].realm THEN {Realm(s)} ELSE {}

InstanceHeld(w, s) ==
    IF w.ses[s].instance = 0 THEN {} ELSE {<<s, w.ses[s].instance>>}

Held(w, s) == RealmHeld(w, s) \cup InstanceHeld(w, s)

KickPlayer(w, s) == Close(w, Held(w, s))

(* Player::SaveToDB posts a transaction.                                   *)
SaveToDB(w, s) ==
    [w EXCEPT !.db = Append(@, [save |-> TRUE, of |-> s, at |-> w.ses[s].at])]

\* A mutant: the player goes without being saved.
LogoutPlayerUnsaved(w, s) ==
    LET out == IF w.ses[s].player
               THEN [w EXCEPT !.ses[s].player = FALSE, !.ses[s].at = 0,
                              !.players[Account[s]] = @ - 1]
               ELSE w
    IN [Close(out, InstanceHeld(w, s)) EXCEPT !.ses[s].instance = 0]

LogoutPlayer(w, s) ==
    LET out == IF w.ses[s].player
               THEN [SaveToDB(w, s) EXCEPT
                        !.ses[s].player = FALSE, !.ses[s].at = 0,
                        !.players[Account[s]] = @ - 1]
               ELSE w
    IN [Close(out, InstanceHeld(w, s)) EXCEPT !.ses[s].instance = 0]

(* ~WorldSession.  The queries of the session are forgotten with it.       *)
Delete(w, s) ==
    LET out == IF w.ses[s].player THEN LogoutPlayer(w, s) ELSE w
    IN [Close(out, Held(out, s)) EXCEPT
            !.ses[s] = [NewSession EXCEPT !.life = "deleted", !.keys = w.ses[s].keys]]

FindSession(w, a) == w.sessions[a]

Listed(w) == {a \in Accounts : w.sessions[a] # None}

GetActiveSessionCount(w) == Cardinality(Listed(w)) - Len(w.queued)

(* InitializeSession asks for data; m_inQueue is reset when they come.     *)
InitializeSessionCallback(w, s) == [w EXCEPT !.ses[s].inQueue = FALSE]

AddQueuedPlayer(w, s) ==
    [w EXCEPT !.queued = Append(@, s), !.ses[s].inQueue = TRUE]

InQueue(w, s) == s \in ToSet(w.queued)

(* The erase of the first place of s in the queue.                         *)
Erased(queue, s) == RemoveAt(queue, CHOOSE i \in DOMAIN queue : queue[i] = s)

\* A mutant: the place of s is not counted as free.
RemoveQueuedPlayerUncounted(w, s) ==
    LET left == IF InQueue(w, s)
                THEN [w EXCEPT !.queued = Erased(@, s), !.ses[s].inQueue = FALSE]
                ELSE w
    IN IF (Limit = 0 \/ GetActiveSessionCount(w) < Limit) /\ left.queued # <<>>
       THEN [left EXCEPT !.queued = Tail(@)]
       ELSE left

(* The first in the queue gets in, if there is room without s.             *)
RemoveQueuedPlayer(w, s) ==
    LET active == GetActiveSessionCount(w)
        others == IF InQueue(w, s) \/ active = 0 THEN active ELSE active - 1
        left   == IF InQueue(w, s)
                  THEN [w EXCEPT !.queued = Erased(@, s), !.ses[s].inQueue = FALSE]
                  ELSE w
    IN IF (Limit = 0 \/ others < Limit) /\ left.queued # <<>>
       THEN [left EXCEPT !.queued = Tail(@)]
       ELSE left

\* A mutant: the old session stays in the queue.
ReplacedQueued(w, a) ==
    LET old == FindSession(w, a) IN
    IF old = None THEN w ELSE Delete(KickPlayer(w, old), old)

\* A mutant: the old session is kicked, and left for a later update.
ReplacedLater(w, a) ==
    LET old == FindSession(w, a) IN
    IF old = None THEN w ELSE RemoveQueuedPlayer(KickPlayer(w, old), old)

(* AddSession_ of a session whose account is not loading a character.      *)
Replaced(w, a) ==
    LET old == FindSession(w, a) IN
    IF old = None THEN w
    ELSE Delete(RemoveQueuedPlayer(KickPlayer(w, old), old), old)

\* A mutant: one more than the limit.
AdmittedOneMore(w, s) ==
    LET a == Account[s]
        old == FindSession(w, a)
        in == [Replaced(w, a) EXCEPT !.sessions[a] = s]
        others == Cardinality(Listed(in))
                    - (IF old # None /\ InQueue(w, old) THEN 0 ELSE 1)
    IN IF /\ Limit > 0
          /\ others > Limit
          /\ s \notin Exempt
          /\ ~(Tolerance /\ a \in in.disconnects)
       THEN AddQueuedPlayer(in, s)
       ELSE in

Admitted(w, s) ==
    LET a == Account[s]
        old == FindSession(w, a)
        in == [Replaced(w, a) EXCEPT !.sessions[a] = s]
        others == Cardinality(Listed(in))
                    - (IF old # None /\ InQueue(w, old) THEN 0 ELSE 1)
    IN IF /\ Limit > 0
          /\ others >= Limit
          /\ s \notin Exempt
          /\ ~(Tolerance /\ a \in in.disconnects)
       THEN AddQueuedPlayer(in, s)
       ELSE in

AddSession_(w, s) ==
    LET old == FindSession(w, Account[s]) IN
    IF old # None /\ w.ses[old].loading
    THEN Delete(KickPlayer(w, s), s)
    ELSE Admitted(w, s)

SendConnectToInstance(w, s) == [w EXCEPT !.ses[s].keys = @ + 1]

HandlePlayerLoginOpcode(w, s) ==
    IF w.ses[s].loading \/ w.ses[s].player
    THEN KickPlayer(w, s)
    ELSE SendConnectToInstance([w EXCEPT !.ses[s].loading = TRUE], s)

(* The login queries, all of them one task.                                *)
HandleContinuePlayerLogin(w, s) ==
    IF ~w.ses[s].loading \/ w.ses[s].player
    THEN KickPlayer(w, s)
    ELSE [w EXCEPT !.db = Append(@, [save |-> FALSE, of |-> s, at |-> 0])]

AbortLogin(w, s) ==
    IF ~w.ses[s].loading \/ w.ses[s].player
    THEN KickPlayer(w, s)
    ELSE [w EXCEPT !.ses[s].loading = FALSE]

HandlePlayerLogin(w, s) ==
    [w EXCEPT !.ses[s].player = TRUE, !.ses[s].at = Head(w.ses[s].loaded),
              !.ses[s].loaded = Tail(@), !.ses[s].loading = FALSE,
              !.players[Account[s]] = @ + 1]

(* LoadFromDB has failed.                                                  *)
HandlePlayerLoginFailed(w, s) ==
    [KickPlayer(w, s) EXCEPT
        !.ses[s].player = FALSE, !.ses[s].loaded = Tail(@), !.ses[s].loading = FALSE]

(* A session without a player, or one whose minute is over, lets its       *)
(* sockets go when one of them is closed.  (forceExit only makes it over.) *)
Expire(w, s, over) ==
    IF /\ \E k \in Held(w, s) : ~IsOpen(w, k)
       /\ over \/ ~w.ses[s].player
    THEN [Close(w, Held(w, s)) EXCEPT !.ses[s].realm = FALSE, !.ses[s].instance = 0]
    ELSE w

(* WorldSession::Update has returned false.                                *)
RemoveUpdated(w, s) ==
    LET a == Account[s]
        first == RemoveQueuedPlayer(w, s)
        noted == IF Tolerance /\ ~InQueue(w, s)
                 THEN [first EXCEPT !.disconnects = @ \cup {a}]
                 ELSE first
    IN Delete([RemoveQueuedPlayer(noted, s) EXCEPT !.sessions[a] = None], s)

-----------------------------------------------------------------------------
UnchangedQueues == UNCHANGED <<addSessQueue, linkQueue>>
UnchangedUpdate == UNCHANGED <<phase, current, todo>>

(* A step that changes the world only.                                     *)
ChangesWorld(w) ==
    /\ world' = w
    /\ UnchangedQueues
    /\ UnchangedUpdate
    /\ UNCHANGED progress

-----------------------------------------------------------------------------
(* The network threads.                                                    *)

(* HandleAuthSessionCallback creates the session.                          *)
HandleAuthSessionCallback(s) ==
    /\ world.ses[s].life = "none"
    /\ ChangesWorld([world EXCEPT !.ses[s].life = "new", !.ses[s].realm = TRUE,
                             !.sock[Realm(s)].state = "open",
                             !.sock[Realm(s)].session = TRUE])

(* HandleEnableEncryptionAck of the first connection.                      *)
AddSession(s) ==
    /\ world.ses[s].life = "new"
    /\ IsOpen(world, Realm(s))
    /\ world' = [world EXCEPT !.ses[s].life = "known"]
    /\ addSessQueue' = Append(addSessQueue, s)
    /\ UNCHANGED <<linkQueue, phase, current, todo, progress>>

(* The client opens the second connection with a key that it got, this one *)
(* is authenticated and acknowledged.                                      *)
AddInstanceSocket(k) ==
    /\ k[2] \in 1 .. world.ses[k[1]].keys
    /\ world.sock[k].state = "none"
    /\ world' = [world EXCEPT !.sock[k].state = "open"]
    /\ linkQueue' = Append(linkQueue, k)
    /\ UNCHANGED <<addSessQueue, phase, current, todo, progress>>

(* A packet of the client, handled under _worldSessionLock, that OnClose   *)
(* and SetWorldSession take as well.                                       *)
ReadsPacket(k) == IsOpen(world, k) /\ world.sock[k].session

QueuePacket(k) ==
    /\ ReadsPacket(k)
    /\ world.ses[k[1]].life = "known"
    /\ world.ses[k[1]].wants = "nothing"
    /\ k[1] \in Playing
    /\ \E want \in {"login", "logout"} :
        ChangesWorld([world EXCEPT !.ses[k[1]].wants = want])

(* MaxKeys stands for the five attempts.                                   *)
HandleConnectToFailed(k) ==
    LET s == k[1]
        last == <<s, world.ses[s].keys>>
    IN /\ ReadsPacket(k)
       /\ k = Realm(s)
       /\ world.ses[s].loading
       /\ MisjudgesFailure \/ world.sock[last].state = "none"
       /\ ChangesWorld(IF world.ses[s].keys < MaxKeys
                       THEN SendConnectToInstance(world, s)
                       ELSE AbortLogin(world, s))

LoseConnection(k) ==
    /\ IsOpen(world, k)
    /\ ChangesWorld(Close(world, {k}))

-----------------------------------------------------------------------------
(* The worker of the character database.                                   *)

Execute ==
    /\ world.db # <<>>
    /\ LET task == Head(world.db)
           done == [world EXCEPT !.db = Tail(@)]
           a    == Account[task.of]
       IN ChangesWorld(
            CASE task.save -> [done EXCEPT !.saved[a] = task.at]
              [] ~task.save /\ world.ses[task.of].life = "known"
                  -> [done EXCEPT !.ses[task.of].loaded = Append(@, world.saved[a])]
              [] OTHER -> done)

-----------------------------------------------------------------------------
(* The world thread: UpdateSessions.                                       *)

StartUpdate ==
    /\ phase = "idle"
    /\ phase' = "links"
    /\ UNCHANGED <<world, addSessQueue, linkQueue, current, todo, progress>>

(* ProcessLinkInstanceSocket looks the session of the connection up ...    *)
ProcessLinkInstanceSocket ==
    /\ phase = "links"
    /\ linkQueue # <<>>
    /\ LET k == Head(linkQueue)
           session == FindSession(world, Account[k[1]])
           awaited == session = k[1] /\ world.ses[session].keys = k[2]
       IN IF IsOpen(world, k) /\ awaited
          THEN /\ phase' = "linking"
               /\ current' = k
               /\ UNCHANGED world
          ELSE /\ world' = Close(world, {k})
               /\ UNCHANGED <<phase, current>>
    /\ linkQueue' = Tail(linkQueue)
    /\ UNCHANGED <<addSessQueue, todo, progress>>

(* ... and joins them, though the connection may be lost by now.           *)
AddInstanceConnection ==
    /\ phase = "linking"
    /\ LET joined == [world EXCEPT !.sock[current].session = TRUE,
                                   !.ses[current[1]].instance = current[2]]
       IN world' = HandleContinuePlayerLogin(joined, current[1])
    /\ phase' = "links"
    /\ current' = None
    /\ UnchangedQueues
    /\ UNCHANGED <<todo, progress>>

LinksDone ==
    /\ phase = "links"
    /\ linkQueue = <<>>
    /\ phase' = "adds"
    /\ UNCHANGED <<world, addSessQueue, linkQueue, current, todo, progress>>

AddSessions ==
    /\ phase = "adds"
    /\ addSessQueue # <<>>
    /\ world' = AddSession_(world, Head(addSessQueue))
    /\ addSessQueue' = Tail(addSessQueue)
    /\ UNCHANGED <<linkQueue, phase, current, todo, progress>>

AddsDone ==
    /\ phase = "adds"
    /\ addSessQueue = <<>>
    /\ todo' = Listed(world)
    /\ phase' = IF todo' = {} THEN "idle" ELSE "update"
    /\ UNCHANGED <<world, addSessQueue, linkQueue, current, progress>>

(* WorldSession::Update: the packets, if the socket is still there, ...    *)
Handled(w, s) ==
    LET k == w.ses[s]
        taken == IF k.realm THEN [w EXCEPT !.ses[s].wants = "nothing"] ELSE w
    IN CASE k.realm /\ k.wants = "login" /\ ~k.inQueue
                /\ (k.keys < MaxKeys \/ k.loading \/ k.player)
              -> HandlePlayerLoginOpcode(taken, s)
         [] k.realm /\ k.wants = "logout" /\ k.player /\ ~k.loading
              -> LogoutPlayer(taken, s)
         [] OTHER -> taken

UpdateSession(a) ==
    /\ phase = "update"
    /\ a \in todo
    /\ world' = Handled(world, FindSession(world, a))
    /\ phase' = "callbacks"
    /\ current' = FindSession(world, a)
    /\ todo' = todo \ {a}
    /\ UnchangedQueues
    /\ UNCHANGED progress

(* ... the callbacks, one after another (a session whose client is gone and *)
(* who has no player ends in this update, whatever InitializeSession does  *)
(* to it), ...                                                             *)
ProcessQueryCallbacks ==
    /\ phase = "callbacks"
    /\ \/ /\ world.ses[current].inQueue
          /\ ~InQueue(world, current) /\ IsOpen(world, Realm(current))
          /\ world' = InitializeSessionCallback(world, current)
       \/ /\ world.ses[current].loaded # <<>>
          /\ \/ world' = HandlePlayerLogin(world, current)
             \/ world' = HandlePlayerLoginFailed(world, current)
    /\ UnchangedQueues
    /\ UNCHANGED <<phase, current, todo, progress>>

(* ... and the sockets; UpdateSessions removes a session that has none.    *)
CleanUp(over) ==
    /\ phase = "callbacks"
    /\ world.ses[current].loaded = <<>>
    /\ LET w == Expire(world, current, over) IN
        world' = IF w.ses[current].realm THEN w ELSE RemoveUpdated(w, current)
    /\ phase' = IF todo = {} THEN "idle" ELSE "update"
    /\ current' = None
    /\ UnchangedQueues
    /\ UNCHANGED <<todo, progress>>

UpdateSessions ==
    \/ StartUpdate \/ ProcessLinkInstanceSocket \/ AddInstanceConnection
    \/ LinksDone \/ AddSessions \/ AddsDone
    \/ \E a \in Accounts : UpdateSession(a)
    \/ ProcessQueryCallbacks
    \/ \E over \in BOOLEAN : CleanUp(over)

-----------------------------------------------------------------------------
(* What the world does between two updates of the sessions.                *)

Between(w) ==
    /\ phase = "idle"
    /\ world' = w
    /\ UnchangedQueues
    /\ UnchangedUpdate

(* The character gets further.                                             *)
Play(a) ==
    LET s == FindSession(world, a) IN
    /\ s # None
    /\ world.ses[s].player
    /\ progress[a] < MaxProgress
    /\ progress' = [progress EXCEPT ![a] = @ + 1]
    /\ Between([world EXCEPT !.ses[s].at = progress'[a]])

(* Player::Update saves now and then.  (Bound: never twice the same, nor   *)
(* while the database is behind.)                                          *)
Save(a) ==
    LET s == FindSession(world, a) IN
    /\ s # None
    /\ world.ses[s].player
    /\ world.ses[s].at > world.saved[a]
    /\ world.db = <<>>
    /\ Between(SaveToDB(world, s))
    /\ UNCHANGED progress

(* A command, a handler, or a client that has been idle for too long.      *)
Kick(a) ==
    /\ FindSession(world, a) # None
    /\ Between(KickPlayer(world, FindSession(world, a)))
    /\ UNCHANGED progress

KickAll ==
    /\ Between(Close([world EXCEPT !.queued = <<>>],
                     UNION {Held(world, FindSession(world, a)) : a \in Listed(world)}))
    /\ UNCHANGED progress

ToleranceEnds(a) ==
    /\ a \in world.disconnects
    /\ Between([world EXCEPT !.disconnects = @ \ {a}])
    /\ UNCHANGED progress

-----------------------------------------------------------------------------
Next ==
    \/ UpdateSessions
    \/ Execute
    \/ KickAll
    \/ \E s \in Sessions : HandleAuthSessionCallback(s) \/ AddSession(s)
    \/ \E k \in Sockets :
        \/ AddInstanceSocket(k) \/ QueuePacket(k) \/ HandleConnectToFailed(k)
        \/ LoseConnection(k)
    \/ \E a \in Accounts :
        \/ Play(a) \/ Save(a) \/ Kick(a) \/ ToleranceEnds(a)

Spec == Init /\ [][Next]_vars

-----------------------------------------------------------------------------
TypeOK ==
    /\ world \in World
    /\ addSessQueue \in Seq(Sessions)
    /\ linkQueue \in Seq(Sockets)
    /\ phase \in {"idle", "links", "linking", "adds", "update", "callbacks"}
    /\ current \in {None} \cup Sockets \cup Sessions
    /\ todo \subseteq Accounts
    /\ progress \in [Accounts -> 0 .. MaxProgress]

Alive(s) == world.ses[s].life \in {"new", "known"}

(* A session is deleted only when nobody can reach it: no network thread   *)
(* is about to hand a packet to it, and the table, the two queues and      *)
(* UpdateSessions do not name it.                                          *)
NoDanglingSession ==
    /\ \A k \in Sockets : ReadsPacket(k) => Alive(k[1])
    /\ \A s \in ToSet(addSessQueue) \cup ToSet(world.queued) : Alive(s)
    /\ \A a \in Listed(world) : Alive(FindSession(world, a))
    /\ phase \in {"callbacks"} => Alive(current)

(* Nobody waits while there is room, nobody waits twice, and who waits is  *)
(* in the table.                                                           *)
WaitsForRoom ==
    /\ IsInjective(world.queued)
    /\ \A s \in ToSet(world.queued) :
        /\ FindSession(world, Account[s]) = s
        /\ world.ses[s].inQueue
    /\ world.queued # <<>> => GetActiveSessionCount(world) >= Limit

Active(s) == s \in Range(world.sessions) \ ToSet(world.queued)

Entitled(s) == s \in Exempt \/ Account[s] \in world.disconnects

(* Who gets in finds room, or has a right to do without; those who get in  *)
(* by such a right in the same step take nobody's place.                   *)
Admission ==
    [][\A s \in Sessions :
        ~Active(s) /\ Active(s)' =>
            \/ Cardinality({t \in Sessions :
                    Active(t)' /\ (Active(t) \/ ~Entitled(t))}) <= Limit
            \/ Entitled(s)
            \/ ~IsOpen(world', Realm(s))]_vars

(* "each account can only have one online character at any given time"     *)
OneOnlineCharacter ==
    \A a \in Accounts : world.players[a] <= 1

LastSaved(a) ==
    LET saves == {i \in DOMAIN world.db :
                    world.db[i].save /\ Account[world.db[i].of] = a}
    IN IF saves = {} THEN world.saved[a] ELSE world.db[Max(saves)].at

(* What a character has achieved is never lost: while it is played the     *)
(* player has it, and afterwards the next login query will find it.        *)
ProgressKept ==
    \A a \in Accounts :
        LET s == FindSession(world, a) IN
        IF s # None /\ world.ses[s].player
        THEN world.ses[s].at = progress[a]
        ELSE LastSaved(a) = progress[a]
=============================================================================
