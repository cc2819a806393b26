------------------------ MODULE WorldSessionsProofs ------------------------
(***************************************************************************)
(* Proofs about the sessions of the world server, for any number of        *)
(* clients and accounts and any limit.  There are two inductive            *)
(* invariants.  TableInv needs nothing of the clients and is about who is  *)
(* in m_sessions and who waits: nobody waits while there is room, and, as  *)
(* the last part shows, nobody gets in beyond it without a right to.       *)
(* SessionsInv, for clients that do not report a failed connection that    *)
(* the server has accepted, adds the sockets, the login queries and the    *)
(* characters: a deleted session is out of reach, an account has one       *)
(* character online, and what it achieved is kept.                         *)
(***************************************************************************)
EXTENDS WorldSessions, FiniteSetTheorems, FunctionTheorems, SequenceTheorems, TLAPS

IsListed(w, s) == w.sessions[Account[s]] = s

(* A session that has not got beyond its place in the table.               *)
Idle(session) ==
    /\ ~session.loading
    /\ ~session.player
    /\ session.loaded = <<>>
    /\ session.instance = 0

TableSound(w) ==
    /\ \A a \in Accounts : w.sessions[a] # None =>
        /\ Account[w.sessions[a]] = a
        /\ w.ses[w.sessions[a]].life = "known"
    /\ \A s \in Sessions : ~IsListed(w, s) => Idle(w.ses[s])

(* Who waits is in the table, once, and waits for a reason.                *)
QueueSound(w) ==
    /\ \A i, j \in DOMAIN w.queued : w.queued[i] = w.queued[j] => i = j
    /\ \A i \in DOMAIN w.queued :
        IsListed(w, w.queued[i]) /\ w.ses[w.queued[i]].inQueue
    /\ w.queued # <<>> => GetActiveSessionCount(w) >= Limit /\ Limit > 0

Plays(w, a) == w.sessions[a] # None /\ w.ses[w.sessions[a]].player

PlayersEnough(w) == \A a \in Accounts : Plays(w, a) => w.players[a] > 0

(* A login query whose session is still there to get the answer.           *)
IsQuery(w, i) == ~w.db[i].save /\ w.ses[w.db[i].of].life # "deleted"

QueriesListed(w) ==
    \A i \in DOMAIN w.db : IsQuery(w, i) => IsListed(w, w.db[i].of)

(* What the queues and the loops of UpdateSessions hold.                   *)
AddsSound ==
    /\ \A i, j \in DOMAIN addSessQueue : addSessQueue[i] = addSessQueue[j] => i = j
    /\ \A i \in DOMAIN addSessQueue :
        /\ world.ses[addSessQueue[i]].life = "known"
        /\ ~IsListed(world, addSessQueue[i])

UpdateSound ==
    /\ phase = "linking" => current \in Sockets /\ IsListed(world, current[1])
    /\ phase = "callbacks" =>
        /\ current \in Sessions
        /\ IsListed(world, current)
        /\ Account[current] \notin todo
    /\ phase \in {"update", "callbacks"} => todo \subseteq Listed(world)

TableInv ==
    /\ TypeOK
    /\ TableSound(world)
    /\ QueueSound(world)
    /\ PlayersEnough(world)
    /\ QueriesListed(world)
    /\ AddsSound
    /\ UpdateSound

(* A network thread may hand a packet to the session of a socket.          *)
Reads(w, k) == IsOpen(w, k) /\ w.sock[k].session

(* A socket is read from while its session holds it; the second one is     *)
(* that of the last key, and its login goes on or is over.                 *)
SocketsSound(w) ==
    /\ \A s \in Sessions :
        w.ses[s].realm \/ w.ses[s].instance # 0 => w.ses[s].life \in {"new", "known"}
    /\ \A k \in Sockets :
        /\ w.sock[k].state = "none" => ~w.sock[k].session
        /\ Reads(w, k) /\ k[2] = 0 => w.ses[k[1]].realm
        /\ Reads(w, k) /\ k[2] # 0 =>
            /\ w.ses[k[1]].instance = k[2]
            /\ w.ses[k[1]].keys = k[2]
            /\ w.ses[k[1]].loading \/ w.ses[k[1]].player

(* The connections that have yet to join their sessions.                   *)
Links(links, linking) ==
    {links[i] : i \in DOMAIN links} \cup linking

Linking == IF phase = "linking" THEN {current} ELSE {}

LinksSound ==
    /\ \A i, j \in DOMAIN linkQueue : linkQueue[i] = linkQueue[j] => i = j
    /\ \A i \in DOMAIN linkQueue : linkQueue[i] \notin Linking
    /\ \A k \in Links(linkQueue, Linking) :
        /\ k[2] # 0
        /\ world.sock[k].state # "none"
        /\ ~world.sock[k].session
    /\ phase = "linking" => current[2] = world.ses[current[1]].keys

(* A login that has used the last key of its session.                      *)
Awaits(w, s, links) ==
    /\ IsListed(w, s)
    /\ w.ses[s].loading
    /\ ~w.ses[s].player
    /\ w.sock[<<s, w.ses[s].keys>>].state # "none"
    /\ <<s, w.ses[s].keys>> \notin links

SavesAccount(w, i, a) == w.db[i].save /\ Account[w.db[i].of] = a

(* A login has one query, which finds all that was saved before.           *)
QueriesSound(w, links) ==
    /\ \A i \in DOMAIN w.db : IsQuery(w, i) =>
        /\ Awaits(w, w.db[i].of, links)
        /\ w.ses[w.db[i].of].loaded = <<>>
        /\ \A j \in DOMAIN w.db : j > i =>
            /\ ~SavesAccount(w, j, Account[w.db[i].of])
            /\ ~(IsQuery(w, j) /\ w.db[j].of = w.db[i].of)
    /\ \A s \in Sessions : w.ses[s].loaded # <<>> =>
        Awaits(w, s, links) /\ Len(w.ses[s].loaded) = 1

PlayersExact(w) ==
    \A a \in Accounts : w.players[a] = IF Plays(w, a) THEN 1 ELSE 0

(* The last save of the account, or what was saved before.                 *)
Finds(w, a, achieved) ==
    \/ /\ w.saved[a] = achieved
       /\ \A i \in DOMAIN w.db : ~SavesAccount(w, i, a)
    \/ \E i \in DOMAIN w.db :
        /\ SavesAccount(w, i, a)
        /\ w.db[i].at = achieved
        /\ \A j \in DOMAIN w.db : j > i => ~SavesAccount(w, j, a)

ProgressSound(w, achieved) ==
    /\ \A a \in Accounts :
        IF Plays(w, a) THEN w.ses[w.sessions[a]].at = achieved[a]
        ELSE Finds(w, a, achieved[a])
    /\ \A s \in Sessions : w.ses[s].loaded # <<>> =>
        w.ses[s].loaded[1] = achieved[Account[s]]

SessionsInv ==
    /\ TableInv
    /\ SocketsSound(world)
    /\ LinksSound
    /\ QueriesSound(world, Links(linkQueue, Linking))
    /\ PlayersExact(world)
    /\ ProgressSound(world, progress)

-----------------------------------------------------------------------------
(* The invariants of a world, and what they read of it.                    *)

TableWorld(w) ==
    /\ TableSound(w)
    /\ QueueSound(w)
    /\ PlayersEnough(w)
    /\ QueriesListed(w)

FullWorld(w, links, achieved) ==
    /\ TableWorld(w)
    /\ SocketsSound(w)
    /\ QueriesSound(w, links)
    /\ PlayersExact(w)
    /\ ProgressSound(w, achieved)

(* No connection is new, nor handed to its session.                        *)
SocketsLess(w, n) ==
    \A k \in Sockets :
        /\ n.sock[k].state = "none" <=> w.sock[k].state = "none"
        /\ n.sock[k].session => w.sock[k].session
        /\ IsOpen(n, k) => IsOpen(w, k)
        /\ Reads(n, k) => Reads(w, k)

(* The two states of a session differ in the packets that it has to handle. *)
SameSession(x, y) ==
    /\ y.life = x.life /\ y.inQueue = x.inQueue
    /\ y.loading = x.loading /\ y.loaded = x.loaded /\ y.keys = x.keys
    /\ y.player = x.player /\ y.at = x.at
    /\ y.realm = x.realm /\ y.instance = x.instance

SameTable(w, n) == n.sessions = w.sessions /\ n.queued = w.queued

SameData(w, n) == n.players = w.players /\ n.db = w.db /\ n.saved = w.saved

(* Nothing but the loss of connections, and packets.                       *)
Quiet(w, n) ==
    /\ n \in World
    /\ SameTable(w, n) /\ SameData(w, n)
    /\ \A s \in Sessions : SameSession(w.ses[s], n.ses[s])
    /\ SocketsLess(w, n)

(* What the queues and the loops rely on.                                  *)
Stays(w, n) ==
    /\ n.sessions = w.sessions
    /\ \A s \in Sessions : w.ses[s].life = "known" => n.ses[s].life = "known"

(* What is in a world.                                                     *)
LEMMA WorldFields ==
    ASSUME NEW w \in World
    PROVE  /\ w.ses \in [Sessions -> SessionState]
           /\ w.sock \in [Sockets -> SocketState]
           /\ w.sessions \in [Accounts -> Sessions \cup {None}]
           /\ w.queued \in Seq(Sessions)
           /\ w.disconnects \in SUBSET Accounts
           /\ w.players \in [Accounts -> Nat]
           /\ w.db \in Seq(Task)
           /\ w.saved \in [Accounts -> 0 .. MaxProgress]
    BY DEF World

(* What is in the state of a session.                                      *)
LEMMA SessionFields ==
    ASSUME NEW x \in SessionState
    PROVE  /\ x.life \in {"none", "new", "known", "deleted"}
           /\ x.inQueue \in BOOLEAN
           /\ x.wants \in {"nothing", "login", "logout"}
           /\ x.loading \in BOOLEAN
           /\ x.loaded \in Seq(0 .. MaxProgress)
           /\ x.keys \in 0 .. MaxKeys
           /\ x.player \in BOOLEAN
           /\ x.at \in 0 .. MaxProgress
           /\ x.realm \in BOOLEAN
           /\ x.instance \in 0 .. MaxKeys
    BY DEF SessionState

(* What is in the two queues of a world.                                   *)
LEMMA QueuesFields ==
    ASSUME NEW w \in World
    PROVE  /\ \A i \in DOMAIN w.queued : w.queued[i] \in Sessions
           /\ \A i \in DOMAIN w.db :
                /\ w.db[i] \in Task
                /\ w.db[i].save \in BOOLEAN
                /\ w.db[i].of \in Sessions
                /\ w.db[i].at \in 0 .. MaxProgress
                /\ Account[w.db[i].of] \in Accounts
<1>1. w.queued \in Seq(Sessions) /\ w.db \in Seq(Task)
    BY DEF World
<1>2. \A i \in DOMAIN w.db : w.db[i] \in Task
    BY <1>1
<1>3. Account \in [Sessions -> Accounts]
    BY SessionsAssumption
<1> QED
    BY <1>1, <1>2, <1>3 DEF Task

(* The accounts in the table have sessions.                                *)
LEMMA ListedSessions ==
    ASSUME NEW w \in World, TableSound(w), NEW a \in Accounts, w.sessions[a] # None
    PROVE  w.sessions[a] \in Sessions /\ IsListed(w, w.sessions[a])
    BY SessionsAssumption DEF TableSound, IsListed, World

(* A quiet change keeps what is said of the table ...                      *)
LEMMA QuietTable ==
    ASSUME NEW w \in World, NEW n, Quiet(w, n), TableWorld(w)
    PROVE  TableWorld(n)
<1>1. TableSound(n)
  <2>1. \A s \in Sessions : Idle(w.ses[s]) => Idle(n.ses[s])
      BY DEF Quiet, SameSession, Idle
  <2>2. \A s \in Sessions : IsListed(n, s) <=> IsListed(w, s)
      BY DEF Quiet, SameTable, IsListed
  <2>3. \A a \in Accounts : n.sessions[a] # None =>
            Account[n.sessions[a]] = a /\ n.ses[n.sessions[a]].life = "known"
    <3> SUFFICES ASSUME NEW a \in Accounts, n.sessions[a] # None
                 PROVE  /\ Account[n.sessions[a]] = a
                        /\ n.ses[n.sessions[a]].life = "known"
        OBVIOUS
    <3>1. n.sessions = w.sessions /\ w.sessions[a] \in Sessions
        BY DEF Quiet, SameTable, World
    <3> QED
        BY <3>1 DEF TableWorld, TableSound, Quiet, SameSession
  <2> QED
      BY <2>1, <2>2, <2>3 DEF TableWorld, TableSound
<1>2. QueueSound(n)
  <2>1. n.queued = w.queued /\ n.sessions = w.sessions
      BY DEF Quiet, SameTable
  <2>2. \A i \in DOMAIN w.queued : w.queued[i] \in Sessions
      BY DEF World
  <2>3. \A s \in Sessions : n.ses[s].inQueue = w.ses[s].inQueue
      BY DEF Quiet, SameSession
  <2> QED
      BY <2>1, <2>2, <2>3 DEF TableWorld, QueueSound, IsListed, GetActiveSessionCount,
         Listed
<1>3. PlayersEnough(n)
  <2>1. n.players = w.players /\ n.sessions = w.sessions
      BY DEF Quiet, SameTable, SameData
  <2>2. \A a \in Accounts : w.sessions[a] \in Sessions \cup {None}
      BY DEF World
  <2>3. \A s \in Sessions : n.ses[s].player = w.ses[s].player
      BY DEF Quiet, SameSession
  <2> QED
      BY <2>1, <2>2, <2>3 DEF TableWorld, PlayersEnough, Plays
<1>4. QueriesListed(n)
  <2>1. n.db = w.db /\ n.sessions = w.sessions
      BY DEF Quiet, SameTable, SameData
  <2>2. \A i \in DOMAIN w.db : w.db[i].of \in Sessions
      BY QueuesFields
  <2>3. \A s \in Sessions : n.ses[s].life = w.ses[s].life
      BY DEF Quiet, SameSession
  <2> QED
      BY <2>1, <2>2, <2>3 DEF TableWorld, QueriesListed, IsQuery, IsListed
<1> QED
    BY <1>1, <1>2, <1>3, <1>4 DEF TableWorld

(* ... and of the rest of the world.                                       *)
LEMMA QuietFull ==
    ASSUME NEW w \in World, NEW n, Quiet(w, n), NEW links, NEW achieved,
           FullWorld(w, links, achieved)
    PROVE  FullWorld(n, links, achieved)
<1>1. TableWorld(n)
    BY QuietTable DEF FullWorld
<1> \A s \in Sessions : SameSession(w.ses[s], n.ses[s])
    BY DEF Quiet
<1> \A k \in Sockets : k[1] \in Sessions
    BY DEF Sockets
<1>2. SocketsSound(n)
    BY DEF FullWorld, SocketsSound, Quiet, SocketsLess, SameSession
<1> n.db = w.db /\ n.sessions = w.sessions /\ n.players = w.players /\ n.saved = w.saved
    BY DEF Quiet, SameTable, SameData
<1> \A i \in DOMAIN w.db : w.db[i].of \in Sessions
    BY QueuesFields
<1>a. \A s \in Sessions : w.ses[s].keys \in 0 .. MaxKeys
    BY DEF World, SessionState
<1>b. \A s \in Sessions : Awaits(w, s, links) => Awaits(n, s, links)
  <2> SUFFICES ASSUME NEW s \in Sessions, Awaits(w, s, links)
               PROVE  Awaits(n, s, links)
      OBVIOUS
  <2>1. <<s, w.ses[s].keys>> \in Sockets /\ n.ses[s].keys = w.ses[s].keys
      BY <1>a DEF Sockets, SameSession
  <2>2. n.sock[<<s, w.ses[s].keys>>].state # "none"
      BY <2>1 DEF Quiet, SocketsLess, Awaits
  <2>3. n.ses[s].loading /\ ~n.ses[s].player /\ IsListed(n, s)
      BY DEF SameSession, Awaits, IsListed
  <2> QED
      BY <2>1, <2>2, <2>3 DEF Awaits
<1>3. QueriesSound(n, links)
  <2>1. \A i \in DOMAIN w.db : IsQuery(n, i) <=> IsQuery(w, i)
      BY DEF IsQuery, SameSession
  <2>2. \A s \in Sessions : n.ses[s].loaded = w.ses[s].loaded
      BY DEF SameSession
  <2>3. QueriesSound(w, links)
      BY DEF FullWorld
  <2> QED
      BY <2>1, <2>2, <2>3, <1>b DEF QueriesSound, SavesAccount
<1>c. \A a \in Accounts : Plays(n, a) <=> Plays(w, a)
    BY DEF Plays, SameSession, World
<1>4. PlayersExact(n)
    BY <1>c DEF FullWorld, PlayersExact
<1>5. ProgressSound(n, achieved)
  <2>1. ProgressSound(w, achieved)
      BY DEF FullWorld
  <2>2. \A s \in Sessions : n.ses[s].loaded = w.ses[s].loaded /\ n.ses[s].at = w.ses[s].at
      BY DEF SameSession
  <2>3. \A a \in Accounts : Plays(w, a) => w.sessions[a] \in Sessions
      BY DEF Plays, World
  <2>4. \A a \in Accounts : Finds(n, a, achieved[a]) <=> Finds(w, a, achieved[a])
      BY DEF Finds, SavesAccount
  <2> QED
      BY <2>1, <2>2, <2>3, <2>4, <1>c DEF ProgressSound
<1> QED
    BY <1>1, <1>2, <1>3, <1>4, <1>5 DEF FullWorld

-----------------------------------------------------------------------------
(* What the methods do.                                                    *)

(* Close closes those of its sockets that are open.                        *)
LEMMA CloseFacts ==
    ASSUME NEW w \in World, NEW socks
    PROVE  LET n == Close(w, socks) IN
           /\ n \in World
           /\ n = [w EXCEPT !.sock = n.sock]
           /\ n.ses = w.ses /\ n.sessions = w.sessions /\ n.queued = w.queued
           /\ n.disconnects = w.disconnects /\ n.players = w.players
           /\ n.db = w.db /\ n.saved = w.saved
           /\ SocketsLess(w, n)
           /\ \A k \in Sockets : k \in socks => ~IsOpen(n, k)
<1> DEFINE n == Close(w, socks)
           closed == [k \in Sockets |->
                        IF k \in socks /\ IsOpen(w, k)
                        THEN [w.sock[k] EXCEPT !.state = "closed", !.session = FALSE]
                        ELSE w.sock[k]]
<1>1. n = [w EXCEPT !.sock = closed]
    BY DEF Close
<1>2. closed \in [Sockets -> SocketState]
    BY DEF World, SocketState
<1> \A k \in Sockets : w.sock[k] \in SocketState
    BY DEF World
<1>3. \A k \in Sockets :
        /\ closed[k].state = "none" <=> w.sock[k].state = "none"
        /\ closed[k].session => w.sock[k].session
        /\ closed[k].state = "open" => w.sock[k].state = "open"
        /\ closed[k].state = "open" /\ closed[k].session =>
            w.sock[k].state = "open" /\ w.sock[k].session
        /\ k \in socks => closed[k].state # "open"
    BY DEF SocketState, IsOpen
<1> HIDE DEF closed
<1>4. n.sock = closed /\ n \in World
    BY <1>1, <1>2 DEF World
<1>5. n = [w EXCEPT !.sock = n.sock]
    BY <1>1, <1>4
<1>6. /\ n.ses = w.ses /\ n.sessions = w.sessions /\ n.queued = w.queued
      /\ n.disconnects = w.disconnects /\ n.players = w.players
      /\ n.db = w.db /\ n.saved = w.saved
    BY <1>1 DEF World
<1> HIDE DEF n
<1>7. SocketsLess(w, n)
    BY <1>3, <1>4 DEF SocketsLess, Reads, IsOpen
<1>8. \A k \in Sockets : k \in socks => ~IsOpen(n, k)
    BY <1>3, <1>4 DEF IsOpen
<1> QED
    BY <1>4, <1>5, <1>6, <1>7, <1>8 DEF n

(* Quiet changes add up.                                                   *)
LEMMA QuietTwice ==
    ASSUME NEW w, NEW m, NEW n, Quiet(w, m), Quiet(m, n)
    PROVE  Quiet(w, n)
<1>1. \A s \in Sessions : SameSession(w.ses[s], n.ses[s])
    BY DEF Quiet, SameSession
<1>2. SocketsLess(w, n)
    BY DEF Quiet, SocketsLess
<1> QED
    BY <1>1, <1>2 DEF Quiet, SameTable, SameData

(* To close sockets is quiet,                                              *)
LEMMA CloseQuiet ==
    ASSUME NEW w \in World, NEW socks
    PROVE  Quiet(w, Close(w, socks))
<1> DEFINE n == Close(w, socks)
<1>1. /\ n \in World
      /\ n.ses = w.ses /\ n.sessions = w.sessions /\ n.queued = w.queued
      /\ n.players = w.players /\ n.db = w.db /\ n.saved = w.saved
      /\ SocketsLess(w, n)
    BY CloseFacts
<1> HIDE DEF n
<1>2. \A s \in Sessions : SameSession(w.ses[s], n.ses[s])
    BY <1>1 DEF SameSession
<1> QED
    BY <1>1, <1>2 DEF Quiet, SameTable, SameData, n

(* and so is to kick.                                                      *)
LEMMA KickQuiet ==
    ASSUME NEW w \in World, NEW s
    PROVE  KickPlayer(w, s) \in World /\ Quiet(w, KickPlayer(w, s))
    BY CloseQuiet DEF KickPlayer, Quiet

(* The state of one session changes.                                       *)
SetSession(w, s, x) == [w EXCEPT !.ses = [w.ses EXCEPT ![s] = x]]

(* Such a world, field by field.                                           *)
LEMMA SetSessionFacts ==
    ASSUME NEW w \in World, NEW s \in Sessions, NEW x \in SessionState
    PROVE  LET n == SetSession(w, s, x) IN
           /\ n \in World
           /\ n.ses[s] = x
           /\ \A t \in Sessions : t # s => n.ses[t] = w.ses[t]
           /\ n.sock = w.sock /\ n.sessions = w.sessions /\ n.queued = w.queued
           /\ n.disconnects = w.disconnects /\ n.players = w.players
           /\ n.db = w.db /\ n.saved = w.saved
<1> DEFINE n == SetSession(w, s, x)
<1>1. [w.ses EXCEPT ![s] = x] \in [Sessions -> SessionState]
    BY DEF World
<1>2. n \in World
    BY <1>1 DEF SetSession, World
<1>3. n.ses = [w.ses EXCEPT ![s] = x] /\ w.ses \in [Sessions -> SessionState]
    BY DEF SetSession, World
<1>4. /\ n.sock = w.sock /\ n.sessions = w.sessions /\ n.queued = w.queued
      /\ n.disconnects = w.disconnects /\ n.players = w.players
      /\ n.db = w.db /\ n.saved = w.saved
    BY DEF SetSession, World
<1> HIDE DEF n
<1> QED
    BY <1>2, <1>3, <1>4 DEF n

(* A packet is put down, or taken up.                                      *)
LEMMA WantsQuiet ==
    ASSUME NEW w \in World, NEW s \in Sessions,
           NEW want \in {"nothing", "login", "logout"}
    PROVE  Quiet(w, [w EXCEPT !.ses[s].wants = want])
<1> DEFINE x == [w.ses[s] EXCEPT !.wants = want]
           n == SetSession(w, s, x)
<1>1. [w EXCEPT !.ses[s].wants = want] = n
    BY DEF SetSession, World
<1>2. w.ses[s] \in SessionState
    BY DEF World
<1>3. x \in SessionState
    BY <1>2 DEF SessionState
<1>7. SameSession(w.ses[s], x)
    BY <1>2 DEF SessionState, SameSession
<1> HIDE DEF x
<1>4. /\ n \in World
      /\ n.ses[s] = x
      /\ \A t \in Sessions : t # s => n.ses[t] = w.ses[t]
      /\ n.sock = w.sock /\ n.sessions = w.sessions /\ n.queued = w.queued
      /\ n.players = w.players /\ n.db = w.db /\ n.saved = w.saved
    BY <1>3, SetSessionFacts
<1> HIDE DEF n
<1>5. \A t \in Sessions : SameSession(w.ses[t], n.ses[t])
    BY <1>4, <1>7 DEF SameSession
<1>6. SocketsLess(w, n)
    BY <1>4 DEF SocketsLess, Reads, IsOpen
<1> QED
    BY <1>1, <1>4, <1>5, <1>6 DEF Quiet, SameTable, SameData

(* What is listed as an account's end of tolerance is nobody's concern.    *)
LEMMA DisconnectsQuiet ==
    ASSUME NEW w \in World, NEW d \in SUBSET Accounts
    PROVE  Quiet(w, [w EXCEPT !.disconnects = d])
<1> DEFINE n == [w EXCEPT !.disconnects = d]
<1>1. /\ n \in World
      /\ n.ses = w.ses /\ n.sock = w.sock /\ n.sessions = w.sessions
      /\ n.queued = w.queued
      /\ n.players = w.players /\ n.db = w.db /\ n.saved = w.saved
    BY DEF World
<1> HIDE DEF n
<1>2. \A t \in Sessions : SameSession(w.ses[t], n.ses[t])
    BY <1>1 DEF SameSession
<1>3. SocketsLess(w, n)
    BY <1>1 DEF SocketsLess, Reads, IsOpen
<1> QED
    BY <1>1, <1>2, <1>3 DEF Quiet, SameTable, SameData, n

-----------------------------------------------------------------------------
Posted(w, task) == [w EXCEPT !.db = Append(w.db, task)]

SetPlayers(w, a, count) == [w EXCEPT !.players = [w.players EXCEPT ![a] = count]]

(* What it is to post a task,                                              *)
LEMMA PostedFacts ==
    ASSUME NEW w \in World, NEW task \in Task
    PROVE  LET n == Posted(w, task) IN
           /\ n \in World
           /\ n.db = Append(w.db, task)
           /\ n.ses = w.ses /\ n.sock = w.sock /\ n.sessions = w.sessions
           /\ n.queued = w.queued /\ n.disconnects = w.disconnects
           /\ n.players = w.players /\ n.saved = w.saved
<1> DEFINE n == Posted(w, task)
<1>1. Append(w.db, task) \in Seq(Task)
    BY DEF World
<1>2. n \in World
    BY <1>1 DEF Posted, World
<1>3. /\ n.db = Append(w.db, task)
      /\ n.ses = w.ses /\ n.sock = w.sock /\ n.sessions = w.sessions
      /\ n.queued = w.queued /\ n.disconnects = w.disconnects
      /\ n.players = w.players /\ n.saved = w.saved
    BY DEF Posted, World
<1> QED
    BY <1>2, <1>3

(* to count the characters of an account,                                  *)
LEMMA SetPlayersFacts ==
    ASSUME NEW w \in World, NEW a \in Accounts, NEW count \in Nat
    PROVE  LET n == SetPlayers(w, a, count) IN
           /\ n \in World
           /\ \A b \in Accounts : n.players[b] = IF b = a THEN count ELSE w.players[b]
           /\ n.ses = w.ses /\ n.sock = w.sock /\ n.sessions = w.sessions
           /\ n.queued = w.queued /\ n.disconnects = w.disconnects
           /\ n.db = w.db /\ n.saved = w.saved
<1> DEFINE n == SetPlayers(w, a, count)
<1>1. [w.players EXCEPT ![a] = count] \in [Accounts -> Nat]
    BY DEF World
<1>2. n \in World
    BY <1>1 DEF SetPlayers, World
<1>3. n.players = [w.players EXCEPT ![a] = count] /\ w.players \in [Accounts -> Nat]
    BY DEF SetPlayers, World
<1>4. \A b \in Accounts : n.players[b] = IF b = a THEN count ELSE w.players[b]
    BY <1>3
<1>5. /\ n.ses = w.ses /\ n.sock = w.sock /\ n.sessions = w.sessions
      /\ n.queued = w.queued /\ n.disconnects = w.disconnects
      /\ n.db = w.db /\ n.saved = w.saved
    BY DEF SetPlayers, World
<1> QED
    BY <1>2, <1>4, <1>5

SaveTask(w, s) == [save |-> TRUE, of |-> s, at |-> w.ses[s].at]

(* and to save a character.                                                *)
LEMMA SaveTaskType ==
    ASSUME NEW w \in World, NEW s \in Sessions
    PROVE  /\ SaveTask(w, s) \in Task
           /\ SaveToDB(w, s) = Posted(w, SaveTask(w, s))
    BY DEF SaveTask, Task, SaveToDB, Posted, World, SessionState

(* The player goes: it is saved, and counts no more.                       *)
PlayerGone(w, n, s) ==
    IF w.ses[s].player
    THEN /\ n.db = Append(w.db, SaveTask(w, s))
         /\ \A a \in Accounts :
             n.players[a] = IF a = Account[s] THEN w.players[a] - 1 ELSE w.players[a]
    ELSE n.db = w.db /\ n.players = w.players

(* The world without the player of s.                                      *)
Out(w, s) ==
    IF w.ses[s].player
    THEN SetPlayers(
            SetSession(SaveToDB(w, s), s,
                [w.ses[s] EXCEPT !.player = FALSE, !.at = 0]),
            Account[s], w.players[Account[s]] - 1)
    ELSE w

(* The rest of the session stays as it is.                                 *)
LEMMA OutFacts ==
    ASSUME NEW w \in World, NEW s \in Sessions,
           w.ses[s].player => w.players[Account[s]] > 0
    PROVE  LET n == Out(w, s) IN
           /\ n \in World
           /\ PlayerGone(w, n, s)
           /\ n.ses[s].life = w.ses[s].life /\ n.ses[s].inQueue = w.ses[s].inQueue
           /\ n.ses[s].loading = w.ses[s].loading /\ n.ses[s].loaded = w.ses[s].loaded
           /\ n.ses[s].keys = w.ses[s].keys /\ ~n.ses[s].player
           /\ n.ses[s].realm = w.ses[s].realm
           /\ n.ses[s].instance = w.ses[s].instance
           /\ \A t \in Sessions : t # s => n.ses[t] = w.ses[t]
           /\ n.sock = w.sock /\ n.sessions = w.sessions /\ n.queued = w.queued
           /\ n.disconnects = w.disconnects /\ n.saved = w.saved
<1> DEFINE x == [w.ses[s] EXCEPT !.player = FALSE, !.at = 0]
           m == Posted(w, SaveTask(w, s))
           o == SetSession(m, s, x)
           c == w.players[Account[s]] - 1
           p == SetPlayers(o, Account[s], c)
<1> Account[s] \in Accounts
    BY SessionsAssumption
<1>1. CASE ~w.ses[s].player
  <2>1. Out(w, s) = w
      BY <1>1 DEF Out
  <2> QED
      BY <1>1, <2>1 DEF PlayerGone
<1>2. CASE w.ses[s].player
  <2>1. Out(w, s) = p
      BY <1>2, SaveTaskType DEF Out
  <2>2. w.ses[s] \in SessionState /\ 0 \in 0 .. MaxProgress
      BY SessionsAssumption DEF World
  <2>3. x \in SessionState
      BY <2>2 DEF SessionState
  <2>4. /\ x.life = w.ses[s].life /\ x.inQueue = w.ses[s].inQueue
        /\ x.loading = w.ses[s].loading /\ x.loaded = w.ses[s].loaded
        /\ x.keys = w.ses[s].keys /\ ~x.player
        /\ x.realm = w.ses[s].realm /\ x.instance = w.ses[s].instance
      BY <2>2 DEF SessionState
  <2>5. c \in Nat
      BY <1>2 DEF World
  <2> HIDE DEF x, c
  <2>6. /\ m \in World /\ m.db = Append(w.db, SaveTask(w, s))
        /\ m.ses = w.ses /\ m.sock = w.sock /\ m.sessions = w.sessions
        /\ m.queued = w.queued /\ m.disconnects = w.disconnects
        /\ m.players = w.players /\ m.saved = w.saved
      BY SaveTaskType, PostedFacts
  <2> HIDE DEF m
  <2>7. /\ o \in World
        /\ o.ses[s] = x
        /\ \A t \in Sessions : t # s => o.ses[t] = m.ses[t]
        /\ o.sock = m.sock /\ o.sessions = m.sessions /\ o.queued = m.queued
        /\ o.disconnects = m.disconnects /\ o.players = m.players
        /\ o.db = m.db /\ o.saved = m.saved
      BY <2>3, <2>6, SetSessionFacts
  <2> HIDE DEF o
  <2>8. /\ p \in World
        /\ \A b \in Accounts : p.players[b] = IF b = Account[s] THEN c ELSE o.players[b]
        /\ p.ses = o.ses /\ p.sock = o.sock /\ p.sessions = o.sessions
        /\ p.queued = o.queued /\ p.disconnects = o.disconnects
        /\ p.db = o.db /\ p.saved = o.saved
      BY <2>5, <2>7, SetPlayersFacts
  <2> HIDE DEF p
  <2>9. PlayerGone(w, p, s)
    <3>1. \A b \in Accounts :
            p.players[b] = IF b = Account[s] THEN w.players[b] - 1 ELSE w.players[b]
        BY <2>6, <2>7, <2>8 DEF c
    <3>2. p.db = Append(w.db, SaveTask(w, s))
        BY <2>6, <2>7, <2>8
    <3> QED
        BY <1>2, <3>1, <3>2 DEF PlayerGone
  <2> QED
      BY <2>1, <2>4, <2>6, <2>7, <2>8, <2>9
<1> QED
    BY <1>1, <1>2

(* A log out also lets the second connection go.                           *)
LEMMA LogoutFacts ==
    ASSUME NEW w \in World, NEW s \in Sessions,
           w.ses[s].player => w.players[Account[s]] > 0
    PROVE  LET n == LogoutPlayer(w, s) IN
           /\ n \in World
           /\ PlayerGone(w, n, s)
           /\ n.ses[s].life = w.ses[s].life /\ n.ses[s].inQueue = w.ses[s].inQueue
           /\ n.ses[s].loading = w.ses[s].loading /\ n.ses[s].loaded = w.ses[s].loaded
           /\ n.ses[s].keys = w.ses[s].keys /\ ~n.ses[s].player
           /\ n.ses[s].realm = w.ses[s].realm
           /\ n.ses[s].instance = 0
           /\ \A t \in Sessions : t # s => n.ses[t] = w.ses[t]
           /\ n.sessions = w.sessions /\ n.queued = w.queued
           /\ n.disconnects = w.disconnects /\ n.saved = w.saved
           /\ SocketsLess(w, n)
           /\ \A k \in InstanceHeld(w, s) : k \in Sockets => ~IsOpen(n, k)
<1> DEFINE o == Out(w, s)
           c == Close(o, InstanceHeld(w, s))
           x == [c.ses[s] EXCEPT !.instance = 0]
           n == SetSession(c, s, x)
<1>1. LogoutPlayer(w, s) = n
  <2>1. o = IF w.ses[s].player
            THEN [SaveToDB(w, s) EXCEPT
                    !.ses[s].player = FALSE, !.ses[s].at = 0,
                    !.players[Account[s]] = @ - 1]
            ELSE w
      BY SessionsAssumption
      DEF Out, SetPlayers, SetSession, SaveToDB, World, SessionState
  <2> HIDE DEF o
  <2>2. LogoutPlayer(w, s) = [c EXCEPT !.ses[s].instance = 0]
      BY <2>1 DEF LogoutPlayer
  <2> HIDE DEF c
  <2> QED
      BY <2>2 DEF SetSession
<1>2. /\ o \in World
      /\ PlayerGone(w, o, s)
      /\ o.ses[s].life = w.ses[s].life /\ o.ses[s].inQueue = w.ses[s].inQueue
      /\ o.ses[s].loading = w.ses[s].loading /\ o.ses[s].loaded = w.ses[s].loaded
      /\ o.ses[s].keys = w.ses[s].keys /\ ~o.ses[s].player
      /\ o.ses[s].realm = w.ses[s].realm
      /\ \A t \in Sessions : t # s => o.ses[t] = w.ses[t]
      /\ o.sock = w.sock /\ o.sessions = w.sessions /\ o.queued = w.queued
      /\ o.disconnects = w.disconnects /\ o.saved = w.saved
    BY OutFacts
<1> HIDE DEF o
<1>3. /\ c \in World
      /\ c.ses = o.ses /\ c.sessions = o.sessions /\ c.queued = o.queued
      /\ c.disconnects = o.disconnects /\ c.players = o.players
      /\ c.db = o.db /\ c.saved = o.saved
      /\ SocketsLess(o, c)
      /\ \A k \in Sockets : k \in InstanceHeld(w, s) => ~IsOpen(c, k)
    BY <1>2, CloseFacts
<1> HIDE DEF c
<1>4. c.ses[s] \in SessionState /\ 0 \in 0 .. MaxKeys
    BY <1>3, SessionsAssumption DEF World
<1>5. x \in SessionState
    BY <1>4 DEF SessionState
<1>6. /\ x.life = c.ses[s].life /\ x.inQueue = c.ses[s].inQueue
      /\ x.loading = c.ses[s].loading /\ x.loaded = c.ses[s].loaded
      /\ x.keys = c.ses[s].keys /\ x.player = c.ses[s].player
      /\ x.realm = c.ses[s].realm /\ x.instance = 0
    BY <1>4 DEF SessionState
<1> HIDE DEF x
<1>7. /\ n \in World
      /\ n.ses[s] = x
      /\ \A t \in Sessions : t # s => n.ses[t] = c.ses[t]
      /\ n.sock = c.sock /\ n.sessions = c.sessions /\ n.queued = c.queued
      /\ n.disconnects = c.disconnects /\ n.players = c.players
      /\ n.db = c.db /\ n.saved = c.saved
    BY <1>3, <1>5, SetSessionFacts
<1> HIDE DEF n
<1>8. SocketsLess(w, n)
    BY <1>2, <1>3, <1>7 DEF SocketsLess, Reads, IsOpen
<1>9. \A k \in InstanceHeld(w, s) : k \in Sockets => ~IsOpen(n, k)
    BY <1>3, <1>7 DEF IsOpen
<1>10. PlayerGone(w, n, s)
    BY <1>2, <1>3, <1>7 DEF PlayerGone
<1> QED
    BY <1>1, <1>2, <1>3, <1>6, <1>7, <1>8, <1>9, <1>10

(* What is left of a deleted session.                                      *)
Dead(x, keys) ==
    /\ x.life = "deleted"
    /\ Idle(x)
    /\ ~x.realm
    /\ x.keys = keys

(* A deleted session has let its sockets and its player go.                *)
LEMMA DeleteFacts ==
    ASSUME NEW w \in World, NEW s \in Sessions,
           w.ses[s].player => w.players[Account[s]] > 0
    PROVE  LET n == Delete(w, s) IN
           /\ n \in World
           /\ PlayerGone(w, n, s)
           /\ Dead(n.ses[s], w.ses[s].keys)
           /\ \A t \in Sessions : t # s => n.ses[t] = w.ses[t]
           /\ n.sessions = w.sessions /\ n.queued = w.queued
           /\ n.disconnects = w.disconnects /\ n.saved = w.saved
           /\ SocketsLess(w, n)
           /\ \A k \in Held(w, s) : k \in Sockets => ~IsOpen(n, k)
<1> DEFINE o == IF w.ses[s].player THEN LogoutPlayer(w, s) ELSE w
           c == Close(o, Held(o, s))
           x == [NewSession EXCEPT !.life = "deleted", !.keys = w.ses[s].keys]
           n == SetSession(c, s, x)
<1>1. Delete(w, s) = n
  <2> HIDE DEF c
  <2>1. Delete(w, s) = [c EXCEPT !.ses[s] = x]
      BY DEF Delete, c
  <2> QED
      BY <2>1 DEF SetSession
<1>2. /\ o \in World
      /\ PlayerGone(w, o, s)
      /\ o.ses[s].realm = w.ses[s].realm
      /\ \A t \in Sessions : t # s => o.ses[t] = w.ses[t]
      /\ o.sessions = w.sessions /\ o.queued = w.queued
      /\ o.disconnects = w.disconnects /\ o.saved = w.saved
  <2>1. CASE w.ses[s].player
      BY <2>1, LogoutFacts
  <2>2. CASE ~w.ses[s].player
      BY <2>2 DEF PlayerGone
  <2> QED
      BY <2>1, <2>2
<1>a. SocketsLess(w, o)
  <2>1. CASE w.ses[s].player
      BY <2>1, LogoutFacts
  <2>2. CASE ~w.ses[s].player
      BY <2>2 DEF SocketsLess
  <2> QED
      BY <2>1, <2>2
<1>b. \A k \in Held(w, s) : k \in Sockets => k \in Held(o, s) \/ ~IsOpen(o, k)
  <2>1. CASE w.ses[s].player
    <3>1. /\ \A k \in InstanceHeld(w, s) : k \in Sockets => ~IsOpen(o, k)
        BY <2>1, LogoutFacts
    <3>2. RealmHeld(o, s) = RealmHeld(w, s)
        BY <1>2 DEF RealmHeld
    <3> HIDE DEF o
    <3> QED
        BY <3>1, <3>2 DEF Held
  <2>2. CASE ~w.ses[s].player
      BY <2>2
  <2> QED
      BY <2>1, <2>2
<1> HIDE DEF o
<1>3. /\ c \in World
      /\ c.ses = o.ses /\ c.sessions = o.sessions /\ c.queued = o.queued
      /\ c.disconnects = o.disconnects /\ c.players = o.players
      /\ c.db = o.db /\ c.saved = o.saved
      /\ SocketsLess(o, c)
      /\ \A k \in Sockets : k \in Held(o, s) => ~IsOpen(c, k)
    BY <1>2, CloseFacts
<1>c. \A k \in Sockets : IsOpen(c, k) => IsOpen(o, k)
    BY <1>2 DEF Close, IsOpen, World, SocketState
<1> HIDE DEF c
<1>4. w.ses[s].keys \in 0 .. MaxKeys
    BY DEF World, SessionState
<1>5. x \in SessionState
  <2>1. 0 \in 0 .. MaxKeys /\ 0 \in 0 .. MaxProgress /\ <<>> \in Seq(0 .. MaxProgress)
      BY SessionsAssumption
  <2> QED
      BY <1>4, <2>1 DEF NewSession, SessionState
<1>6. Dead(x, w.ses[s].keys)
    BY DEF NewSession, Dead, Idle
<1> HIDE DEF x
<1>7. /\ n \in World
      /\ n.ses[s] = x
      /\ \A t \in Sessions : t # s => n.ses[t] = c.ses[t]
      /\ n.sock = c.sock /\ n.sessions = c.sessions /\ n.queued = c.queued
      /\ n.disconnects = c.disconnects /\ n.players = c.players
      /\ n.db = c.db /\ n.saved = c.saved
    BY <1>3, <1>5, SetSessionFacts
<1> HIDE DEF n
<1>8. SocketsLess(w, n)
    BY <1>a, <1>3, <1>7 DEF SocketsLess, Reads, IsOpen
<1>9. \A k \in Held(w, s) : k \in Sockets => ~IsOpen(n, k)
    BY <1>b, <1>c, <1>3, <1>7 DEF IsOpen
<1>10. PlayerGone(w, n, s)
    BY <1>2, <1>3, <1>7 DEF PlayerGone
<1> QED
    BY <1>1, <1>2, <1>3, <1>6, <1>7, <1>8, <1>9, <1>10

-----------------------------------------------------------------------------
(* The queue.                                                              *)

(* Who is erased is not in the queue any more, the others are.             *)
LEMMA ErasedFacts ==
    ASSUME NEW q \in Seq(Sessions), NEW s \in Sessions,
           \A i, j \in DOMAIN q : q[i] = q[j] => i = j,
           s \in ToSet(q)
    PROVE  LET e == Erased(q, s) IN
           /\ e \in Seq(Sessions)
           /\ Len(e) = Len(q) - 1
           /\ \A i, j \in DOMAIN e : e[i] = e[j] => i = j
           /\ \A i \in DOMAIN e : e[i] # s /\ \E j \in DOMAIN q : e[i] = q[j]
           /\ \A j \in DOMAIN q : q[j] # s => \E i \in DOMAIN e : e[i] = q[j]
<1> DEFINE p == CHOOSE i \in DOMAIN q : q[i] = s
           before == SubSeq(q, 1, p - 1)
           after == SubSeq(q, p + 1, Len(q))
           e == before \o after
<1>1. p \in 1 .. Len(q) /\ q[p] = s
    BY DEF ToSet
<1>2. Erased(q, s) = e
    BY DEF Erased, RemoveAt
<1> HIDE DEF p
<1>a. /\ before \in Seq(Sessions) /\ Len(before) = p - 1
      /\ \A i \in 1 .. p - 1 : before[i] = q[i]
    BY <1>1
<1>b. /\ after \in Seq(Sessions) /\ Len(after) = Len(q) - p
      /\ \A i \in 1 .. Len(q) - p : after[i] = q[p + i]
    BY <1>1
<1> HIDE DEF before, after
<1>3. e \in Seq(Sessions) /\ Len(e) = Len(q) - 1
  <2>1. e \in Seq(Sessions)
      BY <1>a, <1>b
  <2>a. before \in Seq(Sessions) /\ after \in Seq(Sessions)
      BY <1>a, <1>b
  <2>2. Len(before \o after) = Len(before) + Len(after)
      BY <2>a
  <2>3. Len(q) \in Nat /\ p \in Nat
      BY <1>1
  <2> QED
      BY <1>a, <1>b, <2>1, <2>2, <2>3
<1>4. \A i \in 1 .. Len(q) - 1 : e[i] = IF i < p THEN q[i] ELSE q[i + 1]
  <2> TAKE i \in 1 .. Len(q) - 1
  <2>1. CASE i < p
    <3>1. e[i] = before[i]
        BY <1>1, <1>a, <1>b, <2>1
    <3> QED
        BY <1>1, <1>a, <2>1, <3>1
  <2>2. CASE ~(i < p)
    <3>1. e[i] = after[i - (p - 1)]
        BY <1>1, <1>a, <1>b, <2>2
    <3>2. i - (p - 1) \in 1 .. Len(q) - p /\ p + (i - (p - 1)) = i + 1
        BY <1>1, <2>2
    <3> QED
        BY <1>b, <2>2, <3>1, <3>2
  <2> QED
      BY <2>1, <2>2
<1> HIDE DEF e
<1>5. DOMAIN e = 1 .. Len(q) - 1 /\ DOMAIN q = 1 .. Len(q)
    BY <1>3
<1> DEFINE place(i) == IF i < p THEN i ELSE i + 1
<1>c. \A i \in DOMAIN e : place(i) \in DOMAIN q /\ e[i] = q[place(i)] /\ place(i) # p
    BY <1>1, <1>4, <1>5
<1>d. \A i, j \in DOMAIN e : place(i) = place(j) => i = j
    BY <1>1, <1>5
<1> HIDE DEF place
<1>6. \A i \in DOMAIN e : e[i] # s
    BY <1>1, <1>5, <1>c
<1>7. \A i, j \in DOMAIN e : e[i] = e[j] => i = j
    BY <1>c, <1>d
<1>8. \A i \in DOMAIN e : \E j \in DOMAIN q : e[i] = q[j]
    BY <1>c
<1>9. \A j \in DOMAIN q : q[j] # s => \E i \in DOMAIN e : e[i] = q[j]
  <2> SUFFICES ASSUME NEW j \in DOMAIN q, q[j] # s
               PROVE  \E i \in DOMAIN e : e[i] = q[j]
      OBVIOUS
  <2>1. CASE j < p
    <3>1. j \in DOMAIN e /\ e[j] = q[j]
        BY <1>1, <1>4, <1>5, <2>1
    <3> QED
        BY <3>1
  <2>2. CASE ~(j < p)
    <3>1. j # p
        BY <1>1
    <3>2. j - 1 \in 1 .. Len(q) - 1 /\ ~(j - 1 < p) /\ (j - 1) + 1 = j
        BY <1>1, <1>5, <2>2, <3>1
    <3>3. e[j - 1] = q[j]
        BY <1>4, <3>2
    <3> QED
        BY <1>5, <3>2, <3>3
  <2> QED
      BY <2>1, <2>2
<1> QED
    BY <1>2, <1>3, <1>6, <1>7, <1>8, <1>9

(* No more accounts are listed than there are sessions.                    *)
LEMMA ListedFinite ==
    ASSUME NEW w \in World, TableSound(w)
    PROVE  IsFiniteSet(Listed(w)) /\ Cardinality(Listed(w)) \in Nat
<1> DEFINE named == {Account[s] : s \in Sessions}
<1>1. Account \in Surjection(Sessions, named)
    BY SessionsAssumption DEF Surjection
<1>2. IsFiniteSet(named)
    BY <1>1, SessionsAssumption, FS_Surjection
<1>3. Listed(w) \in SUBSET named
    BY ListedSessions DEF Listed, IsListed, TableSound
<1>4. IsFiniteSet(Listed(w))
    BY <1>2, <1>3, FS_Subset
<1> QED
    BY <1>4, FS_CardinalityType

(* The queue without s, whose place in the table is about to be free.      *)
LeftQueue(w, s) ==
    /\ \A i, j \in DOMAIN w.queued : w.queued[i] = w.queued[j] => i = j
    /\ \A i \in DOMAIN w.queued :
        /\ IsListed(w, w.queued[i])
        /\ w.queued[i] # s
        /\ w.ses[w.queued[i]].inQueue
    /\ w.queued # <<>> => Cardinality(Listed(w)) - 1 - Len(w.queued) >= Limit /\ Limit > 0

(* The queue changes, and with it m_inQueue of s.                          *)
Requeued(w, n, s) ==
    /\ n \in World
    /\ n.ses[s].life = w.ses[s].life
    /\ n.ses[s].loading = w.ses[s].loading /\ n.ses[s].loaded = w.ses[s].loaded
    /\ n.ses[s].keys = w.ses[s].keys
    /\ n.ses[s].player = w.ses[s].player /\ n.ses[s].at = w.ses[s].at
    /\ n.ses[s].realm = w.ses[s].realm /\ n.ses[s].instance = w.ses[s].instance
    /\ \A t \in Sessions : t # s => n.ses[t] = w.ses[t]
    /\ n.sock = w.sock /\ n.sessions = w.sessions
    /\ n.players = w.players /\ n.db = w.db /\ n.saved = w.saved

(* Nobody gets in while s leaves, unless the others leave room for him.    *)
FirstIn(w, n, s) ==
    \/ \A t \in Sessions : t # s /\ InQueue(w, t) => InQueue(n, t)
    \/ Cardinality(Listed(w)) - 1 - Len(n.queued) <= Limit

SetQueued(w, queue) == [w EXCEPT !.queued = queue]

(* Only m_QueuedPlayer differs.                                            *)
LEMMA SetQueuedFacts ==
    ASSUME NEW w \in World, NEW queue \in Seq(Sessions)
    PROVE  LET n == SetQueued(w, queue) IN
           /\ n \in World /\ n.queued = queue
           /\ n.ses = w.ses /\ n.sock = w.sock /\ n.sessions = w.sessions
           /\ n.disconnects = w.disconnects
           /\ n.players = w.players /\ n.db = w.db /\ n.saved = w.saved
    BY DEF SetQueued, World

(* s leaves the queue, if it is there, before the first is let in.         *)
Leaves(w, s) ==
    IF InQueue(w, s)
    THEN SetSession(SetQueued(w, Erased(w.queued, s)), s,
            [w.ses[s] EXCEPT !.inQueue = FALSE])
    ELSE w

(* Who leaves m_QueuedPlayer is gone from it; the others keep waiting, once. *)
LEMMA LeavesFacts ==
    ASSUME NEW w \in World, NEW s \in Sessions, QueueSound(w)
    PROVE  LET n == Leaves(w, s) IN
           /\ Requeued(w, n, s)
           /\ \A i, j \in DOMAIN n.queued : n.queued[i] = n.queued[j] => i = j
           /\ \A i \in DOMAIN n.queued :
                /\ n.queued[i] # s
                /\ \E j \in DOMAIN w.queued : n.queued[i] = w.queued[j]
           /\ \A j \in DOMAIN w.queued : w.queued[j] # s =>
                \E i \in DOMAIN n.queued : n.queued[i] = w.queued[j]
           /\ Len(n.queued) = IF InQueue(w, s) THEN Len(w.queued) - 1 ELSE Len(w.queued)
           /\ n.disconnects = w.disconnects
<1> DEFINE x == [w.ses[s] EXCEPT !.inQueue = FALSE]
           m == SetQueued(w, Erased(w.queued, s))
           o == SetSession(m, s, x)
<1>0. w.queued \in Seq(Sessions)
    BY DEF World
<1>1. CASE ~InQueue(w, s)
  <2>1. Leaves(w, s) = w
      BY <1>1 DEF Leaves
  <2>2. \A i \in DOMAIN w.queued : w.queued[i] # s
      BY <1>0, <1>1 DEF InQueue, ToSet
  <2> QED
      BY <1>1, <2>1, <2>2 DEF Requeued, QueueSound
<1>2. CASE InQueue(w, s)
  <2>1. Leaves(w, s) = o
      BY <1>2 DEF Leaves
  <2>2. /\ Erased(w.queued, s) \in Seq(Sessions)
        /\ Len(Erased(w.queued, s)) = Len(w.queued) - 1
        /\ LET e == Erased(w.queued, s) IN
            /\ \A i, j \in DOMAIN e : e[i] = e[j] => i = j
            /\ \A i \in DOMAIN e : e[i] # s /\ \E j \in DOMAIN w.queued : e[i] = w.queued[j]
            /\ \A j \in DOMAIN w.queued : w.queued[j] # s =>
                    \E i \in DOMAIN e : e[i] = w.queued[j]
      BY <1>0, <1>2, ErasedFacts DEF QueueSound, InQueue
  <2>3. w.ses[s] \in SessionState
      BY DEF World
  <2>4. x \in SessionState
      BY <2>3 DEF SessionState
  <2>5. /\ x.life = w.ses[s].life
        /\ x.loading = w.ses[s].loading /\ x.loaded = w.ses[s].loaded
        /\ x.keys = w.ses[s].keys /\ x.player = w.ses[s].player /\ x.at = w.ses[s].at
        /\ x.realm = w.ses[s].realm /\ x.instance = w.ses[s].instance
      BY <2>3 DEF SessionState
  <2> HIDE DEF x
  <2>6. /\ m \in World /\ m.queued = Erased(w.queued, s)
        /\ m.ses = w.ses /\ m.sock = w.sock /\ m.sessions = w.sessions
        /\ m.disconnects = w.disconnects
        /\ m.players = w.players /\ m.db = w.db /\ m.saved = w.saved
      BY <2>2, SetQueuedFacts
  <2> HIDE DEF m
  <2>7. /\ o \in World
        /\ o.ses[s] = x
        /\ \A t \in Sessions : t # s => o.ses[t] = m.ses[t]
        /\ o.sock = m.sock /\ o.sessions = m.sessions /\ o.queued = m.queued
        /\ o.disconnects = m.disconnects /\ o.players = m.players
        /\ o.db = m.db /\ o.saved = m.saved
      BY <2>4, <2>6, SetSessionFacts
  <2> HIDE DEF o
  <2>8. Requeued(w, o, s)
      BY <2>5, <2>6, <2>7 DEF Requeued
  <2>9. o.queued = Erased(w.queued, s) /\ o.disconnects = w.disconnects
      BY <2>6, <2>7
  <2> QED
      BY <1>2, <2>1, <2>2, <2>8, <2>9
<1> QED
    BY <1>1, <1>2

(* RemoveQueuedPlayer counts s as gone, and lets in at most one.           *)
LEMMA RemoveQueuedFacts ==
    ASSUME NEW w \in World, TableSound(w), QueueSound(w),
           NEW s \in Sessions, IsListed(w, s)
    PROVE  LET n == RemoveQueuedPlayer(w, s) IN
           /\ Requeued(w, n, s)
           /\ LeftQueue(n, s)
           /\ InQueue(w, s) =>
                Cardinality(Listed(w)) - 1 - Len(n.queued) >= Limit
           /\ FirstIn(w, n, s)
           /\ n.disconnects = w.disconnects
<1> DEFINE l == Leaves(w, s)
           active == GetActiveSessionCount(w)
           others == IF InQueue(w, s) \/ active = 0 THEN active ELSE active - 1
           room == (Limit = 0 \/ others < Limit) /\ l.queued # <<>>
           n == IF room THEN SetQueued(l, Tail(l.queued)) ELSE l
           count == Cardinality(Listed(w))
<1>1. RemoveQueuedPlayer(w, s) = n
  <2>1. l = IF InQueue(w, s)
            THEN [w EXCEPT !.queued = Erased(@, s), !.ses[s].inQueue = FALSE]
            ELSE w
      BY DEF Leaves, SetSession, SetQueued, World
  <2> HIDE DEF l
  <2> QED
      BY <2>1 DEF RemoveQueuedPlayer, SetQueued
<1>2. /\ Requeued(w, l, s)
      /\ \A i, j \in DOMAIN l.queued : l.queued[i] = l.queued[j] => i = j
      /\ \A i \in DOMAIN l.queued :
            /\ l.queued[i] # s
            /\ \E j \in DOMAIN w.queued : l.queued[i] = w.queued[j]
      /\ \A j \in DOMAIN w.queued : w.queued[j] # s =>
            \E i \in DOMAIN l.queued : l.queued[i] = w.queued[j]
      /\ Len(l.queued) = IF InQueue(w, s) THEN Len(w.queued) - 1 ELSE Len(w.queued)
      /\ l.disconnects = w.disconnects
    BY LeavesFacts
<1> HIDE DEF l
<1>3. l \in World /\ l.queued \in Seq(Sessions) /\ w.queued \in Seq(Sessions)
    BY <1>2 DEF Requeued, World
<1>4. count \in Nat /\ Limit \in Nat
    BY ListedFinite, SessionsAssumption
<1>5. active = count - Len(w.queued)
    BY DEF GetActiveSessionCount
<1>6. w.queued # <<>> => active >= Limit /\ Limit > 0
    BY DEF QueueSound
<1>7. \A i \in DOMAIN l.queued : IsListed(l, l.queued[i]) /\ l.ses[l.queued[i]].inQueue
  <2> TAKE i \in DOMAIN l.queued
  <2>1. PICK j \in DOMAIN w.queued : l.queued[i] = w.queued[j]
      BY <1>2
  <2>2. IsListed(w, w.queued[j]) /\ w.ses[w.queued[j]].inQueue /\ l.queued[i] # s
      BY <1>2, <2>1 DEF QueueSound
  <2>3. l.queued[i] \in Sessions
      BY <1>3
  <2>4. l.ses[l.queued[i]] = w.ses[l.queued[i]] /\ l.sessions = w.sessions
      BY <1>2, <2>2, <2>3 DEF Requeued
  <2> QED
      BY <2>1, <2>2, <2>4 DEF IsListed
<1>8. InQueue(w, s) => w.queued # <<>>
    BY <1>3 DEF InQueue, ToSet
<1>9. l.queued # <<>> => w.queued # <<>>
    BY <1>2, <1>3
<1>10. Listed(l) = Listed(w)
    BY <1>2 DEF Requeued, Listed
<1>11. CASE ~room
  <2>1. n = l
      BY <1>11
  <2>2. l.queued # <<>> => count - 1 - Len(l.queued) >= Limit /\ Limit > 0
      BY <1>2, <1>3, <1>4, <1>5, <1>6, <1>9, <1>11
  <2>3. InQueue(w, s) => count - 1 - Len(l.queued) >= Limit
      BY <1>2, <1>3, <1>4, <1>5, <1>6, <1>8
  <2> HIDE DEF n, count, room
  <2>4. LeftQueue(n, s)
      BY <1>2, <1>7, <1>10, <2>1, <2>2 DEF LeftQueue, count
  <2>5. FirstIn(w, n, s)
    <3>1. \A t \in Sessions : t # s /\ InQueue(w, t) => InQueue(n, t)
        BY <1>2, <2>1 DEF InQueue, ToSet
    <3> QED
        BY <3>1 DEF FirstIn
  <2> QED
      BY <1>1, <1>2, <2>1, <2>3, <2>4, <2>5 DEF count
<1>12. CASE room
  <2> DEFINE q == l.queued
  <2>1. n = SetQueued(l, Tail(q)) /\ q # <<>>
      BY <1>12
  <2>c. active >= Limit /\ Limit > 0 /\ active \in Int
      BY <1>3, <1>4, <1>5, <1>6, <1>9, <2>1
  <2>d. others < Limit
      BY <1>12, <2>c
  <2>e. ~InQueue(w, s) /\ active = Limit
      BY <1>4, <2>c, <2>d
  <2>2. ~InQueue(w, s) /\ count - Len(q) = Limit /\ Limit > 0
    <3>1. Len(q) = Len(w.queued)
        BY <1>2, <2>e
    <3> QED
        BY <1>5, <2>c, <2>e, <3>1
  <2> HIDE DEF n, room, count, q, active, others
  <2>a. q \in Seq(Sessions)
      BY <1>3 DEF q
  <2>b. Tail(q) \in Seq(Sessions) /\ Len(Tail(q)) = Len(q) - 1
        /\ \A i \in 1 .. Len(q) - 1 : Tail(q)[i] = q[i + 1]
      BY <2>a, <2>1
  <2>3. /\ n \in World /\ n.queued = Tail(q)
        /\ n.ses = l.ses /\ n.sock = l.sock /\ n.sessions = l.sessions
        /\ n.disconnects = l.disconnects
        /\ n.players = l.players /\ n.db = l.db /\ n.saved = l.saved
      BY <1>3, <2>1, <2>b, SetQueuedFacts
  <2>4. Requeued(w, n, s)
      BY <1>2, <2>3 DEF Requeued
  <2>5. DOMAIN Tail(q) = 1 .. Len(q) - 1 /\ DOMAIN q = 1 .. Len(q)
      BY <2>a, <2>b
  <2>6. \A i \in DOMAIN Tail(q) : i + 1 \in DOMAIN q /\ Tail(q)[i] = q[i + 1]
      BY <2>5, <2>b
  <2>7. \A i, j \in DOMAIN Tail(q) : Tail(q)[i] = Tail(q)[j] => i = j
      BY <1>2, <2>5, <2>6 DEF q
  <2>8. \A i \in DOMAIN Tail(q) :
            /\ IsListed(n, Tail(q)[i])
            /\ Tail(q)[i] # s
            /\ n.ses[Tail(q)[i]].inQueue
      BY <1>2, <1>7, <2>3, <2>6 DEF q, IsListed
  <2>9. count - 1 - Len(Tail(q)) >= Limit
      BY <1>4, <2>2, <2>a, <2>b
  <2>10. Listed(n) = Listed(w)
      BY <1>10, <2>3 DEF Listed
  <2>11. LeftQueue(n, s)
      BY <2>2, <2>3, <2>7, <2>8, <2>9, <2>10 DEF LeftQueue, count
  <2>12. FirstIn(w, n, s)
    <3>1. count - 1 - Len(n.queued) <= Limit
        BY <1>4, <2>2, <2>3, <2>a, <2>b
    <3> QED
        BY <3>1 DEF FirstIn, count
  <2> QED
      BY <1>1, <1>2, <2>2, <2>3, <2>4, <2>11, <2>12
<1> QED
    BY <1>11, <1>12

(* Once s has left the queue, RemoveQueuedPlayer does nothing more.        *)
LEMMA RemoveQueuedAgain ==
    ASSUME NEW w \in World, NEW s \in Sessions, TableSound(w), LeftQueue(w, s)
    PROVE  RemoveQueuedPlayer(w, s) = w
<1>1. Cardinality(Listed(w)) \in Nat /\ Limit \in Nat /\ w.queued \in Seq(Sessions)
    BY ListedFinite, SessionsAssumption DEF World
<1>2. ~InQueue(w, s)
    BY <1>1 DEF LeftQueue, InQueue, ToSet
<1>3. w.queued # <<>> => /\ GetActiveSessionCount(w) - 1 >= Limit
                         /\ GetActiveSessionCount(w) # 0 /\ Limit > 0
    BY <1>1 DEF LeftQueue, GetActiveSessionCount
<1>4. GetActiveSessionCount(w) \in Int
    BY <1>1 DEF GetActiveSessionCount
<1> QED
    BY <1>1, <1>2, <1>3, <1>4 DEF RemoveQueuedPlayer

-----------------------------------------------------------------------------
(* A session takes the place of another, or of nobody, in the table.       *)

SetEntry(w, a, x) == [w EXCEPT !.sessions = [w.sessions EXCEPT ![a] = x]]

(* Only one entry of m_sessions differs.                                   *)
LEMMA SetEntryFacts ==
    ASSUME NEW w \in World, NEW a \in Accounts, NEW x \in Sessions \cup {None}
    PROVE  LET n == SetEntry(w, a, x) IN
           /\ n \in World
           /\ \A b \in Accounts : n.sessions[b] = IF b = a THEN x ELSE w.sessions[b]
           /\ n.ses = w.ses /\ n.sock = w.sock /\ n.queued = w.queued
           /\ n.disconnects = w.disconnects
           /\ n.players = w.players /\ n.db = w.db /\ n.saved = w.saved
<1> DEFINE n == SetEntry(w, a, x)
<1>1. [w.sessions EXCEPT ![a] = x] \in [Accounts -> Sessions \cup {None}]
    BY DEF World
<1>2. n \in World
    BY <1>1 DEF SetEntry, World
<1>3. /\ n.sessions = [w.sessions EXCEPT ![a] = x]
      /\ w.sessions \in [Accounts -> Sessions \cup {None}]
    BY DEF SetEntry, World
<1>4. \A b \in Accounts : n.sessions[b] = IF b = a THEN x ELSE w.sessions[b]
    BY <1>3
<1>5. /\ n.ses = w.ses /\ n.sock = w.sock /\ n.queued = w.queued
      /\ n.disconnects = w.disconnects
      /\ n.players = w.players /\ n.db = w.db /\ n.saved = w.saved
    BY DEF SetEntry, World
<1> QED
    BY <1>2, <1>4, <1>5

(* The two states of a session differ in m_inQueue and in its packets.     *)
Alike(x, y) ==
    /\ y.life = x.life
    /\ y.loading = x.loading /\ y.loaded = x.loaded /\ y.keys = x.keys
    /\ y.player = x.player /\ y.at = x.at
    /\ y.realm = x.realm /\ y.instance = x.instance

(* s is deleted, and x has its place in the table.                         *)
Removed(w, n, s, x) ==
    /\ n \in World
    /\ \A b \in Accounts : n.sessions[b] = IF b = Account[s] THEN x ELSE w.sessions[b]
    /\ PlayerGone(w, n, s)
    /\ Dead(n.ses[s], w.ses[s].keys)
    /\ \A t \in Sessions : t # s => Alike(w.ses[t], n.ses[t])
    /\ n.saved = w.saved
    /\ SocketsLess(w, n)
    /\ \A k \in Held(w, s) : k \in Sockets => ~IsOpen(n, k)

(* s has got its place in the table.                                       *)
Entered(w, n, s) ==
    /\ n \in World
    /\ \A b \in Accounts : n.sessions[b] = IF b = Account[s] THEN s ELSE w.sessions[b]
    /\ \A t \in Sessions : Alike(w.ses[t], n.ses[t])
    /\ SameData(w, n)
    /\ n.sock = w.sock

(* Who may be put into the table.                                          *)
MayEnter(w, s) == w.ses[s].life = "known" /\ ~IsListed(w, s)

(* RemoveQueuedPlayer leaves the table alone.                              *)
LEMMA RequeuedTable ==
    ASSUME NEW w \in World, NEW n, NEW s \in Sessions, Requeued(w, n, s), TableSound(w)
    PROVE  /\ TableSound(n)
           /\ \A t \in Sessions : Alike(w.ses[t], n.ses[t])
           /\ SocketsLess(w, n)
<1>1. \A t \in Sessions : Alike(w.ses[t], n.ses[t])
    BY DEF Requeued, Alike
<1>2. \A t \in Sessions : Idle(w.ses[t]) => Idle(n.ses[t])
    BY <1>1 DEF Alike, Idle
<1>3. n.sessions = w.sessions /\ n.sock = w.sock
    BY DEF Requeued
<1>4. \A a \in Accounts : n.sessions[a] # None =>
        Account[n.sessions[a]] = a /\ n.ses[n.sessions[a]].life = "known"
    BY <1>1, <1>3, ListedSessions DEF TableSound, Alike
<1>5. TableSound(n)
    BY <1>2, <1>3, <1>4 DEF TableSound, IsListed
<1>6. SocketsLess(w, n)
    BY <1>3 DEF SocketsLess, Reads, IsOpen
<1> QED
    BY <1>1, <1>5, <1>6

(* RemoveUpdated: the second call for the queue does nothing.              *)
LEMMA RemoveUpdatedFacts ==
    ASSUME NEW w \in World, TableSound(w), QueueSound(w), PlayersEnough(w),
           NEW s \in Sessions, IsListed(w, s)
    PROVE  LET n == RemoveUpdated(w, s) IN
           /\ Removed(w, n, s, None)
           /\ QueueSound(n)
           /\ FirstIn(w, n, s)
<1> DEFINE a == Account[s]
           first == RemoveQueuedPlayer(w, s)
           noted == IF Tolerance /\ ~InQueue(w, s)
                    THEN [first EXCEPT !.disconnects = @ \cup {a}]
                    ELSE first
           gone == SetEntry(noted, a, None)
           n == Delete(gone, s)
<1>0. a \in Accounts /\ s # None
    BY SessionsAssumption
<1>1. Requeued(w, first, s) /\ LeftQueue(first, s) /\ FirstIn(w, first, s)
    BY RemoveQueuedFacts
<1> HIDE DEF first
<1>2. /\ noted \in World /\ noted.queued = first.queued
      /\ noted.ses = first.ses /\ noted.sessions = first.sessions
      /\ noted.sock = first.sock /\ noted.players = first.players
      /\ noted.db = first.db /\ noted.saved = first.saved
  <2>1. first \in World
      BY <1>1 DEF Requeued
  <2> QED
      BY <1>0, <2>1 DEF World
<1> HIDE DEF noted
<1>3. Requeued(w, noted, s)
    BY <1>1, <1>2 DEF Requeued
<1>4. LeftQueue(noted, s)
    BY <1>1, <1>2 DEF LeftQueue, IsListed, Listed
<1>5. TableSound(noted) /\ SocketsLess(w, noted)
      /\ \A t \in Sessions : Alike(w.ses[t], noted.ses[t])
    BY <1>3, RequeuedTable
<1>6. RemoveQueuedPlayer(noted, s) = noted
    BY <1>2, <1>4, <1>5, RemoveQueuedAgain
<1>7. RemoveUpdated(w, s) = n
  <2> HIDE DEF n
  <2>1. RemoveUpdated(w, s) = Delete([noted EXCEPT !.sessions[a] = None], s)
      BY <1>6 DEF RemoveUpdated, noted, first
  <2> QED
      BY <2>1 DEF n, SetEntry
<1>8. /\ gone \in World
      /\ \A b \in Accounts : gone.sessions[b] = IF b = a THEN None ELSE noted.sessions[b]
      /\ gone.ses = noted.ses /\ gone.sock = noted.sock /\ gone.queued = noted.queued
      /\ gone.players = noted.players /\ gone.db = noted.db /\ gone.saved = noted.saved
    BY <1>0, <1>2, SetEntryFacts
<1> HIDE DEF gone
<1>a. /\ gone.ses[s].player = w.ses[s].player /\ gone.ses[s].at = w.ses[s].at
      /\ gone.ses[s].keys = w.ses[s].keys
      /\ gone.ses[s].realm = w.ses[s].realm /\ gone.ses[s].instance = w.ses[s].instance
    BY <1>3, <1>8 DEF Requeued
<1>b. gone.players = w.players /\ gone.db = w.db /\ gone.saved = w.saved
      /\ gone.sessions = [w.sessions EXCEPT ![a] = None]
    BY <1>3, <1>8 DEF Requeued, World
<1>c. w.ses[s].player => w.players[a] > 0
    BY <1>0 DEF PlayersEnough, Plays, IsListed
<1>9. /\ n \in World
      /\ PlayerGone(gone, n, s)
      /\ Dead(n.ses[s], gone.ses[s].keys)
      /\ \A t \in Sessions : t # s => n.ses[t] = gone.ses[t]
      /\ n.sessions = gone.sessions /\ n.queued = gone.queued
      /\ n.saved = gone.saved
      /\ SocketsLess(gone, n)
      /\ \A k \in Held(gone, s) : k \in Sockets => ~IsOpen(n, k)
    BY <1>8, <1>a, <1>b, <1>c, DeleteFacts
<1> HIDE DEF n
<1>10. Removed(w, n, s, None)
  <2>1. PlayerGone(w, n, s)
      BY <1>9, <1>a, <1>b DEF PlayerGone, SaveTask
  <2>2. SocketsLess(w, n)
      BY <1>5, <1>8, <1>9 DEF SocketsLess, Reads, IsOpen
  <2>3. Held(w, s) = Held(gone, s)
      BY <1>a DEF Held, RealmHeld, InstanceHeld
  <2>4. \A t \in Sessions : t # s => Alike(w.ses[t], n.ses[t])
      BY <1>5, <1>8, <1>9
  <2>5. \A b \in Accounts : n.sessions[b] = IF b = a THEN None ELSE w.sessions[b]
      BY <1>3, <1>8, <1>9 DEF Requeued
  <2> QED
      BY <1>9, <1>a, <1>b, <2>1, <2>2, <2>3, <2>4, <2>5 DEF Removed
<1>11. QueueSound(n)
  <2>1. Listed(n) = Listed(w) \ {a} /\ a \in Listed(w)
      BY <1>0, <1>10 DEF Removed, Listed, IsListed
  <2>2. Cardinality(Listed(n)) = Cardinality(Listed(w)) - 1
      BY <2>1, ListedFinite, FS_RemoveElement
  <2>3. n.queued = noted.queued /\ Listed(noted) = Listed(w)
      BY <1>3, <1>8, <1>9 DEF Requeued, Listed
  <2>4. \A i \in DOMAIN n.queued : n.queued[i] \in Sessions
      BY <1>9, QueuesFields
  <2>5. \A i \in DOMAIN n.queued :
            IsListed(n, n.queued[i]) /\ n.ses[n.queued[i]].inQueue
    <3> SUFFICES ASSUME NEW i \in DOMAIN n.queued
                 PROVE  IsListed(n, n.queued[i]) /\ n.ses[n.queued[i]].inQueue
        OBVIOUS
    <3> DEFINE t == n.queued[i]
    <3>1. t \in Sessions /\ t # s /\ IsListed(noted, t) /\ noted.ses[t].inQueue
        BY <1>4, <2>3, <2>4 DEF LeftQueue
    <3>2. IsListed(w, t) /\ Account[t] \in Accounts /\ Account[t] # a
        BY <1>3, <3>1, SessionsAssumption DEF Requeued, IsListed
    <3>3. n.ses[t] = noted.ses[t]
        BY <1>8, <1>9, <3>1
    <3> QED
        BY <1>10, <3>1, <3>2, <3>3 DEF Removed, IsListed
  <2> QED
      BY <1>4, <2>2, <2>3, <2>5 DEF LeftQueue, QueueSound, GetActiveSessionCount
<1>12. FirstIn(w, n, s)
    BY <1>1, <1>2, <1>8, <1>9 DEF FirstIn, InQueue
<1> QED
    BY <1>7, <1>10, <1>11, <1>12

(* The old session of the account is deleted, and s takes its place.       *)
LEMMA ReplacedFacts ==
    ASSUME NEW w \in World, TableSound(w), QueueSound(w), PlayersEnough(w),
           NEW s \in Sessions, MayEnter(w, s),
           FindSession(w, Account[s]) # None
    PROVE  LET old == FindSession(w, Account[s])
               n == SetEntry(Replaced(w, Account[s]), Account[s], s)
           IN /\ Removed(w, n, old, s)
              /\ LeftQueue(n, s)
              /\ Listed(n) = Listed(w)
              /\ InQueue(w, old) =>
                    Cardinality(Listed(w)) - 1 - Len(n.queued) >= Limit
              /\ FirstIn(w, n, old)
              /\ n.disconnects = w.disconnects
<1> DEFINE a == Account[s]
           old == FindSession(w, a)
           kicked == KickPlayer(w, old)
           left == RemoveQueuedPlayer(kicked, old)
           gone == Delete(left, old)
           n == SetEntry(gone, a, s)
<1>0. a \in Accounts /\ s # None
    BY SessionsAssumption
<1>1. old = w.sessions[a] /\ old \in Sessions /\ IsListed(w, old) /\ Account[old] = a
    BY <1>0, ListedSessions DEF FindSession, TableSound
<1> HIDE DEF old
<1>2. s # old
    BY <1>1 DEF MayEnter, IsListed
<1>3. Replaced(w, a) = gone
    BY <1>1, SessionsAssumption DEF Replaced, old
<1>4. /\ kicked \in World
      /\ kicked.ses = w.ses /\ kicked.sessions = w.sessions /\ kicked.queued = w.queued
      /\ kicked.disconnects = w.disconnects
      /\ kicked.players = w.players /\ kicked.db = w.db /\ kicked.saved = w.saved
      /\ SocketsLess(w, kicked)
      /\ \A k \in Sockets : k \in Held(w, old) => ~IsOpen(kicked, k)
    BY CloseFacts DEF KickPlayer
<1> HIDE DEF kicked
<1>5. TableSound(kicked) /\ QueueSound(kicked)
    BY <1>4 DEF TableSound, QueueSound, IsListed, GetActiveSessionCount, Listed
<1>6. IsListed(kicked, old) /\ Listed(kicked) = Listed(w)
      /\ (InQueue(kicked, old) <=> InQueue(w, old))
    BY <1>1, <1>4 DEF IsListed, Listed, InQueue
<1>7. /\ Requeued(kicked, left, old)
      /\ LeftQueue(left, old)
      /\ InQueue(w, old) =>
            Cardinality(Listed(w)) - 1 - Len(left.queued) >= Limit
      /\ FirstIn(kicked, left, old)
      /\ left.disconnects = kicked.disconnects
    BY <1>1, <1>4, <1>5, <1>6, RemoveQueuedFacts
<1> HIDE DEF left
<1>8. /\ left \in World
      /\ left.ses[old].player = w.ses[old].player /\ left.ses[old].at = w.ses[old].at
      /\ left.ses[old].keys = w.ses[old].keys
      /\ left.ses[old].realm = w.ses[old].realm
      /\ left.ses[old].instance = w.ses[old].instance
    BY <1>4, <1>7 DEF Requeued
<1>9. /\ left.players = w.players /\ left.db = w.db /\ left.saved = w.saved
      /\ left.sessions = w.sessions /\ left.sock = kicked.sock
      /\ \A t \in Sessions : t # old => left.ses[t] = w.ses[t]
    BY <1>4, <1>7 DEF Requeued
<1>10. w.ses[old].player => w.players[a] > 0
    BY <1>0, <1>1, SessionsAssumption DEF PlayersEnough, Plays
<1>11. /\ gone \in World
       /\ PlayerGone(left, gone, old)
       /\ Dead(gone.ses[old], left.ses[old].keys)
       /\ \A t \in Sessions : t # old => gone.ses[t] = left.ses[t]
       /\ gone.sessions = left.sessions /\ gone.queued = left.queued
       /\ gone.disconnects = left.disconnects /\ gone.saved = left.saved
       /\ SocketsLess(left, gone)
       /\ \A k \in Held(left, old) : k \in Sockets => ~IsOpen(gone, k)
    BY <1>1, <1>8, <1>9, <1>10, DeleteFacts
<1> HIDE DEF gone
<1>12. /\ n \in World
       /\ \A b \in Accounts : n.sessions[b] = IF b = a THEN s ELSE gone.sessions[b]
       /\ n.ses = gone.ses /\ n.sock = gone.sock /\ n.queued = gone.queued
       /\ n.disconnects = gone.disconnects
       /\ n.players = gone.players /\ n.db = gone.db /\ n.saved = gone.saved
    BY <1>0, <1>11, SetEntryFacts
<1> HIDE DEF n
<1>13. Removed(w, n, old, s)
  <2>1. PlayerGone(w, n, old)
      BY <1>8, <1>9, <1>11, <1>12 DEF PlayerGone, SaveTask
  <2>2. SocketsLess(w, n)
      BY <1>4, <1>9, <1>11, <1>12 DEF SocketsLess, Reads, IsOpen
  <2>3. Held(w, old) = Held(left, old)
      BY <1>8 DEF Held, RealmHeld, InstanceHeld
  <2>a. \A k \in Held(w, old) : k \in Sockets => ~IsOpen(n, k)
      BY <1>11, <1>12, <2>3 DEF IsOpen
  <2>4. \A t \in Sessions : t # old => Alike(w.ses[t], n.ses[t])
      BY <1>9, <1>11, <1>12 DEF Alike
  <2>5. \A b \in Accounts : n.sessions[b] = IF b = a THEN s ELSE w.sessions[b]
      BY <1>9, <1>11, <1>12
  <2>6. Dead(n.ses[old], w.ses[old].keys) /\ n.saved = w.saved
      BY <1>8, <1>9, <1>11, <1>12
  <2> QED
      BY <1>1, <1>12, <2>1, <2>2, <2>a, <2>4, <2>5, <2>6 DEF Removed
<1>14. Listed(n) = Listed(w)
    BY <1>0, <1>1, <1>13, SessionsAssumption DEF Removed, Listed
<1>15. n.queued = left.queued /\ Listed(left) = Listed(w)
    BY <1>9, <1>11, <1>12 DEF Listed
<1>16. \A i \in DOMAIN n.queued :
        /\ IsListed(n, n.queued[i])
        /\ n.queued[i] # s
        /\ n.ses[n.queued[i]].inQueue
  <2> SUFFICES ASSUME NEW i \in DOMAIN n.queued
               PROVE  /\ IsListed(n, n.queued[i])
                      /\ n.queued[i] # s
                      /\ n.ses[n.queued[i]].inQueue
      OBVIOUS
  <2> DEFINE t == n.queued[i]
  <2>1. t \in Sessions
      BY <1>12, QueuesFields
  <2>2. t # old /\ IsListed(left, t) /\ left.ses[t].inQueue
      BY <1>7, <1>15 DEF LeftQueue
  <2>3. w.sessions[Account[t]] = t /\ Account[t] \in Accounts
      BY <1>9, <2>1, <2>2, SessionsAssumption DEF IsListed
  <2>4. Account[t] # a
      BY <1>1, <2>2, <2>3
  <2>5. n.ses[t] = left.ses[t]
      BY <1>11, <1>12, <2>1, <2>2
  <2>6. n.sessions[Account[t]] = t
      BY <1>1, <1>13, <2>3, <2>4 DEF Removed
  <2>7. t # s
      BY <2>4
  <2> QED
      BY <2>2, <2>5, <2>6, <2>7 DEF IsListed
<1>17. LeftQueue(n, s)
    BY <1>7, <1>14, <1>15, <1>16 DEF LeftQueue
<1>18. FirstIn(w, n, old) /\ n.disconnects = w.disconnects
    BY <1>4, <1>6, <1>7, <1>11, <1>12 DEF FirstIn, InQueue
<1> QED
    BY <1>3, <1>7, <1>13, <1>14, <1>15, <1>17, <1>18 DEF n, old

(* There was none.                                                         *)
LEMMA EnteredFacts ==
    ASSUME NEW w \in World, TableSound(w), QueueSound(w),
           NEW s \in Sessions, MayEnter(w, s),
           FindSession(w, Account[s]) = None
    PROVE  LET n == SetEntry(Replaced(w, Account[s]), Account[s], s)
           IN /\ Entered(w, n, s)
              /\ LeftQueue(n, s)
              /\ n.queued = w.queued /\ n.disconnects = w.disconnects
<1> DEFINE a == Account[s]
           n == SetEntry(w, a, s)
<1>0. a \in Accounts /\ s # None /\ w.sessions[a] = None
    BY SessionsAssumption DEF FindSession
<1>1. Replaced(w, a) = w
    BY DEF Replaced
<1>2. /\ n \in World
      /\ \A b \in Accounts : n.sessions[b] = IF b = a THEN s ELSE w.sessions[b]
      /\ n.ses = w.ses /\ n.sock = w.sock /\ n.queued = w.queued
      /\ n.disconnects = w.disconnects
      /\ n.players = w.players /\ n.db = w.db /\ n.saved = w.saved
    BY <1>0, SetEntryFacts
<1> HIDE DEF n
<1>3. Entered(w, n, s)
    BY <1>2 DEF Entered, Alike, SameData
<1>4. Listed(n) = Listed(w) \cup {a} /\ a \notin Listed(w)
    BY <1>0, <1>2 DEF Listed
<1>5. Cardinality(Listed(n)) = Cardinality(Listed(w)) + 1
    BY <1>4, ListedFinite, FS_AddElement
<1>6. \A i \in DOMAIN n.queued :
        /\ IsListed(n, n.queued[i])
        /\ n.queued[i] # s
        /\ n.ses[n.queued[i]].inQueue
  <2> SUFFICES ASSUME NEW i \in DOMAIN n.queued
               PROVE  /\ IsListed(n, n.queued[i])
                      /\ n.queued[i] # s
                      /\ n.ses[n.queued[i]].inQueue
      OBVIOUS
  <2> DEFINE t == n.queued[i]
  <2>1. t \in Sessions
      BY <1>2, QueuesFields
  <2>2. IsListed(w, t) /\ w.ses[t].inQueue
      BY <1>2 DEF QueueSound
  <2>3. Account[t] # a /\ Account[t] \in Accounts
      BY <1>0, <2>1, <2>2, SessionsAssumption DEF IsListed
  <2> QED
      BY <1>2, <2>2, <2>3 DEF IsListed
<1>7. w.queued \in Seq(Sessions) /\ Cardinality(Listed(w)) \in Nat /\ Limit \in Nat
    BY ListedFinite, SessionsAssumption DEF World
<1>8. LeftQueue(n, s)
    BY <1>2, <1>5, <1>6, <1>7 DEF LeftQueue, QueueSound, GetActiveSessionCount
<1> QED
    BY <1>1, <1>2, <1>3, <1>8 DEF n

(* Who joins the queue waits for a reason.                                 *)
LEMMA AddQueuedFacts ==
    ASSUME NEW w \in World, NEW s \in Sessions, LeftQueue(w, s), IsListed(w, s),
           TableSound(w), Limit > 0,
           Cardinality(Listed(w)) - 1 - Len(w.queued) >= Limit
    PROVE  LET n == AddQueuedPlayer(w, s) IN
           /\ Requeued(w, n, s)
           /\ QueueSound(n)
<1> DEFINE x == [w.ses[s] EXCEPT !.inQueue = TRUE]
           m == SetQueued(w, Append(w.queued, s))
           n == SetSession(m, s, x)
<1>1. AddQueuedPlayer(w, s) = n
    BY DEF AddQueuedPlayer, SetSession, SetQueued, World
<1>2. w.ses[s] \in SessionState /\ w.queued \in Seq(Sessions)
    BY DEF World
<1>3. x \in SessionState
    BY <1>2 DEF SessionState
<1>4. /\ x.life = w.ses[s].life /\ x.inQueue
      /\ x.loading = w.ses[s].loading /\ x.loaded = w.ses[s].loaded
      /\ x.keys = w.ses[s].keys /\ x.player = w.ses[s].player /\ x.at = w.ses[s].at
      /\ x.realm = w.ses[s].realm /\ x.instance = w.ses[s].instance
    BY <1>2 DEF SessionState
<1> HIDE DEF x
<1>5. Append(w.queued, s) \in Seq(Sessions)
    BY <1>2
<1>6. /\ m \in World /\ m.queued = Append(w.queued, s)
      /\ m.ses = w.ses /\ m.sock = w.sock /\ m.sessions = w.sessions
      /\ m.players = w.players /\ m.db = w.db /\ m.saved = w.saved
    BY <1>5, SetQueuedFacts
<1> HIDE DEF m
<1>7. /\ n \in World
      /\ n.ses[s] = x
      /\ \A t \in Sessions : t # s => n.ses[t] = m.ses[t]
      /\ n.sock = m.sock /\ n.sessions = m.sessions /\ n.queued = m.queued
      /\ n.players = m.players /\ n.db = m.db /\ n.saved = m.saved
    BY <1>3, <1>6, SetSessionFacts
<1> HIDE DEF n
<1>8. Requeued(w, n, s)
    BY <1>4, <1>6, <1>7 DEF Requeued
<1> DEFINE q == w.queued
           r == n.queued
<1>9. /\ r = Append(q, s) /\ q \in Seq(Sessions) /\ Len(r) = Len(q) + 1
      /\ DOMAIN r = 1 .. Len(q) + 1 /\ DOMAIN q = 1 .. Len(q)
      /\ \A i \in 1 .. Len(q) : r[i] = q[i]
      /\ r[Len(q) + 1] = s
    BY <1>2, <1>6, <1>7
<1>10. \A i \in DOMAIN q : /\ IsListed(n, q[i])
                           /\ q[i] # s
                           /\ n.ses[q[i]].inQueue
  <2> TAKE i \in DOMAIN q
  <2>1. q[i] \in Sessions /\ q[i] # s /\ IsListed(w, q[i]) /\ w.ses[q[i]].inQueue
      BY QueuesFields DEF LeftQueue
  <2> QED
      BY <1>6, <1>7, <2>1 DEF IsListed
<1>11. IsListed(n, s) /\ n.ses[s].inQueue
    BY <1>4, <1>6, <1>7 DEF IsListed
<1>12. Listed(n) = Listed(w)
    BY <1>6, <1>7 DEF Listed
<1>13. \A i, j \in DOMAIN q : q[i] = q[j] => i = j
    BY DEF LeftQueue
<1>14. Len(q) \in Nat /\ Cardinality(Listed(w)) \in Nat /\ Limit \in Nat
    BY <1>9, ListedFinite, SessionsAssumption
<1> HIDE DEF q, r
<1>15. \A i, j \in DOMAIN r : r[i] = r[j] => i = j
  <2>1. \A i \in DOMAIN r : i \in DOMAIN q \/ i = Len(q) + 1
      BY <1>9, <1>14
  <2> QED
      BY <1>9, <1>10, <1>13, <2>1
<1>16. \A i \in DOMAIN r : IsListed(n, r[i]) /\ n.ses[r[i]].inQueue
  <2>1. \A i \in DOMAIN r : i \in DOMAIN q \/ i = Len(q) + 1
      BY <1>9, <1>14
  <2> QED
      BY <1>9, <1>10, <1>11, <2>1
<1>17. Cardinality(Listed(n)) - Len(r) >= Limit
    BY <1>9, <1>12, <1>14 DEF q
<1>18. QueueSound(n)
    BY <1>15, <1>16, <1>17 DEF QueueSound, GetActiveSessionCount, r
<1> QED
    BY <1>1, <1>8, <1>18

-----------------------------------------------------------------------------
(* The tasks after the player of s has gone.                               *)
LEMMA GoneTasks ==
    ASSUME NEW w \in World, NEW s \in Sessions, NEW n, PlayerGone(w, n, s)
    PROVE  /\ DOMAIN w.db \subseteq DOMAIN n.db
           /\ DOMAIN w.db = 1 .. Len(w.db) /\ Len(w.db) \in Nat
           /\ \A i \in DOMAIN w.db : n.db[i] = w.db[i]
           /\ \A i \in DOMAIN n.db : i \notin DOMAIN w.db =>
                w.ses[s].player /\ i = Len(w.db) + 1 /\ n.db[i] = SaveTask(w, s)
           /\ w.ses[s].player =>
                Len(w.db) + 1 \in DOMAIN n.db /\ n.db[Len(w.db) + 1] = SaveTask(w, s)
<1>1. w.db \in Seq(Task)
    BY DEF World
<1>2. CASE ~w.ses[s].player
    BY <1>1, <1>2 DEF PlayerGone
<1>3. CASE w.ses[s].player
  <2>1. n.db = Append(w.db, SaveTask(w, s)) /\ SaveTask(w, s) \in Task
      BY <1>3, SaveTaskType DEF PlayerGone
  <2>2. /\ DOMAIN n.db = 1 .. Len(w.db) + 1
        /\ \A i \in 1 .. Len(w.db) : n.db[i] = w.db[i]
        /\ n.db[Len(w.db) + 1] = SaveTask(w, s)
      BY <1>1, <2>1
  <2>3. DOMAIN w.db = 1 .. Len(w.db) /\ Len(w.db) \in Nat
      BY <1>1
  <2> QED
      BY <1>3, <2>2, <2>3
<1> QED
    BY <1>2, <1>3

(* Who may take the place of s.                                            *)
Successor(w, s, x) ==
    \/ x = None
    \/ x \in Sessions /\ Account[x] = Account[s] /\ MayEnter(w, x)

(* Nobody but s is put out of the table.                                   *)
LEMMA RemovedListed ==
    ASSUME NEW w \in World, TableSound(w), NEW s \in Sessions, IsListed(w, s),
           NEW x, Successor(w, s, x), NEW n, Removed(w, n, s, x)
    PROVE  /\ \A t \in Sessions : IsListed(w, t) /\ t # s => IsListed(n, t)
           /\ \A t \in Sessions : IsListed(n, t) => t = x \/ IsListed(w, t)
           /\ ~IsListed(n, s)
           /\ x # s
<1> \A t \in Sessions : Account[t] \in Accounts /\ t # None
    BY SessionsAssumption
<1>1. x # s
    BY DEF Successor, MayEnter
<1> QED
    BY <1>1 DEF Removed, IsListed

(* What is said of the table holds for the rest.                           *)
LEMMA RemovedTable ==
    ASSUME NEW w \in World, TableWorld(w), NEW s \in Sessions, IsListed(w, s),
           NEW x, Successor(w, s, x), NEW n, Removed(w, n, s, x)
    PROVE  TableSound(n) /\ PlayersEnough(n) /\ QueriesListed(n)
<1> TableSound(w)
    BY DEF TableWorld
<1>0. \A t \in Sessions : Account[t] \in Accounts /\ t # None
    BY SessionsAssumption
<1>1. /\ \A t \in Sessions : IsListed(w, t) /\ t # s => IsListed(n, t)
      /\ x # s
    BY RemovedListed
<1>2. \A t \in Sessions : t # s => Alike(w.ses[t], n.ses[t])
    BY DEF Removed
<1>3. \A t \in Sessions : t # s /\ Idle(w.ses[t]) => Idle(n.ses[t])
    BY <1>2 DEF Idle, Alike
<1>4. \A b \in Accounts : n.sessions[b] = IF b = Account[s] THEN x ELSE w.sessions[b]
    BY DEF Removed
<1>5. \A a \in Accounts : n.sessions[a] # None =>
        Account[n.sessions[a]] = a /\ n.ses[n.sessions[a]].life = "known"
  <2> SUFFICES ASSUME NEW a \in Accounts, n.sessions[a] # None
               PROVE  /\ Account[n.sessions[a]] = a
                      /\ n.ses[n.sessions[a]].life = "known"
      OBVIOUS
  <2>1. CASE a = Account[s]
      BY <1>1, <1>2, <1>4, <2>1 DEF Successor, MayEnter, Alike
  <2>2. CASE a # Account[s]
    <3>1. n.sessions[a] = w.sessions[a] /\ w.sessions[a] \in Sessions
        BY <1>4, <2>2, ListedSessions
    <3>2. Account[w.sessions[a]] = a /\ w.ses[w.sessions[a]].life = "known"
        BY <3>1 DEF TableSound
    <3> QED
        BY <1>2, <2>2, <3>1, <3>2 DEF Alike
  <2> QED
      BY <2>1, <2>2
<1>6. \A t \in Sessions : ~IsListed(n, t) => Idle(n.ses[t])
  <2> SUFFICES ASSUME NEW t \in Sessions, ~IsListed(n, t)
               PROVE  Idle(n.ses[t])
      OBVIOUS
  <2>1. CASE t = s
      BY <2>1 DEF Removed, Dead
  <2>2. CASE t # s
      BY <1>1, <1>3, <2>2 DEF TableSound
  <2> QED
      BY <2>1, <2>2
<1>7. TableSound(n)
    BY <1>5, <1>6 DEF TableSound
<1>8. ~Plays(n, Account[s])
  <2>1. n.sessions[Account[s]] = x
      BY <1>0, <1>4
  <2>2. x # None => Idle(w.ses[x])
      BY DEF Successor, MayEnter, TableSound
  <2> QED
      BY <1>1, <1>2, <2>1, <2>2 DEF Plays, Successor, Idle, Alike
<1>9. \A b \in Accounts : b # Account[s] =>
        (Plays(n, b) <=> Plays(w, b)) /\ n.players[b] = w.players[b]
  <2> SUFFICES ASSUME NEW b \in Accounts, b # Account[s]
               PROVE  (Plays(n, b) <=> Plays(w, b)) /\ n.players[b] = w.players[b]
      OBVIOUS
  <2>1. n.sessions[b] = w.sessions[b]
      BY <1>4
  <2>2. n.players[b] = w.players[b]
      BY DEF Removed, PlayerGone
  <2>3. w.sessions[b] # None => w.sessions[b] \in Sessions /\ w.sessions[b] # s
      BY ListedSessions DEF TableSound
  <2> QED
      BY <1>2, <2>1, <2>2, <2>3 DEF Plays, Alike
<1>10. PlayersEnough(n)
    BY <1>8, <1>9 DEF PlayersEnough, TableWorld
<1>11. QueriesListed(n)
  <2> SUFFICES ASSUME NEW i \in DOMAIN n.db, IsQuery(n, i)
               PROVE  IsListed(n, n.db[i].of)
      BY DEF QueriesListed
  <2> PlayerGone(w, n, s)
      BY DEF Removed
  <2>1. i \in DOMAIN w.db /\ n.db[i] = w.db[i]
    <3>1. SaveTask(w, s).save /\ ~n.db[i].save
        BY DEF IsQuery, SaveTask
    <3>2. n.db[i] # SaveTask(w, s)
        BY <3>1
    <3> QED
        BY <3>2, GoneTasks
  <2>2. w.db[i].of \in Sessions
      BY <2>1, QueuesFields
  <2>3. w.db[i].of # s
      BY <2>1 DEF IsQuery, Removed, Dead
  <2>4. IsQuery(w, i)
      BY <1>2, <2>1, <2>2, <2>3 DEF IsQuery, Alike
  <2>5. IsListed(w, w.db[i].of)
      BY <2>1, <2>4 DEF TableWorld, QueriesListed
  <2> QED
      BY <1>1, <2>1, <2>2, <2>3, <2>5
<1> QED
    BY <1>7, <1>10, <1>11

(* The same for a session that takes nobody's place.                       *)
LEMMA EnteredTable ==
    ASSUME NEW w \in World, TableWorld(w), NEW s \in Sessions, MayEnter(w, s),
           w.sessions[Account[s]] = None, NEW n, Entered(w, n, s)
    PROVE  TableSound(n) /\ PlayersEnough(n) /\ QueriesListed(n)
<1> TableSound(w)
    BY DEF TableWorld
<1>0. \A t \in Sessions : Account[t] \in Accounts /\ t # None
    BY SessionsAssumption
<1>1. \A t \in Sessions : IsListed(w, t) => IsListed(n, t)
    BY <1>0 DEF Entered, IsListed
<1>2. \A t \in Sessions : Alike(w.ses[t], n.ses[t])
    BY DEF Entered
<1>3. \A t \in Sessions : Idle(w.ses[t]) => Idle(n.ses[t])
    BY <1>2 DEF Idle, Alike
<1>4. \A b \in Accounts : n.sessions[b] = IF b = Account[s] THEN s ELSE w.sessions[b]
    BY DEF Entered
<1>5. \A a \in Accounts : n.sessions[a] # None =>
        Account[n.sessions[a]] = a /\ n.ses[n.sessions[a]].life = "known"
  <2> SUFFICES ASSUME NEW a \in Accounts, n.sessions[a] # None
               PROVE  /\ Account[n.sessions[a]] = a
                      /\ n.ses[n.sessions[a]].life = "known"
      OBVIOUS
  <2>1. CASE a = Account[s]
      BY <1>2, <1>4, <2>1 DEF MayEnter, Alike
  <2>2. CASE a # Account[s]
    <3>1. n.sessions[a] = w.sessions[a] /\ w.sessions[a] \in Sessions
        BY <1>4, <2>2, ListedSessions
    <3> QED
        BY <1>2, <3>1 DEF Alike, TableSound
  <2> QED
      BY <2>1, <2>2
<1>7. TableSound(n)
    BY <1>1, <1>3, <1>5 DEF TableSound
<1>8. \A a \in Accounts : Plays(n, a) => Plays(w, a)
  <2> SUFFICES ASSUME NEW a \in Accounts, Plays(n, a)
               PROVE  Plays(w, a)
      OBVIOUS
  <2>1. CASE a = Account[s]
    <3>1. n.sessions[a] = s /\ Idle(n.ses[s])
        BY <1>3, <1>4, <2>1 DEF MayEnter, TableSound
    <3> QED
        BY <3>1 DEF Plays, Idle
  <2>2. CASE a # Account[s]
    <3>1. n.sessions[a] = w.sessions[a] /\ w.sessions[a] \in Sessions
        BY <1>4, <2>2, ListedSessions DEF Plays
    <3> QED
        BY <1>2, <3>1 DEF Alike, Plays
  <2> QED
      BY <2>1, <2>2
<1>9. PlayersEnough(n)
    BY <1>8 DEF PlayersEnough, TableWorld, Entered, SameData
<1>10. QueriesListed(n)
  <2> SUFFICES ASSUME NEW i \in DOMAIN n.db, IsQuery(n, i)
               PROVE  IsListed(n, n.db[i].of)
      BY DEF QueriesListed
  <2>1. n.db = w.db
      BY DEF Entered, SameData
  <2>2. w.db[i].of \in Sessions
      BY <2>1, QueuesFields
  <2>3. IsQuery(w, i)
      BY <1>2, <2>1, <2>2 DEF IsQuery, Alike
  <2> QED
      BY <1>1, <2>1, <2>2, <2>3 DEF TableWorld, QueriesListed
<1> QED
    BY <1>7, <1>9, <1>10

(* AddSession_, when the account has no login going on.                    *)
LEMMA AdmittedFacts ==
    ASSUME NEW w \in World, TableWorld(w), NEW s \in Sessions, MayEnter(w, s)
    PROVE  LET n == Admitted(w, s)
               old == w.sessions[Account[s]]
           IN /\ n \in World
              /\ QueueSound(n)
              /\ IF old = None THEN Entered(w, n, s) ELSE Removed(w, n, old, s)
<1> DEFINE a == Account[s]
           old == FindSession(w, a)
           in == SetEntry(Replaced(w, a), a, s)
           others == Cardinality(Listed(in))
                        - (IF old # None /\ InQueue(w, old) THEN 0 ELSE 1)
           waits == /\ Limit > 0
                    /\ others >= Limit
                    /\ s \notin Exempt
                    /\ ~(Tolerance /\ a \in in.disconnects)
           n == IF waits THEN AddQueuedPlayer(in, s) ELSE in
<1> TableSound(w) /\ QueueSound(w) /\ PlayersEnough(w)
    BY DEF TableWorld
<1>1. Admitted(w, s) = n
    BY DEF Admitted, SetEntry
<1>2. a \in Accounts /\ s # None /\ old = w.sessions[a]
    BY SessionsAssumption DEF FindSession
<1>3. old # None => /\ old \in Sessions /\ IsListed(w, old)
                    /\ Account[old] = a /\ Successor(w, old, s)
    BY <1>2, ListedSessions DEF TableSound, Successor
<1>4. /\ LeftQueue(in, s)
      /\ IF old = None THEN Entered(w, in, s) ELSE Removed(w, in, old, s)
      /\ old # None /\ InQueue(w, old) =>
            Cardinality(Listed(in)) - 1 - Len(in.queued) >= Limit
  <2>1. CASE old = None
      BY <2>1, EnteredFacts
  <2>2. CASE old # None
      BY <2>2, ReplacedFacts
  <2> QED
      BY <2>1, <2>2
<1> HIDE DEF in
<1>5. in \in World /\ in.sessions[a] = s
    BY <1>2, <1>3, <1>4 DEF Entered, Removed
<1>6. TableSound(in)
    BY <1>2, <1>3, <1>4, RemovedTable, EnteredTable
<1>7. /\ Cardinality(Listed(in)) \in Nat /\ Limit \in Nat
      /\ in.queued \in Seq(Sessions)
    BY <1>5, <1>6, ListedFinite, SessionsAssumption DEF World
<1>8. IsListed(in, s)
    BY <1>5 DEF IsListed
<1>9. CASE ~waits
  <2>1. n = in
      BY <1>9
  <2>2. QueueSound(in)
      BY <1>4, <1>7 DEF LeftQueue, QueueSound, GetActiveSessionCount
  <2> QED
      BY <1>1, <1>2, <1>4, <1>5, <2>1, <2>2
<1>10. CASE waits
  <2> DEFINE m == AddQueuedPlayer(in, s)
  <2>1. n = m /\ Limit > 0 /\ others >= Limit
      BY <1>10
  <2>2. Cardinality(Listed(in)) - 1 - Len(in.queued) >= Limit
    <3>1. CASE in.queued = <<>>
        BY <1>4, <1>7, <2>1, <3>1
    <3>2. CASE in.queued # <<>>
        BY <1>4, <3>2 DEF LeftQueue
    <3> QED
        BY <3>1, <3>2
  <2>3. Requeued(in, m, s) /\ QueueSound(m)
      BY <1>4, <1>5, <1>6, <1>8, <2>1, <2>2, AddQueuedFacts
  <2> HIDE DEF m, n, others, waits
  <2>4. /\ \A t \in Sessions : Alike(in.ses[t], m.ses[t])
        /\ m \in World /\ m.sessions = in.sessions /\ m.sock = in.sock
        /\ m.players = in.players /\ m.db = in.db /\ m.saved = in.saved
      BY <2>3 DEF Requeued, Alike
  <2>5. CASE old = None
    <3>1. Entered(w, in, s)
        BY <1>4, <2>5
    <3>2. \A t \in Sessions : Alike(w.ses[t], m.ses[t])
        BY <2>4, <3>1 DEF Entered, Alike
    <3>3. Entered(w, m, s)
        BY <2>4, <3>1, <3>2 DEF Entered, SameData
    <3> QED
        BY <1>1, <1>2, <2>1, <2>3, <2>4, <2>5, <3>3
  <2>6. CASE old # None
    <3>1. Removed(w, in, old, s)
        BY <1>4, <2>6
    <3>2. \A t \in Sessions : t # old => Alike(w.ses[t], m.ses[t])
        BY <2>4, <3>1 DEF Removed, Alike
    <3>3. Dead(m.ses[old], w.ses[old].keys)
        BY <1>3, <2>4, <2>6, <3>1 DEF Removed, Alike, Dead, Idle
    <3>4. SocketsLess(w, m) /\ \A k \in Held(w, old) : k \in Sockets => ~IsOpen(m, k)
        BY <2>4, <3>1 DEF Removed, SocketsLess, Reads, IsOpen
    <3>5. PlayerGone(w, m, old)
        BY <2>4, <3>1 DEF Removed, PlayerGone
    <3>6. Removed(w, m, old, s)
        BY <2>4, <3>1, <3>2, <3>3, <3>4, <3>5 DEF Removed
    <3> QED
        BY <1>1, <1>2, <2>1, <2>3, <2>4, <2>6, <3>6
  <2> QED
      BY <2>5, <2>6
<1> QED
    BY <1>9, <1>10

-----------------------------------------------------------------------------
(* A step that concerns one session of the table.                          *)
Touches(w, n, s) ==
    /\ n \in World
    /\ SameTable(w, n)
    /\ \A t \in Sessions : t # s => n.ses[t] = w.ses[t]
    /\ n.ses[s].life = w.ses[s].life
    /\ InQueue(w, s) /\ w.ses[s].inQueue => n.ses[s].inQueue
    /\ n.saved = w.saved

(* Nothing new is to be done by the database, but for s.                   *)
NoTask(w, n, s) ==
    \A i \in DOMAIN n.db :
        \/ i \in DOMAIN w.db /\ n.db[i] = w.db[i]
        \/ n.db[i].save
        \/ n.db[i].of = s

(* Where the sessions of the table are unchanged, so is what is said.      *)
LEMMA TableKept ==
    ASSUME NEW w \in World, TableWorld(w), NEW n \in World,
           SameTable(w, n),
           \A t \in Sessions : w.ses[t].life = "known" => n.ses[t].life = "known",
           \A t \in Sessions : ~IsListed(w, t) => Idle(n.ses[t]),
           \A t \in Sessions : InQueue(w, t) /\ w.ses[t].inQueue => n.ses[t].inQueue,
           PlayersEnough(n), QueriesListed(n)
    PROVE  TableWorld(n)
<1>1. TableSound(n)
  <2>1. \A a \in Accounts : n.sessions[a] # None =>
            Account[n.sessions[a]] = a /\ n.ses[n.sessions[a]].life = "known"
    <3> SUFFICES ASSUME NEW a \in Accounts, n.sessions[a] # None
                 PROVE  /\ Account[n.sessions[a]] = a
                        /\ n.ses[n.sessions[a]].life = "known"
        OBVIOUS
    <3>1. n.sessions[a] = w.sessions[a] /\ w.sessions[a] \in Sessions
        BY ListedSessions DEF SameTable, TableWorld
    <3> QED
        BY <3>1 DEF TableWorld, TableSound
  <2> QED
      BY <2>1 DEF TableSound, SameTable, IsListed
<1>2. QueueSound(n)
  <2>1. n.queued = w.queued /\ n.sessions = w.sessions
      BY DEF SameTable
  <2>2. \A i \in DOMAIN w.queued : w.queued[i] \in Sessions /\ InQueue(w, w.queued[i])
      BY QueuesFields DEF InQueue, ToSet
  <2>3. QueueSound(w)
      BY DEF TableWorld
  <2> QED
      BY <2>1, <2>2, <2>3 DEF QueueSound, IsListed, GetActiveSessionCount, Listed
<1> QED
    BY <1>1, <1>2 DEF TableWorld

(* A step for one session of the table keeps what is said of it.           *)
LEMMA TouchesTable ==
    ASSUME NEW w \in World, TableWorld(w), NEW n, NEW s \in Sessions,
           Touches(w, n, s), IsListed(w, s), NoTask(w, n, s),
           \A b \in Accounts : b # Account[s] => n.players[b] = w.players[b],
           n.ses[s].player => n.players[Account[s]] > 0
    PROVE  TableWorld(n)
<1>0. \A t \in Sessions : Account[t] \in Accounts /\ t # None
    BY SessionsAssumption
<1>1. n \in World /\ SameTable(w, n)
    BY DEF Touches
<1>2. \A t \in Sessions : n.ses[t].life = w.ses[t].life
    BY DEF Touches
<1>3. \A t \in Sessions : ~IsListed(w, t) => Idle(n.ses[t])
    BY DEF Touches, TableWorld, TableSound
<1>4. \A t \in Sessions : InQueue(w, t) /\ w.ses[t].inQueue => n.ses[t].inQueue
    BY DEF Touches
<1>5. PlayersEnough(n)
  <2> SUFFICES ASSUME NEW b \in Accounts, Plays(n, b)
               PROVE  n.players[b] > 0
      BY DEF PlayersEnough
  <2>1. n.sessions[b] = w.sessions[b] /\ w.sessions[b] # None
      BY <1>1 DEF Plays, SameTable
  <2>2. w.sessions[b] \in Sessions /\ Account[w.sessions[b]] = b
      BY <2>1, ListedSessions DEF TableWorld, TableSound
  <2>3. CASE b = Account[s]
      BY <2>1, <2>3 DEF Plays, IsListed
  <2>4. CASE b # Account[s]
    <3>1. n.ses[w.sessions[b]] = w.ses[w.sessions[b]]
        BY <2>2, <2>4 DEF Touches
    <3>2. Plays(w, b)
        BY <2>1, <3>1 DEF Plays
    <3> QED
        BY <2>4, <3>2 DEF TableWorld, PlayersEnough
  <2> QED
      BY <2>3, <2>4
<1>6. QueriesListed(n)
  <2> SUFFICES ASSUME NEW i \in DOMAIN n.db, IsQuery(n, i)
               PROVE  IsListed(n, n.db[i].of)
      BY DEF QueriesListed
  <2>1. CASE i \in DOMAIN w.db /\ n.db[i] = w.db[i]
    <3>1. IsQuery(w, i)
        BY <1>2, <2>1, QueuesFields DEF IsQuery
    <3> QED
        BY <1>1, <2>1, <3>1 DEF TableWorld, QueriesListed, IsListed, SameTable
  <2>2. CASE n.db[i].of = s
      BY <1>1, <2>2 DEF IsListed, SameTable
  <2> QED
      BY <2>1, <2>2 DEF NoTask, IsQuery
<1> QED
    BY <1>1, <1>2, <1>3, <1>4, <1>5, <1>6, TableKept

(* AddSession_, when the account has a login going on: s is turned down.   *)
Refused(w, n, s) ==
    /\ n \in World
    /\ SameTable(w, n)
    /\ SameData(w, n)
    /\ Dead(n.ses[s], w.ses[s].keys)
    /\ \A t \in Sessions : t # s => n.ses[t] = w.ses[t]
    /\ SocketsLess(w, n)
    /\ \A k \in Held(w, s) : k \in Sockets => ~IsOpen(n, k)

(* A session that is turned down has no player to save,                    *)
LEMMA RefusedFacts ==
    ASSUME NEW w \in World, NEW s \in Sessions, TableSound(w), MayEnter(w, s)
    PROVE  Refused(w, Delete(KickPlayer(w, s), s), s)
<1> DEFINE k == KickPlayer(w, s)
           n == Delete(k, s)
<1>1. /\ k \in World
      /\ k.ses = w.ses /\ k.sessions = w.sessions /\ k.queued = w.queued
      /\ k.players = w.players /\ k.db = w.db /\ k.saved = w.saved
      /\ SocketsLess(w, k)
    BY CloseFacts DEF KickPlayer
<1> HIDE DEF k
<1>2. ~k.ses[s].player
    BY <1>1 DEF MayEnter, TableSound, Idle
<1>3. /\ n \in World
      /\ PlayerGone(k, n, s)
      /\ Dead(n.ses[s], k.ses[s].keys)
      /\ \A t \in Sessions : t # s => n.ses[t] = k.ses[t]
      /\ n.sessions = k.sessions /\ n.queued = k.queued
      /\ n.saved = k.saved
      /\ SocketsLess(k, n)
      /\ \A c \in Held(k, s) : c \in Sockets => ~IsOpen(n, c)
    BY <1>1, <1>2, DeleteFacts
<1> HIDE DEF n
<1>4. Held(k, s) = Held(w, s)
    BY <1>1 DEF Held, RealmHeld, InstanceHeld
<1>5. SocketsLess(w, n)
    BY <1>1, <1>3 DEF SocketsLess
<1>6. n.db = w.db /\ n.players = w.players
    BY <1>1, <1>2, <1>3 DEF PlayerGone
<1> QED
    BY <1>1, <1>3, <1>4, <1>5, <1>6 DEF Refused, SameTable, SameData, n, k

(* and nobody waits for it.                                                *)
LEMMA RefusedTable ==
    ASSUME NEW w \in World, TableWorld(w), NEW s \in Sessions, MayEnter(w, s),
           NEW n, Refused(w, n, s)
    PROVE  TableWorld(n)
<1>0. TableSound(w)
    BY DEF TableWorld
<1>1. n \in World /\ SameTable(w, n) /\ n.players = w.players /\ n.db = w.db
    BY DEF Refused, SameData
<1>2. ~InQueue(w, s)
    BY QueuesFields DEF TableWorld, QueueSound, InQueue, ToSet, MayEnter, World
<1>3. \A t \in Sessions : ~IsListed(w, t) => Idle(n.ses[t])
    BY <1>0 DEF Refused, Dead, TableSound
<1>4. \A t \in Sessions : InQueue(w, t) /\ w.ses[t].inQueue => n.ses[t].inQueue
    BY <1>2 DEF Refused
<1>5. PlayersEnough(n)
  <2>1. \A a \in Accounts : Plays(n, a) => Plays(w, a)
      BY <1>0, <1>1, ListedSessions
      DEF Plays, Refused, Dead, Idle, SameTable
  <2> QED
      BY <1>1, <2>1 DEF TableWorld, PlayersEnough
<1>6. QueriesListed(n)
  <2> SUFFICES ASSUME NEW i \in DOMAIN n.db, IsQuery(n, i)
               PROVE  IsListed(n, n.db[i].of)
      BY DEF QueriesListed
  <2>1. w.db[i].of \in Sessions
      BY <1>1, QueuesFields
  <2>2. w.db[i].of # s
      BY <1>1 DEF IsQuery, Refused, Dead
  <2>3. IsQuery(w, i)
      BY <1>1, <2>1, <2>2 DEF IsQuery, Refused
  <2> QED
      BY <1>1, <2>3 DEF TableWorld, QueriesListed, IsListed, SameTable
<1>7. TableSound(n)
  <2>1. \A a \in Accounts : n.sessions[a] # None =>
            Account[n.sessions[a]] = a /\ n.ses[n.sessions[a]].life = "known"
    <3> SUFFICES ASSUME NEW a \in Accounts, n.sessions[a] # None
                 PROVE  /\ Account[n.sessions[a]] = a
                        /\ n.ses[n.sessions[a]].life = "known"
        OBVIOUS
    <3>1. n.sessions[a] = w.sessions[a] /\ IsListed(w, w.sessions[a])
            /\ w.sessions[a] \in Sessions
        BY <1>0, <1>1, ListedSessions DEF SameTable
    <3>2. w.sessions[a] # s
        BY <3>1 DEF MayEnter
    <3> QED
        BY <1>0, <3>1, <3>2 DEF TableSound, Refused
  <2> QED
      BY <1>1, <1>3, <2>1 DEF TableSound, SameTable, IsListed
<1>8. QueueSound(n)
  <2>1. n.queued = w.queued /\ n.sessions = w.sessions
      BY <1>1 DEF SameTable
  <2>2. \A i \in DOMAIN w.queued : w.queued[i] \in Sessions /\ InQueue(w, w.queued[i])
      BY QueuesFields DEF InQueue, ToSet
  <2>3. QueueSound(w)
      BY DEF TableWorld
  <2> QED
      BY <1>4, <2>1, <2>2, <2>3 DEF QueueSound, IsListed, GetActiveSessionCount, Listed
<1> QED
    BY <1>5, <1>6, <1>7, <1>8 DEF TableWorld

-----------------------------------------------------------------------------
(* What the handlers change of a session.                                  *)

(* One session gets a new state, but does not come to life or end.         *)
LEMMA SetSessionTouches ==
    ASSUME NEW w \in World, NEW s \in Sessions, NEW x \in SessionState,
           x.life = w.ses[s].life, w.ses[s].inQueue => x.inQueue
    PROVE  LET n == SetSession(w, s, x) IN
           /\ Touches(w, n, s) /\ SameData(w, n)
           /\ n.sock = w.sock /\ n.ses[s] = x
<1> DEFINE n == SetSession(w, s, x)
<1>1. /\ n \in World
      /\ n.ses[s] = x
      /\ \A t \in Sessions : t # s => n.ses[t] = w.ses[t]
      /\ n.sock = w.sock /\ n.sessions = w.sessions /\ n.queued = w.queued
      /\ n.players = w.players
      /\ n.db = w.db /\ n.saved = w.saved
    BY SetSessionFacts
<1> HIDE DEF n
<1>2. Touches(w, n, s)
    BY <1>1 DEF Touches, SameTable
<1> QED
    BY <1>1, <1>2 DEF SameData, n

(* A new key.                                                              *)
LEMMA SendConnectFacts ==
    ASSUME NEW w \in World, NEW s \in Sessions, w.ses[s].keys < MaxKeys
    PROVE  LET n == SendConnectToInstance(w, s) IN
           /\ Touches(w, n, s) /\ SameData(w, n) /\ n.sock = w.sock
           /\ n.ses[s].keys = w.ses[s].keys + 1
           /\ n.ses[s].loading = w.ses[s].loading
           /\ n.ses[s].loaded = w.ses[s].loaded
           /\ n.ses[s].player = w.ses[s].player /\ n.ses[s].at = w.ses[s].at
           /\ n.ses[s].realm = w.ses[s].realm
           /\ n.ses[s].instance = w.ses[s].instance
<1> DEFINE x == [w.ses[s] EXCEPT !.keys = @ + 1]
<1>1. SendConnectToInstance(w, s) = SetSession(w, s, x)
    BY DEF SendConnectToInstance, SetSession, World
<1>2. w.ses[s] \in SessionState /\ MaxKeys \in Nat
    BY SessionsAssumption DEF World
<1>3. x \in SessionState
    BY <1>2 DEF SessionState
<1>4. /\ x.life = w.ses[s].life /\ x.inQueue = w.ses[s].inQueue
      /\ x.loading = w.ses[s].loading /\ x.loaded = w.ses[s].loaded
      /\ x.keys = w.ses[s].keys + 1
      /\ x.player = w.ses[s].player /\ x.at = w.ses[s].at
      /\ x.realm = w.ses[s].realm /\ x.instance = w.ses[s].instance
    BY <1>2 DEF SessionState
<1> HIDE DEF x
<1> QED
    BY <1>1, <1>3, <1>4, SetSessionTouches

(* A login begins.                                                         *)
LEMMA LoginBeginsFacts ==
    ASSUME NEW w \in World, NEW s \in Sessions, w.ses[s].keys < MaxKeys
    PROVE  LET n == SendConnectToInstance([w EXCEPT !.ses[s].loading = TRUE], s) IN
           /\ Touches(w, n, s) /\ SameData(w, n) /\ n.sock = w.sock
           /\ n.ses[s].keys = w.ses[s].keys + 1
           /\ n.ses[s].loading
           /\ n.ses[s].loaded = w.ses[s].loaded
           /\ n.ses[s].player = w.ses[s].player /\ n.ses[s].at = w.ses[s].at
           /\ n.ses[s].realm = w.ses[s].realm
           /\ n.ses[s].instance = w.ses[s].instance
<1> DEFINE x == [w.ses[s] EXCEPT !.loading = TRUE]
           m == SetSession(w, s, x)
           n == SendConnectToInstance(m, s)
<1>1. [w EXCEPT !.ses[s].loading = TRUE] = m
    BY DEF SetSession, World
<1>2. w.ses[s] \in SessionState
    BY DEF World
<1>3. x \in SessionState
    BY <1>2 DEF SessionState
<1>4. /\ x.life = w.ses[s].life /\ x.inQueue = w.ses[s].inQueue
      /\ x.loading /\ x.loaded = w.ses[s].loaded
      /\ x.keys = w.ses[s].keys
      /\ x.player = w.ses[s].player /\ x.at = w.ses[s].at
      /\ x.realm = w.ses[s].realm /\ x.instance = w.ses[s].instance
    BY <1>2 DEF SessionState
<1> HIDE DEF x
<1>5. Touches(w, m, s) /\ SameData(w, m) /\ m.sock = w.sock /\ m.ses[s] = x
    BY <1>3, <1>4, SetSessionTouches
<1> HIDE DEF m
<1>6. /\ Touches(m, n, s) /\ SameData(m, n) /\ n.sock = m.sock
      /\ n.ses[s].keys = x.keys + 1
      /\ n.ses[s].loading = x.loading
      /\ n.ses[s].loaded = x.loaded
      /\ n.ses[s].player = x.player /\ n.ses[s].at = x.at
      /\ n.ses[s].realm = x.realm
      /\ n.ses[s].instance = x.instance
    BY <1>4, <1>5, SendConnectFacts DEF Touches
<1> HIDE DEF n
<1>7. Touches(w, n, s)
    BY <1>5, <1>6 DEF Touches, SameTable, InQueue
<1>8. SameData(w, n)
    BY <1>5, <1>6 DEF SameData
<1> QED
    BY <1>1, <1>4, <1>5, <1>6, <1>7, <1>8 DEF n

(* A login is given up.                                                    *)
LEMMA LoginEndsFacts ==
    ASSUME NEW w \in World, NEW s \in Sessions
    PROVE  LET n == [w EXCEPT !.ses[s].loading = FALSE] IN
           /\ Touches(w, n, s) /\ SameData(w, n) /\ n.sock = w.sock
           /\ n.ses[s].keys = w.ses[s].keys
           /\ ~n.ses[s].loading
           /\ n.ses[s].loaded = w.ses[s].loaded
           /\ n.ses[s].player = w.ses[s].player /\ n.ses[s].at = w.ses[s].at
           /\ n.ses[s].realm = w.ses[s].realm
           /\ n.ses[s].instance = w.ses[s].instance
<1> DEFINE x == [w.ses[s] EXCEPT !.loading = FALSE]
<1>1. [w EXCEPT !.ses[s].loading = FALSE] = SetSession(w, s, x)
    BY DEF SetSession, World
<1>2. w.ses[s] \in SessionState
    BY DEF World
<1>3. x \in SessionState
    BY <1>2 DEF SessionState
<1>4. /\ x.life = w.ses[s].life /\ x.inQueue = w.ses[s].inQueue
      /\ ~x.loading /\ x.loaded = w.ses[s].loaded
      /\ x.keys = w.ses[s].keys
      /\ x.player = w.ses[s].player /\ x.at = w.ses[s].at
      /\ x.realm = w.ses[s].realm /\ x.instance = w.ses[s].instance
    BY <1>2 DEF SessionState
<1> HIDE DEF x
<1> DEFINE n == SetSession(w, s, x)
<1>5. Touches(w, n, s) /\ SameData(w, n) /\ n.sock = w.sock /\ n.ses[s] = x
    BY <1>3, <1>4, SetSessionTouches
<1> HIDE DEF n
<1> QED
    BY <1>1, <1>4, <1>5 DEF n

(* The character gets further.                                             *)
LEMMA PlayFacts ==
    ASSUME NEW w \in World, NEW s \in Sessions, NEW p \in 0 .. MaxProgress
    PROVE  LET n == [w EXCEPT !.ses[s].at = p] IN
           /\ Touches(w, n, s) /\ SameData(w, n) /\ n.sock = w.sock
           /\ n.ses[s].keys = w.ses[s].keys
           /\ n.ses[s].loading = w.ses[s].loading
           /\ n.ses[s].loaded = w.ses[s].loaded
           /\ n.ses[s].player = w.ses[s].player /\ n.ses[s].at = p
           /\ n.ses[s].realm = w.ses[s].realm
           /\ n.ses[s].instance = w.ses[s].instance
<1> DEFINE x == [w.ses[s] EXCEPT !.at = p]
<1>1. [w EXCEPT !.ses[s].at = p] = SetSession(w, s, x)
    BY DEF SetSession, World
<1>2. w.ses[s] \in SessionState
    BY DEF World
<1>3. x \in SessionState
    BY <1>2 DEF SessionState
<1>4. /\ x.life = w.ses[s].life /\ x.inQueue = w.ses[s].inQueue
      /\ x.loading = w.ses[s].loading /\ x.loaded = w.ses[s].loaded
      /\ x.keys = w.ses[s].keys
      /\ x.player = w.ses[s].player /\ x.at = p
      /\ x.realm = w.ses[s].realm /\ x.instance = w.ses[s].instance
    BY <1>2 DEF SessionState
<1> HIDE DEF x
<1> DEFINE n == SetSession(w, s, x)
<1>5. Touches(w, n, s) /\ SameData(w, n) /\ n.sock = w.sock /\ n.ses[s] = x
    BY <1>3, <1>4, SetSessionTouches
<1> HIDE DEF n
<1> QED
    BY <1>1, <1>4, <1>5 DEF n

(* m_inQueue of a session that is not in the queue is reset.               *)
LEMMA InitializedFacts ==
    ASSUME NEW w \in World, NEW s \in Sessions, ~InQueue(w, s)
    PROVE  LET n == InitializeSessionCallback(w, s) IN
           /\ Touches(w, n, s) /\ SameData(w, n) /\ n.sock = w.sock
           /\ n.ses[s].keys = w.ses[s].keys
           /\ n.ses[s].loading = w.ses[s].loading
           /\ n.ses[s].loaded = w.ses[s].loaded
           /\ n.ses[s].player = w.ses[s].player /\ n.ses[s].at = w.ses[s].at
           /\ n.ses[s].realm = w.ses[s].realm
           /\ n.ses[s].instance = w.ses[s].instance
<1> DEFINE x == [w.ses[s] EXCEPT !.inQueue = FALSE]
           n == SetSession(w, s, x)
<1>1. InitializeSessionCallback(w, s) = n
    BY DEF InitializeSessionCallback, SetSession, World
<1>2. w.ses[s] \in SessionState
    BY DEF World
<1>3. x \in SessionState
    BY <1>2 DEF SessionState
<1>4. /\ x.life = w.ses[s].life
      /\ x.loading = w.ses[s].loading /\ x.loaded = w.ses[s].loaded
      /\ x.keys = w.ses[s].keys
      /\ x.player = w.ses[s].player /\ x.at = w.ses[s].at
      /\ x.realm = w.ses[s].realm /\ x.instance = w.ses[s].instance
    BY <1>2 DEF SessionState
<1> HIDE DEF x
<1>5. /\ n \in World
      /\ n.ses[s] = x
      /\ \A t \in Sessions : t # s => n.ses[t] = w.ses[t]
      /\ n.sock = w.sock /\ n.sessions = w.sessions /\ n.queued = w.queued
      /\ n.players = w.players
      /\ n.db = w.db /\ n.saved = w.saved
    BY <1>3, SetSessionFacts
<1> HIDE DEF n
<1>6. Touches(w, n, s) /\ SameData(w, n)
    BY <1>4, <1>5 DEF Touches, SameTable, SameData
<1> QED
    BY <1>1, <1>4, <1>5, <1>6

(* The first answer, and the rest.                                         *)
LEMMA AnswerFields ==
    ASSUME NEW S, NEW q \in Seq(S), q # <<>>
    PROVE  Head(q) \in S /\ Tail(q) \in Seq(S)
    OBVIOUS

(* The answer of the login query makes a player,                           *)
LEMMA HandleLoginFacts ==
    ASSUME NEW w \in World, NEW s \in Sessions, w.ses[s].loaded # <<>>
    PROVE  LET n == HandlePlayerLogin(w, s) IN
           /\ Touches(w, n, s) /\ n.sock = w.sock /\ n.db = w.db
           /\ \A b \in Accounts :
                n.players[b] = IF b = Account[s] THEN w.players[b] + 1 ELSE w.players[b]
           /\ n.ses[s].keys = w.ses[s].keys
           /\ ~n.ses[s].loading
           /\ n.ses[s].loaded = Tail(w.ses[s].loaded)
           /\ n.ses[s].player /\ n.ses[s].at = Head(w.ses[s].loaded)
           /\ n.ses[s].realm = w.ses[s].realm
           /\ n.ses[s].instance = w.ses[s].instance
<1> DEFINE x == [w.ses[s] EXCEPT !.player = TRUE, !.at = Head(w.ses[s].loaded),
                                 !.loaded = Tail(@), !.loading = FALSE]
           m == SetSession(w, s, x)
           c == w.players[Account[s]] + 1
           n == SetPlayers(m, Account[s], c)
<1>0. Account[s] \in Accounts
    BY SessionsAssumption
<1>1. HandlePlayerLogin(w, s) = n
  <2> DEFINE l == [w EXCEPT !.ses[s].player = TRUE, !.ses[s].at = Head(w.ses[s].loaded),
                            !.ses[s].loaded = Tail(@), !.ses[s].loading = FALSE]
  <2>1. HandlePlayerLogin(w, s) = [l EXCEPT !.players[Account[s]] = @ + 1]
      BY <1>0 DEF HandlePlayerLogin, World, SessionState
  <2>2. l = m
      BY DEF SetSession, World, SessionState
  <2> HIDE DEF l, x
  <2>3. m.players = w.players
      BY DEF SetSession, World
  <2> QED
      BY <2>1, <2>2, <2>3 DEF SetPlayers
<1>2. w.ses[s] \in SessionState /\ w.players \in [Accounts -> Nat]
    BY DEF World
<1>3. /\ Head(w.ses[s].loaded) \in 0 .. MaxProgress
      /\ Tail(w.ses[s].loaded) \in Seq(0 .. MaxProgress)
    BY <1>2, SessionFields, AnswerFields
<1>4. x \in SessionState
    BY <1>2, <1>3 DEF SessionState
<1>5. /\ x.life = w.ses[s].life /\ x.inQueue = w.ses[s].inQueue
      /\ ~x.loading /\ x.loaded = Tail(w.ses[s].loaded)
      /\ x.keys = w.ses[s].keys
      /\ x.player /\ x.at = Head(w.ses[s].loaded)
      /\ x.realm = w.ses[s].realm /\ x.instance = w.ses[s].instance
    BY <1>2 DEF SessionState
<1>6. c \in Nat
    BY <1>0, <1>2
<1> HIDE DEF x, c
<1>7. Touches(w, m, s) /\ SameData(w, m) /\ m.sock = w.sock /\ m.ses[s] = x
    BY <1>4, <1>5, SetSessionTouches
<1> HIDE DEF m
<1>8. /\ n \in World
      /\ \A b \in Accounts : n.players[b] = IF b = Account[s] THEN c ELSE m.players[b]
      /\ n.ses = m.ses /\ n.sock = m.sock /\ n.sessions = m.sessions
      /\ n.queued = m.queued
      /\ n.db = m.db /\ n.saved = m.saved
    BY <1>0, <1>6, <1>7, SetPlayersFacts DEF Touches
<1> HIDE DEF n
<1>9. Touches(w, n, s)
    BY <1>7, <1>8 DEF Touches, SameTable
<1>10. \A b \in Accounts :
        n.players[b] = IF b = Account[s] THEN w.players[b] + 1 ELSE w.players[b]
    BY <1>7, <1>8 DEF SameData, c
<1> QED
    BY <1>1, <1>5, <1>7, <1>8, <1>9, <1>10 DEF SameData

(* or does not.                                                            *)
LEMMA LoginFailedFacts ==
    ASSUME NEW w \in World, NEW s \in Sessions, w.ses[s].loaded # <<>>
    PROVE  LET n == HandlePlayerLoginFailed(w, s) IN
           /\ Touches(w, n, s) /\ SameData(w, n) /\ SocketsLess(w, n)
           /\ \A k \in Held(w, s) : k \in Sockets => ~IsOpen(n, k)
           /\ n.ses[s].keys = w.ses[s].keys
           /\ ~n.ses[s].loading
           /\ n.ses[s].loaded = Tail(w.ses[s].loaded)
           /\ ~n.ses[s].player /\ n.ses[s].at = w.ses[s].at
           /\ n.ses[s].realm = w.ses[s].realm
           /\ n.ses[s].instance = w.ses[s].instance
<1> DEFINE k == KickPlayer(w, s)
           x == [k.ses[s] EXCEPT !.player = FALSE, !.loaded = Tail(@), !.loading = FALSE]
           n == SetSession(k, s, x)
<1>1. /\ k \in World
      /\ k.ses = w.ses /\ k.sessions = w.sessions /\ k.queued = w.queued
      /\ k.players = w.players /\ k.db = w.db /\ k.saved = w.saved
      /\ SocketsLess(w, k)
      /\ \A c \in Sockets : c \in Held(w, s) => ~IsOpen(k, c)
    BY CloseFacts DEF KickPlayer
<1> HIDE DEF k
<1>2. HandlePlayerLoginFailed(w, s) = n
    BY <1>1 DEF HandlePlayerLoginFailed, SetSession, World, SessionState, k
<1>3. k.ses[s] = w.ses[s] /\ w.ses[s] \in SessionState
    BY <1>1 DEF World
<1>4. Tail(w.ses[s].loaded) \in Seq(0 .. MaxProgress)
    BY <1>3, SessionFields, AnswerFields
<1>5. x \in SessionState
    BY <1>3, <1>4 DEF SessionState
<1>6. /\ x.life = w.ses[s].life /\ x.inQueue = w.ses[s].inQueue
      /\ ~x.loading /\ x.loaded = Tail(w.ses[s].loaded)
      /\ x.keys = w.ses[s].keys
      /\ ~x.player /\ x.at = w.ses[s].at
      /\ x.realm = w.ses[s].realm /\ x.instance = w.ses[s].instance
    BY <1>3 DEF SessionState
<1> HIDE DEF x
<1>7. Touches(k, n, s) /\ SameData(k, n) /\ n.sock = k.sock /\ n.ses[s] = x
    BY <1>1, <1>3, <1>5, <1>6, SetSessionTouches
<1> HIDE DEF n
<1>8. Touches(w, n, s)
    BY <1>1, <1>7 DEF Touches, SameTable, InQueue
<1>9. SocketsLess(w, n) /\ \A c \in Held(w, s) : c \in Sockets => ~IsOpen(n, c)
    BY <1>1, <1>7 DEF SocketsLess, Reads, IsOpen
<1>10. SameData(w, n)
    BY <1>1, <1>7 DEF SameData
<1> QED
    BY <1>2, <1>6, <1>7, <1>8, <1>9, <1>10

(* A session lets its sockets go.                                          *)
Freed(w, s) ==
    [Close(w, Held(w, s)) EXCEPT !.ses[s].realm = FALSE, !.ses[s].instance = 0]

(* Its sockets are closed, the rest of it stays.                           *)
LEMMA FreedFacts ==
    ASSUME NEW w \in World, NEW s \in Sessions
    PROVE  LET n == Freed(w, s) IN
           /\ Touches(w, n, s) /\ SameData(w, n) /\ SocketsLess(w, n)
           /\ \A k \in Held(w, s) : k \in Sockets => ~IsOpen(n, k)
           /\ n.ses[s].keys = w.ses[s].keys
           /\ n.ses[s].loading = w.ses[s].loading
           /\ n.ses[s].loaded = w.ses[s].loaded
           /\ n.ses[s].player = w.ses[s].player /\ n.ses[s].at = w.ses[s].at
           /\ ~n.ses[s].realm
           /\ n.ses[s].instance = 0
<1> DEFINE k == Close(w, Held(w, s))
           x == [k.ses[s] EXCEPT !.realm = FALSE, !.instance = 0]
           n == SetSession(k, s, x)
<1>1. /\ k \in World
      /\ k.ses = w.ses /\ k.sessions = w.sessions /\ k.queued = w.queued
      /\ k.players = w.players /\ k.db = w.db /\ k.saved = w.saved
      /\ SocketsLess(w, k)
      /\ \A c \in Sockets : c \in Held(w, s) => ~IsOpen(k, c)
    BY CloseFacts
<1> HIDE DEF k
<1>2. Freed(w, s) = n
    BY <1>1 DEF Freed, SetSession, World, SessionState, k
<1>3. k.ses[s] = w.ses[s] /\ w.ses[s] \in SessionState /\ 0 \in 0 .. MaxKeys
    BY <1>1, SessionsAssumption DEF World
<1>5. x \in SessionState
    BY <1>3 DEF SessionState
<1>6. /\ x.life = w.ses[s].life /\ x.inQueue = w.ses[s].inQueue
      /\ x.loading = w.ses[s].loading /\ x.loaded = w.ses[s].loaded
      /\ x.keys = w.ses[s].keys
      /\ x.player = w.ses[s].player /\ x.at = w.ses[s].at
      /\ ~x.realm /\ x.instance = 0
    BY <1>3 DEF SessionState
<1> HIDE DEF x
<1>7. Touches(k, n, s) /\ SameData(k, n) /\ n.sock = k.sock /\ n.ses[s] = x
    BY <1>1, <1>3, <1>5, <1>6, SetSessionTouches
<1> HIDE DEF n
<1>8. Touches(w, n, s)
    BY <1>1, <1>7 DEF Touches, SameTable, InQueue
<1>9. SocketsLess(w, n) /\ \A c \in Held(w, s) : c \in Sockets => ~IsOpen(n, c)
    BY <1>1, <1>7 DEF SocketsLess, Reads, IsOpen
<1>10. SameData(w, n)
    BY <1>1, <1>7 DEF SameData
<1> QED
    BY <1>2, <1>6, <1>7, <1>8, <1>9, <1>10

(* A connection joins its session.                                         *)
Joined(w, k) ==
    [w EXCEPT !.sock[k].session = TRUE, !.ses[k[1]].instance = k[2]]

(* The state of the connections does not change, nor do other sessions.    *)
LEMMA JoinedFacts ==
    ASSUME NEW w \in World, NEW k \in Sockets
    PROVE  LET n == Joined(w, k)
               s == k[1]
           IN /\ Touches(w, n, s) /\ SameData(w, n)
              /\ \A c \in Sockets : n.sock[c].state = w.sock[c].state
              /\ \A c \in Sockets : c # k => n.sock[c] = w.sock[c]
              /\ n.ses[s].keys = w.ses[s].keys
              /\ n.ses[s].loading = w.ses[s].loading
              /\ n.ses[s].loaded = w.ses[s].loaded
              /\ n.ses[s].player = w.ses[s].player /\ n.ses[s].at = w.ses[s].at
              /\ n.ses[s].realm = w.ses[s].realm
              /\ n.ses[s].instance = k[2]
<1> DEFINE s == k[1]
           c == [w.sock EXCEPT ![k] = [w.sock[k] EXCEPT !.session = TRUE]]
           m == [w EXCEPT !.sock = c]
           x == [m.ses[s] EXCEPT !.instance = k[2]]
           n == SetSession(m, s, x)
<1>0. s \in Sessions /\ k[2] \in 0 .. MaxKeys
    BY DEF Sockets
<1>1. Joined(w, k) = n
  <2>1. Joined(w, k) = [m EXCEPT !.ses[s].instance = k[2]]
      BY <1>0 DEF Joined, World, SocketState
  <2> HIDE DEF m
  <2> QED
      BY <2>1 DEF SetSession
<1>2. w.sock \in [Sockets -> SocketState] /\ w.sock[k] \in SocketState
    BY DEF World
<1>3. /\ c \in [Sockets -> SocketState]
      /\ \A j \in Sockets : c[j].state = w.sock[j].state
      /\ \A j \in Sockets : j # k => c[j] = w.sock[j]
    BY <1>2 DEF SocketState
<1> HIDE DEF c
<1>4. /\ m \in World /\ m.sock = c
      /\ m.ses = w.ses /\ m.sessions = w.sessions /\ m.queued = w.queued
      /\ m.players = w.players /\ m.db = w.db /\ m.saved = w.saved
    BY <1>3 DEF World
<1> HIDE DEF m
<1>5. m.ses[s] = w.ses[s] /\ w.ses[s] \in SessionState
    BY <1>0, <1>4 DEF World
<1>6. x \in SessionState
    BY <1>0, <1>5 DEF SessionState
<1>7. /\ x.life = w.ses[s].life /\ x.inQueue = w.ses[s].inQueue
      /\ x.loading = w.ses[s].loading /\ x.loaded = w.ses[s].loaded
      /\ x.keys = w.ses[s].keys
      /\ x.player = w.ses[s].player /\ x.at = w.ses[s].at
      /\ x.realm = w.ses[s].realm /\ x.instance = k[2]
    BY <1>5 DEF SessionState
<1> HIDE DEF x
<1>8. Touches(m, n, s) /\ SameData(m, n) /\ n.sock = m.sock /\ n.ses[s] = x
    BY <1>0, <1>4, <1>5, <1>6, <1>7, SetSessionTouches
<1> HIDE DEF n
<1>9. Touches(w, n, s)
    BY <1>0, <1>4, <1>8 DEF Touches, SameTable, InQueue
<1>10. SameData(w, n)
    BY <1>4, <1>8 DEF SameData
<1> QED
    BY <1>1, <1>3, <1>4, <1>7, <1>8, <1>9, <1>10

QueryTask(s) == [save |-> FALSE, of |-> s, at |-> 0]

(* A task of s is posted.                                                  *)
LEMMA PostedTouches ==
    ASSUME NEW w \in World, NEW s \in Sessions, NEW task \in Task, task.of = s
    PROVE  LET n == Posted(w, task) IN
           /\ Touches(w, n, s) /\ NoTask(w, n, s)
           /\ n.ses = w.ses /\ n.sock = w.sock /\ n.players = w.players
           /\ DOMAIN w.db = 1 .. Len(w.db) /\ Len(w.db) \in Nat
           /\ DOMAIN n.db = 1 .. Len(w.db) + 1
           /\ \A i \in DOMAIN w.db : n.db[i] = w.db[i]
           /\ n.db[Len(w.db) + 1] = task
<1> DEFINE n == Posted(w, task)
<1>1. /\ n \in World
      /\ n.db = Append(w.db, task)
      /\ n.ses = w.ses /\ n.sock = w.sock /\ n.sessions = w.sessions
      /\ n.queued = w.queued
      /\ n.players = w.players /\ n.saved = w.saved
    BY PostedFacts
<1> HIDE DEF n
<1>2. w.db \in Seq(Task)
    BY DEF World
<1>3. /\ DOMAIN w.db = 1 .. Len(w.db) /\ Len(w.db) \in Nat
      /\ DOMAIN n.db = 1 .. Len(w.db) + 1
      /\ \A i \in DOMAIN w.db : n.db[i] = w.db[i]
      /\ n.db[Len(w.db) + 1] = task
    BY <1>1, <1>2
<1>4. Touches(w, n, s)
    BY <1>1 DEF Touches, SameTable
<1>5. NoTask(w, n, s)
  <2>1. \A i \in DOMAIN n.db : i \in DOMAIN w.db \/ i = Len(w.db) + 1
      BY <1>3
  <2> QED
      BY <1>3, <2>1 DEF NoTask
<1> QED
    BY <1>1, <1>3, <1>4, <1>5 DEF n

(* A login query is such a task.                                           *)
LEMMA QueryTaskType ==
    ASSUME NEW w \in World, NEW s \in Sessions
    PROVE  /\ QueryTask(s) \in Task
           /\ [w EXCEPT !.db = Append(@, QueryTask(s))] = Posted(w, QueryTask(s))
    BY SessionsAssumption DEF QueryTask, Task, Posted

-----------------------------------------------------------------------------
(* The database has done its first task.                                   *)
Executed(w, n) ==
    LET task == w.db[1]
        s == task.of
    IN /\ n \in World
       /\ SameTable(w, n)
       /\ n.players = w.players /\ n.sock = w.sock
       /\ n.db = Tail(w.db)
       /\ \A t \in Sessions :
            t # s \/ task.save \/ w.ses[s].life # "known" => n.ses[t] = w.ses[t]
       /\ \A a \in Accounts :
            n.saved[a] = IF task.save /\ a = Account[s] THEN task.at ELSE w.saved[a]
       /\ ~task.save /\ w.ses[s].life = "known" =>
            /\ Touches([w EXCEPT !.db = Tail(w.db)], n, s)
            /\ n.ses[s].keys = w.ses[s].keys
            /\ n.ses[s].loading = w.ses[s].loading
            /\ n.ses[s].loaded = Append(w.ses[s].loaded, w.saved[Account[s]])
            /\ n.ses[s].player = w.ses[s].player /\ n.ses[s].at = w.ses[s].at
            /\ n.ses[s].realm = w.ses[s].realm
            /\ n.ses[s].instance = w.ses[s].instance

(* What Execute makes of the world.                                        *)
AfterTask(w) ==
    LET task == Head(w.db)
        done == [w EXCEPT !.db = Tail(@)]
        a    == Account[task.of]
    IN CASE task.save -> [done EXCEPT !.saved[a] = task.at]
         [] ~task.save /\ w.ses[task.of].life = "known"
             -> [done EXCEPT !.ses[task.of].loaded = Append(@, w.saved[a])]
         [] OTHER -> done

(* Execute does one task.                                                  *)
LEMMA ExecutedFacts ==
    ASSUME NEW w \in World, w.db # <<>>
    PROVE  Executed(w, AfterTask(w))
<1> DEFINE task == w.db[1]
           s == task.of
           a == Account[s]
           done == [w EXCEPT !.db = Tail(w.db)]
           n == AfterTask(w)
<1>1. w.db \in Seq(Task) /\ Head(w.db) = task
    BY DEF World
<1>2. task \in Task /\ Tail(w.db) \in Seq(Task)
    BY <1>1
<1>3. s \in Sessions /\ a \in Accounts /\ task.at \in 0 .. MaxProgress
        /\ task.save \in BOOLEAN
    BY <1>2, SessionsAssumption DEF Task
<1>4. /\ done \in World /\ done.db = Tail(w.db)
      /\ done.ses = w.ses /\ done.sock = w.sock /\ done.sessions = w.sessions
      /\ done.queued = w.queued
      /\ done.players = w.players /\ done.saved = w.saved
    BY <1>2 DEF World
<1> HIDE DEF task
<1>5. CASE task.save
  <2>1. n = [done EXCEPT !.saved[a] = task.at]
      BY <1>1, <1>5 DEF AfterTask
  <2> HIDE DEF done
  <2> DEFINE v == [done.saved EXCEPT ![a] = task.at]
  <2>a. done.saved \in [Accounts -> 0 .. MaxProgress]
      BY <1>4 DEF World
  <2>b. v \in [Accounts -> 0 .. MaxProgress] /\ n = [done EXCEPT !.saved = v]
      BY <1>3, <2>1, <2>a
  <2> HIDE DEF n, v
  <2>2. /\ n \in World /\ n.db = done.db
        /\ n.ses = done.ses /\ n.sock = done.sock /\ n.sessions = done.sessions
        /\ n.queued = done.queued /\ n.players = done.players
        /\ n.saved = v
      BY <1>4, <2>b DEF World
  <2>3. \A b \in Accounts : n.saved[b] = IF b = a THEN task.at ELSE w.saved[b]
      BY <1>4, <2>2, <2>a DEF v
  <2> QED
      BY <1>4, <1>5, <2>2, <2>3 DEF Executed, SameTable, n, task
<1>6. CASE ~task.save /\ w.ses[s].life = "known"
  <2> DEFINE x == [done.ses[s] EXCEPT !.loaded = Append(@, w.saved[a])]
             m == SetSession(done, s, x)
  <2>1. n = m
    <3>1. n = [done EXCEPT !.ses[s].loaded = Append(@, w.saved[a])]
        BY <1>1, <1>6 DEF AfterTask
    <3> HIDE DEF done
    <3> QED
        BY <3>1 DEF SetSession, World
  <2> HIDE DEF done, n
  <2>2. done.ses[s] = w.ses[s] /\ w.ses[s] \in SessionState
      BY <1>3, <1>4 DEF World
  <2>3. w.saved[a] \in 0 .. MaxProgress /\ w.ses[s].loaded \in Seq(0 .. MaxProgress)
      BY <1>3, <2>2, SessionFields DEF World
  <2>4. Append(w.ses[s].loaded, w.saved[a]) \in Seq(0 .. MaxProgress)
      BY <2>3
  <2>5. x \in SessionState
      BY <2>2, <2>4 DEF SessionState
  <2>6. /\ x.life = w.ses[s].life /\ x.inQueue = w.ses[s].inQueue
        /\ x.loading = w.ses[s].loading
        /\ x.loaded = Append(w.ses[s].loaded, w.saved[a])
        /\ x.keys = w.ses[s].keys
        /\ x.player = w.ses[s].player /\ x.at = w.ses[s].at
        /\ x.realm = w.ses[s].realm /\ x.instance = w.ses[s].instance
      BY <2>2 DEF SessionState
  <2> HIDE DEF x
  <2>7. Touches(done, m, s) /\ SameData(done, m) /\ m.sock = done.sock /\ m.ses[s] = x
      BY <1>3, <1>4, <2>2, <2>5, <2>6, SetSessionTouches
  <2> HIDE DEF m
  <2>8. \A t \in Sessions : t # s => m.ses[t] = w.ses[t]
      BY <1>4, <2>7 DEF Touches
  <2>9. m \in World /\ SameTable(w, m)
      BY <1>4, <2>7 DEF Touches, SameTable
  <2>10. m.players = w.players /\ m.sock = w.sock /\ m.db = Tail(w.db) /\ m.saved = w.saved
      BY <1>4, <2>7 DEF SameData
  <2>11. Touches([w EXCEPT !.db = Tail(w.db)], m, s)
      BY <2>7 DEF done
  <2> QED
      BY <1>6, <2>1, <2>6, <2>7, <2>8, <2>9, <2>10, <2>11 DEF Executed, task, n
<1>7. CASE ~task.save /\ w.ses[s].life # "known"
  <2>1. n = done
      BY <1>1, <1>7 DEF AfterTask
  <2> QED
      BY <1>4, <1>7, <2>1 DEF Executed, SameTable, task
<1> QED
    BY <1>3, <1>5, <1>6, <1>7

(* The tasks move up.                                                      *)
LEMMA ExecutedTasks ==
    ASSUME NEW w \in World, w.db # <<>>, NEW n, Executed(w, n)
    PROVE  /\ DOMAIN w.db = 1 .. Len(w.db) /\ Len(w.db) \in Nat /\ Len(w.db) > 0
           /\ DOMAIN n.db = 1 .. Len(w.db) - 1
           /\ \A i \in DOMAIN n.db : i + 1 \in DOMAIN w.db /\ n.db[i] = w.db[i + 1]
           /\ 1 \in DOMAIN w.db
<1>1. w.db \in Seq(Task) /\ n.db = Tail(w.db)
    BY DEF World, Executed
<1> QED
    BY <1>1

(* It answers only those in the table.                                     *)
LEMMA ExecutedTable ==
    ASSUME NEW w \in World, TableWorld(w), w.db # <<>>, NEW n, Executed(w, n)
    PROVE  TableWorld(n)
<1> DEFINE task == w.db[1]
           s == task.of
<1>1. n \in World /\ SameTable(w, n) /\ n.players = w.players
    BY DEF Executed
<1>2. /\ 1 \in DOMAIN w.db /\ s \in Sessions
      /\ \A i \in DOMAIN n.db : i + 1 \in DOMAIN w.db /\ n.db[i] = w.db[i + 1]
    BY ExecutedTasks, QueuesFields
<1>3. ~task.save /\ w.ses[s].life = "known" =>
        /\ IsListed(w, s)
        /\ n.ses[s].life = w.ses[s].life
        /\ n.ses[s].player = w.ses[s].player
        /\ InQueue(w, s) /\ w.ses[s].inQueue => n.ses[s].inQueue
  <2> SUFFICES ASSUME ~task.save, w.ses[s].life = "known"
               PROVE  /\ IsListed(w, s)
                      /\ n.ses[s].life = w.ses[s].life
                      /\ n.ses[s].player = w.ses[s].player
                      /\ InQueue(w, s) /\ w.ses[s].inQueue => n.ses[s].inQueue
      OBVIOUS
  <2>1. IsListed(w, s)
      BY <1>2 DEF TableWorld, QueriesListed, IsQuery
  <2> DEFINE done == [w EXCEPT !.db = Tail(w.db)]
  <2>2. Touches(done, n, s)
      BY DEF Executed
  <2>3. done.ses = w.ses /\ done.queued = w.queued
      BY DEF World
  <2> HIDE DEF done
  <2>4. n.ses[s].player = w.ses[s].player
      BY DEF Executed
  <2> QED
      BY <2>1, <2>2, <2>3, <2>4 DEF Touches, InQueue
<1>4. \A t \in Sessions : t # s \/ ~(~task.save /\ w.ses[s].life = "known") =>
        n.ses[t] = w.ses[t]
    BY DEF Executed
<1> HIDE DEF s, task
<1>5. \A t \in Sessions : n.ses[t].life = w.ses[t].life
    BY <1>2, <1>3, <1>4
<1>6. \A t \in Sessions : ~IsListed(w, t) => Idle(n.ses[t])
    BY <1>2, <1>3, <1>4 DEF TableWorld, TableSound
<1>7. \A t \in Sessions : InQueue(w, t) /\ w.ses[t].inQueue => n.ses[t].inQueue
    BY <1>2, <1>3, <1>4
<1>8. PlayersEnough(n)
  <2>1. \A t \in Sessions : n.ses[t].player = w.ses[t].player
      BY <1>2, <1>3, <1>4
  <2>2. \A b \in Accounts : Plays(n, b) => Plays(w, b)
      BY <1>1, <2>1, ListedSessions DEF Plays, SameTable, TableWorld
  <2> QED
      BY <1>1, <2>2 DEF PlayersEnough, TableWorld
<1>9. QueriesListed(n)
  <2> SUFFICES ASSUME NEW i \in DOMAIN n.db, IsQuery(n, i)
               PROVE  IsListed(n, n.db[i].of)
      BY DEF QueriesListed
  <2>1. i + 1 \in DOMAIN w.db /\ n.db[i] = w.db[i + 1] /\ w.db[i + 1].of \in Sessions
      BY <1>2, QueuesFields
  <2>2. IsQuery(w, i + 1)
      BY <1>5, <2>1 DEF IsQuery
  <2> QED
      BY <1>1, <2>1, <2>2 DEF TableWorld, QueriesListed, IsListed, SameTable
<1> QED
    BY <1>1, <1>5, <1>6, <1>7, <1>8, <1>9, TableKept

(* A session comes to life.                                                *)
Authenticated(w, s) ==
    [w EXCEPT !.ses[s].life = "new", !.ses[s].realm = TRUE,
              !.sock[Realm(s)].state = "open",
              !.sock[Realm(s)].session = TRUE]

(* Nothing but its life and its first socket is new.                       *)
LEMMA AuthenticatedFacts ==
    ASSUME NEW w \in World, NEW s \in Sessions
    PROVE  LET n == Authenticated(w, s)
           IN /\ n \in World /\ SameTable(w, n) /\ SameData(w, n)
              /\ \A t \in Sessions : t # s => n.ses[t] = w.ses[t]
              /\ n.ses[s].life = "new" /\ n.ses[s].inQueue = w.ses[s].inQueue
              /\ n.ses[s].loading = w.ses[s].loading
              /\ n.ses[s].loaded = w.ses[s].loaded /\ n.ses[s].keys = w.ses[s].keys
              /\ n.ses[s].player = w.ses[s].player /\ n.ses[s].at = w.ses[s].at
              /\ n.ses[s].realm
              /\ n.ses[s].instance = w.ses[s].instance
              /\ Realm(s) \in Sockets
              /\ \A k \in Sockets : k # Realm(s) => n.sock[k] = w.sock[k]
              /\ n.sock[Realm(s)].state = "open" /\ n.sock[Realm(s)].session
<1> DEFINE x == [w.ses[s] EXCEPT !.life = "new", !.realm = TRUE]
           c == [w.sock EXCEPT ![Realm(s)] =
                    [w.sock[Realm(s)] EXCEPT !.state = "open", !.session = TRUE]]
           m == SetSession(w, s, x)
           n == [m EXCEPT !.sock = c]
<1>0. Realm(s) \in Sockets
    BY SessionsAssumption DEF Realm, Sockets
<1>1. Authenticated(w, s) = n
  <2> DEFINE l == [w EXCEPT !.ses[s].life = "new", !.ses[s].realm = TRUE]
  <2>1. l = m
      BY DEF SetSession, World, SessionState
  <2>2. m.sock = w.sock
      BY DEF SetSession, World
  <2>3. Authenticated(w, s)
        = [l EXCEPT !.sock[Realm(s)].state = "open", !.sock[Realm(s)].session = TRUE]
      BY <1>0 DEF Authenticated, World, SessionState, SocketState
  <2>4. m \in World
    <3>a. w.ses[s] \in SessionState
        BY DEF World
    <3>1. x \in SessionState
        BY <3>a DEF SessionState
    <3> QED
        BY <3>1, SetSessionFacts
  <2> HIDE DEF l, m
  <2>5. [m EXCEPT !.sock[Realm(s)].state = "open", !.sock[Realm(s)].session = TRUE] = n
      BY <1>0, <2>2, <2>4 DEF World, SocketState
  <2> QED
      BY <2>1, <2>3, <2>5
<1>2. w.ses[s] \in SessionState
    BY DEF World
<1>3. x \in SessionState
    BY <1>2 DEF SessionState
<1>4. /\ x.life = "new" /\ x.inQueue = w.ses[s].inQueue
      /\ x.loading = w.ses[s].loading /\ x.loaded = w.ses[s].loaded
      /\ x.keys = w.ses[s].keys
      /\ x.player = w.ses[s].player /\ x.at = w.ses[s].at
      /\ x.realm /\ x.instance = w.ses[s].instance
    BY <1>2 DEF SessionState
<1> HIDE DEF x
<1>5. /\ m \in World
      /\ m.ses[s] = x
      /\ \A t \in Sessions : t # s => m.ses[t] = w.ses[t]
      /\ m.sock = w.sock /\ m.sessions = w.sessions /\ m.queued = w.queued
      /\ m.players = w.players
      /\ m.db = w.db /\ m.saved = w.saved
    BY <1>3, SetSessionFacts
<1> HIDE DEF m
<1>6. w.sock \in [Sockets -> SocketState] /\ w.sock[Realm(s)] \in SocketState
    BY <1>0 DEF World
<1>7. /\ c \in [Sockets -> SocketState]
      /\ \A k \in Sockets : k # Realm(s) => c[k] = w.sock[k]
      /\ c[Realm(s)].state = "open" /\ c[Realm(s)].session
    BY <1>0, <1>6 DEF SocketState
<1> HIDE DEF c
<1>8. /\ n \in World /\ n.sock = c
      /\ n.ses = m.ses /\ n.sessions = m.sessions /\ n.queued = m.queued
      /\ n.players = m.players /\ n.db = m.db /\ n.saved = m.saved
    BY <1>5, <1>7 DEF World
<1> HIDE DEF n
<1>9. SameTable(w, n) /\ SameData(w, n)
    BY <1>5, <1>8 DEF SameTable, SameData
<1> QED
    BY <1>0, <1>1, <1>4, <1>5, <1>7, <1>8, <1>9

(* It is handed over to the world thread.                                  *)
LEMMA KnownFacts ==
    ASSUME NEW w \in World, NEW s \in Sessions
    PROVE  LET n == [w EXCEPT !.ses[s].life = "known"] IN
           /\ n \in World /\ SameTable(w, n) /\ SameData(w, n) /\ n.sock = w.sock
           /\ \A t \in Sessions : t # s => n.ses[t] = w.ses[t]
           /\ n.ses[s].life = "known" /\ n.ses[s].inQueue = w.ses[s].inQueue
           /\ n.ses[s].loading = w.ses[s].loading
           /\ n.ses[s].loaded = w.ses[s].loaded /\ n.ses[s].keys = w.ses[s].keys
           /\ n.ses[s].player = w.ses[s].player /\ n.ses[s].at = w.ses[s].at
           /\ n.ses[s].realm = w.ses[s].realm
           /\ n.ses[s].instance = w.ses[s].instance
<1> DEFINE x == [w.ses[s] EXCEPT !.life = "known"]
           n == SetSession(w, s, x)
<1>1. [w EXCEPT !.ses[s].life = "known"] = n
    BY DEF SetSession, World
<1>2. w.ses[s] \in SessionState
    BY DEF World
<1>3. x \in SessionState
    BY <1>2 DEF SessionState
<1>4. /\ x.life = "known" /\ x.inQueue = w.ses[s].inQueue
      /\ x.loading = w.ses[s].loading /\ x.loaded = w.ses[s].loaded
      /\ x.keys = w.ses[s].keys
      /\ x.player = w.ses[s].player /\ x.at = w.ses[s].at
      /\ x.realm = w.ses[s].realm /\ x.instance = w.ses[s].instance
    BY <1>2 DEF SessionState
<1> HIDE DEF x
<1>5. /\ n \in World
      /\ n.ses[s] = x
      /\ \A t \in Sessions : t # s => n.ses[t] = w.ses[t]
      /\ n.sock = w.sock /\ n.sessions = w.sessions /\ n.queued = w.queued
      /\ n.players = w.players
      /\ n.db = w.db /\ n.saved = w.saved
    BY <1>3, SetSessionFacts
<1> HIDE DEF n
<1>6. SameTable(w, n) /\ SameData(w, n)
    BY <1>5 DEF SameTable, SameData
<1> QED
    BY <1>1, <1>4, <1>5, <1>6

(* The second connection of a client.                                      *)
LEMMA OpenedFacts ==
    ASSUME NEW w \in World, NEW k \in Sockets
    PROVE  LET n == [w EXCEPT !.sock[k].state = "open"] IN
           /\ n \in World /\ SameTable(w, n) /\ SameData(w, n) /\ n.ses = w.ses
           /\ \A c \in Sockets : c # k => n.sock[c] = w.sock[c]
           /\ n.sock[k].state = "open" /\ n.sock[k].session = w.sock[k].session
<1> DEFINE c == [w.sock EXCEPT ![k] = [w.sock[k] EXCEPT !.state = "open"]]
           n == [w EXCEPT !.sock = c]
<1>1. [w EXCEPT !.sock[k].state = "open"] = n
    BY DEF World
<1>2. w.sock \in [Sockets -> SocketState] /\ w.sock[k] \in SocketState
    BY DEF World
<1>3. /\ c \in [Sockets -> SocketState]
      /\ \A j \in Sockets : j # k => c[j] = w.sock[j]
      /\ c[k].state = "open" /\ c[k].session = w.sock[k].session
    BY <1>2 DEF SocketState
<1> HIDE DEF c
<1>4. /\ n \in World /\ n.sock = c
      /\ n.ses = w.ses /\ n.sessions = w.sessions /\ n.queued = w.queued
      /\ n.players = w.players /\ n.db = w.db /\ n.saved = w.saved
    BY <1>3 DEF World
<1> HIDE DEF n
<1>5. SameTable(w, n) /\ SameData(w, n)
    BY <1>4 DEF SameTable, SameData
<1> QED
    BY <1>1, <1>3, <1>4, <1>5

(* KickAll clears the queue, and closes what there is.                     *)
LEMMA KickedAllFacts ==
    ASSUME NEW w \in World, NEW socks
    PROVE  LET n == Close([w EXCEPT !.queued = <<>>], socks) IN
           /\ n \in World
           /\ n.queued = <<>> /\ n.sessions = w.sessions /\ n.ses = w.ses
           /\ SameData(w, n)
           /\ SocketsLess(w, n)
           /\ \A k \in Sockets : k \in socks => ~IsOpen(n, k)
<1> DEFINE m == SetQueued(w, <<>>)
           n == Close(m, socks)
<1>1. /\ m \in World /\ m.queued = <<>>
      /\ m.ses = w.ses /\ m.sock = w.sock /\ m.sessions = w.sessions
      /\ m.players = w.players /\ m.db = w.db /\ m.saved = w.saved
  <2>1. <<>> \in Seq(Sessions)
      OBVIOUS
  <2> QED
      BY <2>1, SetQueuedFacts
<1>2. m = [w EXCEPT !.queued = <<>>]
    BY DEF SetQueued
<1> HIDE DEF m
<1>3. /\ n \in World
      /\ n.ses = m.ses /\ n.sessions = m.sessions /\ n.queued = m.queued
      /\ n.players = m.players /\ n.db = m.db /\ n.saved = m.saved
      /\ SocketsLess(m, n)
      /\ \A k \in Sockets : k \in socks => ~IsOpen(n, k)
    BY <1>1, CloseFacts
<1>4. n = Close([w EXCEPT !.queued = <<>>], socks)
    BY <1>2
<1> HIDE DEF n
<1>5. SocketsLess(w, n)
    BY <1>1, <1>3 DEF SocketsLess, Reads, IsOpen
<1> QED
    BY <1>1, <1>3, <1>4, <1>5 DEF SameData

-----------------------------------------------------------------------------
(* The methods keep the table.                                             *)

(* A quiet change keeps the sessions that are known,                       *)
LEMMA QuietStays ==
    ASSUME NEW w, NEW n, Quiet(w, n)
    PROVE  n \in World /\ Stays(w, n)
    BY DEF Quiet, SameSession, SameTable, Stays

(* and so does a step for one of them.                                     *)
LEMMA TouchesStays ==
    ASSUME NEW w, NEW n, NEW s \in Sessions, Touches(w, n, s)
    PROVE  n \in World /\ Stays(w, n)
    BY DEF Touches, SameTable, Stays

(* What is not in the database, and the players, are untouched.            *)
LEMMA TouchesQuietTable ==
    ASSUME NEW w \in World, TableWorld(w), NEW n, NEW s \in Sessions,
           Touches(w, n, s), IsListed(w, s), SameData(w, n),
           n.ses[s].player => w.ses[s].player
    PROVE  n \in World /\ TableWorld(n) /\ Stays(w, n)
<1>0. Account[s] \in Accounts /\ s # None
    BY SessionsAssumption
<1>1. NoTask(w, n, s)
    BY DEF SameData, NoTask
<1>2. n.players = w.players
    BY DEF SameData
<1>3. w.ses[s].player => w.players[Account[s]] > 0
    BY <1>0 DEF TableWorld, PlayersEnough, Plays, IsListed
<1>4. TableWorld(n)
    BY <1>1, <1>2, <1>3, TouchesTable
<1> QED
    BY <1>4, TouchesStays

(* A player is counted.                                                    *)
LEMMA ListedPlayer ==
    ASSUME NEW w \in World, TableWorld(w), NEW s \in Sessions, IsListed(w, s)
    PROVE  w.ses[s].player => w.players[Account[s]] > 0
<1>0. Account[s] \in Accounts /\ s # None
    BY SessionsAssumption
<1> QED
    BY <1>0 DEF TableWorld, PlayersEnough, Plays, IsListed

(* A log out.                                                              *)
LEMMA LogoutTable ==
    ASSUME NEW w \in World, TableWorld(w), NEW s \in Sessions, IsListed(w, s)
    PROVE  LET n == LogoutPlayer(w, s) IN
           Touches(w, n, s) /\ n \in World /\ TableWorld(n) /\ Stays(w, n)
<1> DEFINE n == LogoutPlayer(w, s)
<1>1. /\ n \in World
      /\ PlayerGone(w, n, s)
      /\ n.ses[s].life = w.ses[s].life /\ n.ses[s].inQueue = w.ses[s].inQueue
      /\ ~n.ses[s].player
      /\ \A t \in Sessions : t # s => n.ses[t] = w.ses[t]
      /\ n.sessions = w.sessions /\ n.queued = w.queued
      /\ n.saved = w.saved
    BY ListedPlayer, LogoutFacts
<1> HIDE DEF n
<1>2. Touches(w, n, s)
    BY <1>1 DEF Touches, SameTable
<1>3. NoTask(w, n, s)
  <2>1. SaveTask(w, s).save
      BY DEF SaveTask
  <2> QED
      BY <1>1, <2>1, GoneTasks DEF NoTask
<1>4. \A b \in Accounts : b # Account[s] => n.players[b] = w.players[b]
    BY <1>1 DEF PlayerGone
<1>5. TableWorld(n)
    BY <1>1, <1>2, <1>3, <1>4, TouchesTable
<1> QED
    BY <1>2, <1>5, TouchesStays DEF n

(* A task for a session of the table.                                      *)
LEMMA PostedTable ==
    ASSUME NEW w \in World, TableWorld(w), NEW s \in Sessions, IsListed(w, s),
           NEW task \in Task, task.of = s
    PROVE  LET n == Posted(w, task) IN
           n \in World /\ TableWorld(n) /\ Stays(w, n)
<1> DEFINE n == Posted(w, task)
<1>1. /\ Touches(w, n, s) /\ NoTask(w, n, s)
      /\ n.ses = w.ses /\ n.players = w.players
    BY PostedTouches
<1> HIDE DEF n
<1>2. TableWorld(n)
    BY <1>1, ListedPlayer, TouchesTable
<1> QED
    BY <1>1, <1>2, TouchesStays DEF n

(* The packets that an update handles.                                     *)
LEMMA HandledTable ==
    ASSUME NEW w \in World, TableWorld(w), NEW s \in Sessions, IsListed(w, s)
    PROVE  LET n == Handled(w, s) IN
           n \in World /\ TableWorld(n) /\ Stays(w, n)
<1> DEFINE taken == IF w.ses[s].realm
                    THEN [w EXCEPT !.ses[s].wants = "nothing"] ELSE w
           n == Handled(w, s)
<1>1. Quiet(w, taken)
  <2>1. CASE w.ses[s].realm
      BY <2>1, WantsQuiet
  <2>2. CASE ~w.ses[s].realm
      BY <2>2 DEF Quiet, SameTable, SameData, SameSession, SocketsLess
  <2> QED
      BY <2>1, <2>2
<1>2. \/ n = taken
      \/ /\ n = HandlePlayerLoginOpcode(taken, s)
         /\ w.ses[s].keys < MaxKeys \/ w.ses[s].loading \/ w.ses[s].player
      \/ n = LogoutPlayer(taken, s)
    BY DEF Handled
<1> HIDE DEF taken, n
<1>3. taken \in World /\ TableWorld(taken) /\ Stays(w, taken)
    BY <1>1, QuietTable, QuietStays
<1>4. IsListed(taken, s) /\ SameSession(w.ses[s], taken.ses[s])
    BY <1>1 DEF Quiet, SameTable, IsListed
<1>5. n \in World /\ TableWorld(n) /\ Stays(taken, n)
  <2>1. CASE n = taken
      BY <1>3, <2>1 DEF Stays
  <2>2. CASE n = HandlePlayerLoginOpcode(taken, s)
             /\ (w.ses[s].keys < MaxKeys \/ w.ses[s].loading \/ w.ses[s].player)
    <3>1. CASE taken.ses[s].loading \/ taken.ses[s].player
      <4>1. n = KickPlayer(taken, s)
          BY <2>2, <3>1 DEF HandlePlayerLoginOpcode
      <4> QED
          BY <1>3, <4>1, KickQuiet, QuietTable, QuietStays
    <3>2. CASE ~(taken.ses[s].loading \/ taken.ses[s].player)
      <4>1. n = SendConnectToInstance([taken EXCEPT !.ses[s].loading = TRUE], s)
          BY <2>2, <3>2 DEF HandlePlayerLoginOpcode
      <4>2. taken.ses[s].keys < MaxKeys
          BY <1>4, <2>2, <3>2 DEF SameSession
      <4>3. /\ Touches(taken, n, s) /\ SameData(taken, n)
            /\ n.ses[s].player = taken.ses[s].player
          BY <1>3, <4>1, <4>2, LoginBeginsFacts
      <4> QED
          BY <1>3, <1>4, <4>3, TouchesQuietTable
    <3> QED
        BY <3>1, <3>2
  <2>3. CASE n = LogoutPlayer(taken, s)
      BY <1>3, <1>4, <2>3, LogoutTable
  <2> QED
      BY <1>2, <2>1, <2>2, <2>3
<1> QED
    BY <1>3, <1>5 DEF Stays, n

(* A connection joins its session.                                         *)
LEMMA ConnectionTable ==
    ASSUME NEW w \in World, TableWorld(w), NEW k \in Sockets, IsListed(w, k[1])
    PROVE  LET n == HandleContinuePlayerLogin(Joined(w, k), k[1]) IN
           n \in World /\ TableWorld(n) /\ Stays(w, n)
<1> DEFINE s == k[1]
           m == Joined(w, k)
           n == HandleContinuePlayerLogin(m, s)
<1>0. s \in Sessions
    BY DEF Sockets
<1>1. /\ Touches(w, m, s) /\ SameData(w, m)
      /\ m.ses[s].player = w.ses[s].player
    BY JoinedFacts
<1>2. \/ n = KickPlayer(m, s)
      \/ n = [m EXCEPT !.db = Append(@, QueryTask(s))]
    BY DEF HandleContinuePlayerLogin, QueryTask
<1> HIDE DEF m, n
<1>3. m \in World /\ TableWorld(m) /\ Stays(w, m)
    BY <1>0, <1>1, TouchesQuietTable
<1>4. IsListed(m, s)
    BY <1>1 DEF Touches, SameTable, IsListed
<1>5. n \in World /\ TableWorld(n) /\ Stays(m, n)
  <2>1. CASE n = KickPlayer(m, s)
      BY <1>3, <2>1, KickQuiet, QuietTable, QuietStays
  <2>2. CASE n = [m EXCEPT !.db = Append(@, QueryTask(s))]
    <3>1. n = Posted(m, QueryTask(s)) /\ QueryTask(s) \in Task /\ QueryTask(s).of = s
        BY <1>0, <1>3, <2>2, QueryTaskType DEF QueryTask
    <3> QED
        BY <1>0, <1>3, <1>4, <3>1, PostedTable
  <2> QED
      BY <1>2, <2>1, <2>2
<1> QED
    BY <1>3, <1>5 DEF Stays, m, n

(* What the answer of a query does.                                        *)
LEMMA AnsweredTable ==
    ASSUME NEW w \in World, TableWorld(w), NEW s \in Sessions, IsListed(w, s),
           w.ses[s].loaded # <<>>,
           NEW n, n = HandlePlayerLogin(w, s) \/ n = HandlePlayerLoginFailed(w, s)
    PROVE  n \in World /\ TableWorld(n) /\ Stays(w, n)
<1>1. CASE n = HandlePlayerLogin(w, s)
  <2>0. Account[s] \in Accounts /\ w.players \in [Accounts -> Nat]
      BY SessionsAssumption DEF World
  <2>1. /\ Touches(w, n, s) /\ n.db = w.db
        /\ \A b \in Accounts :
            n.players[b] = IF b = Account[s] THEN w.players[b] + 1 ELSE w.players[b]
      BY <1>1, HandleLoginFacts
  <2>2. NoTask(w, n, s)
      BY <2>1 DEF NoTask
  <2>3. n.players[Account[s]] > 0
      BY <2>0, <2>1
  <2>4. TableWorld(n)
      BY <2>1, <2>2, <2>3, TouchesTable
  <2> QED
      BY <2>1, <2>4, TouchesStays
<1>2. CASE n = HandlePlayerLoginFailed(w, s)
  <2>1. Touches(w, n, s) /\ SameData(w, n) /\ ~n.ses[s].player
      BY <1>2, LoginFailedFacts
  <2> QED
      BY <2>1, TouchesQuietTable
<1> QED
    BY <1>1, <1>2

(* Of a session that is not in the queue any more, m_inQueue is reset.     *)
LEMMA InitializedTable ==
    ASSUME NEW w \in World, TableWorld(w), NEW s \in Sessions, IsListed(w, s),
           ~InQueue(w, s)
    PROVE  LET n == InitializeSessionCallback(w, s) IN
           n \in World /\ TableWorld(n) /\ Stays(w, n)
<1> DEFINE n == InitializeSessionCallback(w, s)
<1>1. Touches(w, n, s) /\ SameData(w, n) /\ n.ses[s].player = w.ses[s].player
    BY InitializedFacts
<1> HIDE DEF n
<1> QED
    BY <1>1, TouchesQuietTable DEF n

(* What a session without sockets, or without a player, lets go.           *)
LEMMA ExpiredFacts ==
    ASSUME NEW w \in World, NEW s \in Sessions, NEW over \in BOOLEAN
    PROVE  Expire(w, s, over) = w \/ Expire(w, s, over) = Freed(w, s)
    BY DEF Expire, Freed

(* A session that has timed out lets its connections go, and stays.        *)
LEMMA ExpiredTable ==
    ASSUME NEW w \in World, TableWorld(w), NEW s \in Sessions, IsListed(w, s),
           NEW over \in BOOLEAN
    PROVE  LET n == Expire(w, s, over) IN
           n \in World /\ TableWorld(n) /\ Stays(w, n) /\ n.queued = w.queued
<1> DEFINE n == Expire(w, s, over)
<1>1. n = w \/ n = Freed(w, s)
    BY ExpiredFacts
<1> HIDE DEF n
<1>2. CASE n = w
    BY <1>2 DEF Stays, n
<1>3. CASE n = Freed(w, s)
  <2>1. Touches(w, n, s) /\ SameData(w, n) /\ n.ses[s].player = w.ses[s].player
      BY <1>3, FreedFacts
  <2>2. n \in World /\ TableWorld(n) /\ Stays(w, n)
      BY <2>1, TouchesQuietTable
  <2> QED
      BY <2>1, <2>2 DEF Touches, SameTable, n
<1> QED
    BY <1>1, <1>2, <1>3

-----------------------------------------------------------------------------
(* Every action keeps TableInv.                                            *)

(* The queues and the loops rely on what stays.                            *)
LEMMA StaysThreads ==
    ASSUME AddsSound, UpdateSound, Stays(world, world'),
           addSessQueue' = addSessQueue, phase' = phase, current' = current,
           todo' = todo, world \in World, addSessQueue \in Seq(Sessions)
    PROVE  AddsSound' /\ UpdateSound'
<1>1. \A s \in Sessions : IsListed(world', s) <=> IsListed(world, s)
    BY DEF Stays, IsListed
<1>2. Listed(world') = Listed(world)
    BY DEF Stays, Listed
<1>3. \A i \in DOMAIN addSessQueue : addSessQueue[i] \in Sessions
    OBVIOUS
<1>4. AddsSound'
    BY <1>1, <1>3 DEF AddsSound, Stays
<1>5. \A k \in Sockets : k[1] \in Sessions
    BY DEF Sockets
<1>6. UpdateSound'
    BY <1>1, <1>2, <1>5 DEF UpdateSound
<1> QED
    BY <1>4, <1>6

(* A step that changes nothing but the world, and what is achieved.        *)
LEMMA WorldStep ==
    ASSUME TableInv, world' \in World, TableWorld(world'), Stays(world, world'),
           UnchangedQueues, UnchangedUpdate,
           progress' \in [Accounts -> 0 .. MaxProgress]
    PROVE  TableInv'
<1>1. AddsSound' /\ UpdateSound'
    BY StaysThreads DEF TableInv, TypeOK, UnchangedQueues, UnchangedUpdate
<1>2. TypeOK'
    BY DEF TableInv, TypeOK, UnchangedQueues, UnchangedUpdate
<1> QED
    BY <1>1, <1>2 DEF TableInv, TableWorld

(* The invariant, as the lemmas want it.                                   *)
LEMMA TableParts ==
    ASSUME TableInv
    PROVE  /\ world \in World /\ TableWorld(world)
           /\ addSessQueue \in Seq(Sessions) /\ linkQueue \in Seq(Sockets)
           /\ progress \in [Accounts -> 0 .. MaxProgress]
           /\ AddsSound /\ UpdateSound
    BY DEF TableInv, TableWorld, TypeOK

(* A server that starts has nobody in its table.                           *)
LEMMA InitTable == Init => TableInv
<1> SUFFICES ASSUME Init
             PROVE  TableInv
    OBVIOUS
<1>1. 0 \in 0 .. MaxProgress /\ 0 \in 0 .. MaxKeys /\ <<>> \in Seq(0 .. MaxProgress)
    BY SessionsAssumption
<1>2. NewSession \in SessionState
    BY <1>1 DEF NewSession, SessionState
<1>3. [state |-> "none", session |-> FALSE] \in SocketState
    BY DEF SocketState
<1>4. /\ world.ses = [s \in Sessions |-> NewSession]
      /\ world.sessions = [a \in Accounts |-> None]
      /\ world.queued = <<>> /\ world.db = <<>>
    BY DEF Init
<1>5. world \in World
    BY <1>1, <1>2, <1>3 DEF Init, World
<1>6. TypeOK
    BY <1>1, <1>5 DEF Init, TypeOK
<1>7. TableSound(world)
  <2>1. \A s \in Sessions : Idle(world.ses[s])
      BY <1>4 DEF Idle, NewSession
  <2> QED
      BY <1>4, <2>1 DEF TableSound
<1>8. QueueSound(world) /\ PlayersEnough(world) /\ QueriesListed(world)
    BY <1>4 DEF QueueSound, PlayersEnough, Plays, QueriesListed
<1>9. AddsSound /\ UpdateSound
    BY DEF Init, AddsSound, UpdateSound
<1> QED
    BY <1>6, <1>7, <1>8, <1>9 DEF TableInv

(* HandleAuthSessionCallback makes a session that is not in the table yet. *)
LEMMA AuthTable ==
    ASSUME TableInv, NEW s \in Sessions, HandleAuthSessionCallback(s)
    PROVE  TableInv'
<1> DEFINE n == Authenticated(world, s)
<1>0. world \in World /\ TableWorld(world)
    BY TableParts
<1>1. /\ world.ses[s].life = "none" /\ world' = n
      /\ UnchangedQueues /\ UnchangedUpdate /\ progress' = progress
    BY DEF HandleAuthSessionCallback, ChangesWorld, Authenticated
<1>2. /\ n \in World /\ SameTable(world, n) /\ SameData(world, n)
      /\ \A t \in Sessions : t # s => n.ses[t] = world.ses[t]
      /\ n.ses[s].life = "new" /\ n.ses[s].inQueue = world.ses[s].inQueue
      /\ n.ses[s].loading = world.ses[s].loading
      /\ n.ses[s].loaded = world.ses[s].loaded
      /\ n.ses[s].player = world.ses[s].player
      /\ n.ses[s].instance = world.ses[s].instance
    BY <1>0, AuthenticatedFacts
<1> HIDE DEF n
<1>3. \A t \in Sessions : Idle(world.ses[t]) => Idle(n.ses[t])
    BY <1>2 DEF Idle
<1>4. \A t \in Sessions : /\ n.ses[t].player = world.ses[t].player
                          /\ n.ses[t].inQueue = world.ses[t].inQueue
                          /\ n.ses[t].life = "deleted" <=> world.ses[t].life = "deleted"
                          /\ world.ses[t].life = "known" => n.ses[t].life = "known"
    BY <1>1, <1>2
<1>5. PlayersEnough(n)
  <2>1. \A a \in Accounts : Plays(n, a) => Plays(world, a)
      BY <1>0, <1>2, <1>4, ListedSessions DEF Plays, SameTable, TableWorld
  <2> QED
      BY <1>0, <1>2, <2>1 DEF TableWorld, PlayersEnough, SameData
<1>6. QueriesListed(n)
    BY <1>0, <1>2, <1>4, QueuesFields
    DEF TableWorld, QueriesListed, IsQuery, IsListed, SameTable, SameData
<1>7. TableWorld(n)
    BY <1>0, <1>2, <1>3, <1>4, <1>5, <1>6, TableKept DEF TableWorld, TableSound
<1>8. Stays(world, n)
    BY <1>2, <1>4 DEF Stays, SameTable
<1> QED
    BY <1>1, <1>2, <1>7, <1>8, WorldStep, TableParts

(* World::AddSession puts a session in the queue of the world thread.      *)
LEMMA AddSessionTable ==
    ASSUME TableInv, NEW s \in Sessions, AddSession(s)
    PROVE  TableInv'
<1> DEFINE n == [world EXCEPT !.ses[s].life = "known"]
           q == addSessQueue
<1>0. world \in World /\ TableWorld(world) /\ q \in Seq(Sessions)
    BY TableParts
<1>1. /\ world.ses[s].life = "new" /\ world' = n
      /\ addSessQueue' = Append(q, s)
      /\ UNCHANGED <<linkQueue, phase, current, todo, progress>>
    BY DEF AddSession
<1>2. /\ n \in World /\ SameTable(world, n) /\ SameData(world, n)
      /\ \A t \in Sessions : t # s => n.ses[t] = world.ses[t]
      /\ n.ses[s].life = "known" /\ n.ses[s].inQueue = world.ses[s].inQueue
      /\ n.ses[s].loading = world.ses[s].loading
      /\ n.ses[s].loaded = world.ses[s].loaded
      /\ n.ses[s].player = world.ses[s].player
      /\ n.ses[s].instance = world.ses[s].instance
    BY <1>0, KnownFacts
<1> HIDE DEF n
<1>3. \A t \in Sessions : Idle(world.ses[t]) => Idle(n.ses[t])
    BY <1>2 DEF Idle
<1>4. \A t \in Sessions : /\ n.ses[t].player = world.ses[t].player
                          /\ n.ses[t].inQueue = world.ses[t].inQueue
                          /\ n.ses[t].life = "deleted" <=> world.ses[t].life = "deleted"
                          /\ world.ses[t].life = "known" => n.ses[t].life = "known"
    BY <1>1, <1>2
<1>5. PlayersEnough(n)
  <2>1. \A a \in Accounts : Plays(n, a) => Plays(world, a)
      BY <1>0, <1>2, <1>4, ListedSessions DEF Plays, SameTable, TableWorld
  <2> QED
      BY <1>0, <1>2, <2>1 DEF TableWorld, PlayersEnough, SameData
<1>6. QueriesListed(n)
    BY <1>0, <1>2, <1>4, QueuesFields
    DEF TableWorld, QueriesListed, IsQuery, IsListed, SameTable, SameData
<1>7. TableWorld(n)
    BY <1>0, <1>2, <1>3, <1>4, <1>5, <1>6, TableKept DEF TableWorld, TableSound
<1>8. \A t \in Sessions : IsListed(n, t) <=> IsListed(world, t)
    BY <1>2 DEF SameTable, IsListed
<1>9. ~IsListed(world, s)
    BY <1>0, <1>1, SessionsAssumption DEF TableWorld, TableSound, IsListed
<1>10. AddsSound'
  <2> DEFINE r == addSessQueue'
  <2>1. /\ DOMAIN r = 1 .. Len(q) + 1 /\ DOMAIN q = 1 .. Len(q) /\ Len(q) \in Nat
        /\ \A i \in 1 .. Len(q) : r[i] = q[i] /\ q[i] \in Sessions
        /\ r[Len(q) + 1] = s
      BY <1>0, <1>1
  <2>2. /\ \A i, j \in DOMAIN q : q[i] = q[j] => i = j
        /\ \A i \in DOMAIN q :
            world.ses[q[i]].life = "known" /\ ~IsListed(world, q[i]) /\ q[i] # s
      BY <1>1, TableParts DEF AddsSound
  <2>3. \A i \in DOMAIN r : i \in DOMAIN q \/ i = Len(q) + 1
      BY <2>1
  <2> HIDE DEF r
  <2>4. \A i, j \in DOMAIN r : r[i] = r[j] => i = j
      BY <2>1, <2>2, <2>3
  <2>5. \A i \in DOMAIN r : n.ses[r[i]].life = "known" /\ ~IsListed(n, r[i])
      BY <1>2, <1>4, <1>8, <1>9, <2>1, <2>2, <2>3
  <2> QED
      BY <1>1, <2>4, <2>5 DEF AddsSound, r
<1>11. UpdateSound'
  <2>1. Listed(n) = Listed(world)
      BY <1>2 DEF SameTable, Listed
  <2>2. \A k \in Sockets : k[1] \in Sessions
      BY DEF Sockets
  <2> QED
      BY <1>1, <1>8, <2>1, <2>2, TableParts DEF UpdateSound
<1>12. TypeOK'
    BY <1>0, <1>1, <1>2 DEF TableInv, TypeOK
<1> QED
    BY <1>1, <1>7, <1>10, <1>11, <1>12 DEF TableInv, TableWorld

(* A second connection does not touch the table.                           *)
LEMMA AddInstanceSocketTable ==
    ASSUME TableInv, NEW k \in Sockets, AddInstanceSocket(k)
    PROVE  TableInv'
<1> DEFINE n == [world EXCEPT !.sock[k].state = "open"]
<1>0. world \in World /\ TableWorld(world) /\ AddsSound /\ UpdateSound
        /\ addSessQueue \in Seq(Sessions)
    BY TableParts
<1>1. /\ world' = n
      /\ linkQueue' = Append(linkQueue, k)
      /\ UNCHANGED <<addSessQueue, phase, current, todo, progress>>
    BY DEF AddInstanceSocket
<1>2. /\ n \in World /\ SameTable(world, n) /\ SameData(world, n)
      /\ n.ses = world.ses
    BY <1>0, OpenedFacts
<1> HIDE DEF n
<1>3. PlayersEnough(n) /\ QueriesListed(n)
    BY <1>0, <1>2 DEF TableWorld, PlayersEnough, Plays, QueriesListed, IsQuery, IsListed,
       SameTable, SameData
<1>4. TableWorld(n)
    BY <1>0, <1>2, <1>3, TableKept DEF TableWorld, TableSound
<1>5. Stays(world, n)
    BY <1>2 DEF Stays, SameTable
<1>6. AddsSound' /\ UpdateSound'
    BY <1>0, <1>1, <1>5, StaysThreads
<1>7. TypeOK'
  <2>1. linkQueue' \in Seq(Sockets)
      BY <1>1, TableParts
  <2> QED
      BY <1>1, <1>2, <2>1 DEF TableInv, TypeOK
<1> QED
    BY <1>1, <1>4, <1>6, <1>7 DEF TableInv, TableWorld


(* A packet for a session does not touch the table.                        *)
LEMMA QueuePacketTable ==
    ASSUME TableInv, NEW k \in Sockets, QueuePacket(k)
    PROVE  TableInv'
<1>0. k[1] \in Sessions /\ world \in World /\ TableWorld(world)
    BY TableParts DEF Sockets
<1>1. PICK want \in {"login", "logout"} :
        ChangesWorld([world EXCEPT !.ses[k[1]].wants = want])
    BY DEF QueuePacket
<1>2. Quiet(world, world')
    BY <1>0, <1>1, WantsQuiet DEF ChangesWorld
<1>3. world' \in World /\ TableWorld(world') /\ Stays(world, world')
    BY <1>0, <1>2, QuietTable, QuietStays
<1> QED
    BY <1>1, <1>3, WorldStep, TableParts DEF ChangesWorld

(* HandleConnectToFailed: a new key, or the login is given up.             *)
LEMMA ConnectFailedTable ==
    ASSUME TableInv, NEW k \in Sockets, HandleConnectToFailed(k)
    PROVE  TableInv'
<1> DEFINE s == k[1]
<1>0. s \in Sessions /\ world \in World /\ TableWorld(world)
    BY TableParts DEF Sockets
<1>1. /\ world.ses[s].loading
      /\ world' = IF world.ses[s].keys < MaxKeys
                  THEN SendConnectToInstance(world, s)
                  ELSE AbortLogin(world, s)
      /\ UnchangedQueues /\ UnchangedUpdate /\ progress' = progress
    BY DEF HandleConnectToFailed, ChangesWorld
<1>2. IsListed(world, s)
    BY <1>0, <1>1 DEF TableWorld, TableSound, Idle
<1> HIDE DEF s
<1>3. world' \in World /\ TableWorld(world') /\ Stays(world, world')
  <2>1. CASE world.ses[s].keys < MaxKeys
    <3>1. world' = SendConnectToInstance(world, s)
        BY <1>1, <2>1
    <3>2. /\ Touches(world, world', s) /\ SameData(world, world')
          /\ world'.ses[s].player = world.ses[s].player
        BY <1>0, <2>1, <3>1, SendConnectFacts
    <3> QED
        BY <1>0, <1>2, <3>2, TouchesQuietTable
  <2>2. CASE world' = KickPlayer(world, s)
      BY <1>0, <2>2, KickQuiet, QuietTable, QuietStays
  <2>3. CASE world' = [world EXCEPT !.ses[s].loading = FALSE]
    <3>1. /\ Touches(world, world', s) /\ SameData(world, world')
          /\ world'.ses[s].player = world.ses[s].player
        BY <1>0, <2>3, LoginEndsFacts
    <3> QED
        BY <1>0, <1>2, <3>1, TouchesQuietTable
  <2> QED
      BY <1>1, <2>1, <2>2, <2>3 DEF AbortLogin
<1> QED
    BY <1>1, <1>3, WorldStep, TableParts

(* A lost connection leaves the session where it is.                       *)
LEMMA LoseConnectionTable ==
    ASSUME TableInv, NEW k \in Sockets, LoseConnection(k)
    PROVE  TableInv'
<1>0. world \in World /\ TableWorld(world)
    BY TableParts
<1>1. /\ world' = Close(world, {k})
      /\ UnchangedQueues /\ UnchangedUpdate /\ progress' = progress
    BY DEF LoseConnection, ChangesWorld
<1>2. Quiet(world, world')
    BY <1>0, <1>1, CloseQuiet
<1>3. world' \in World /\ TableWorld(world') /\ Stays(world, world')
    BY <1>0, <1>2, QuietTable, QuietStays
<1> QED
    BY <1>1, <1>3, WorldStep, TableParts

(* What is executed changes no life.                                       *)
LEMMA ExecutedStays ==
    ASSUME NEW w \in World, w.db # <<>>, NEW n, Executed(w, n)
    PROVE  n \in World /\ Stays(w, n)
<1> DEFINE task == w.db[1]
           s == task.of
           m == [w EXCEPT !.db = Tail(w.db)]
<1>0. m.ses = w.ses
    BY DEF World
<1>1. /\ n \in World /\ SameTable(w, n)
      /\ \A t \in Sessions :
            t # s \/ task.save \/ w.ses[s].life # "known" => n.ses[t] = w.ses[t]
      /\ ~task.save /\ w.ses[s].life = "known" => Touches(m, n, s)
    BY DEF Executed
<1> HIDE DEF m, task
<1>2. \A t \in Sessions : w.ses[t].life = "known" => n.ses[t].life = "known"
    BY <1>0, <1>1 DEF Touches
<1> QED
    BY <1>1, <1>2 DEF Stays, SameTable

(* The task of the database worker answers a query, or saves.              *)
LEMMA ExecuteTable ==
    ASSUME TableInv, Execute
    PROVE  TableInv'
<1>0. world \in World /\ TableWorld(world)
    BY TableParts
<1>1. /\ world.db # <<>> /\ world' = AfterTask(world)
      /\ UnchangedQueues /\ UnchangedUpdate /\ progress' = progress
    BY DEF Execute, ChangesWorld, AfterTask
<1>2. Executed(world, world')
    BY <1>0, <1>1, ExecutedFacts
<1>3. world' \in World /\ TableWorld(world') /\ Stays(world, world')
    BY <1>0, <1>1, <1>2, ExecutedTable, ExecutedStays
<1> QED
    BY <1>1, <1>3, WorldStep, TableParts

(* UpdateSessions begins.                                                  *)
LEMMA StartUpdateTable ==
    ASSUME TableInv, StartUpdate
    PROVE  TableInv'
<1>1. /\ phase = "idle" /\ phase' = "links"
      /\ UNCHANGED <<world, addSessQueue, linkQueue, current, todo, progress>>
    BY DEF StartUpdate
<1> QED
    BY <1>1 DEF TableInv, TypeOK, AddsSound, UpdateSound

(* UpdateSessions has linked the second connections.                       *)
LEMMA LinksDoneTable ==
    ASSUME TableInv, LinksDone
    PROVE  TableInv'
<1>1. /\ phase = "links" /\ phase' = "adds"
      /\ UNCHANGED <<world, addSessQueue, linkQueue, current, todo, progress>>
    BY DEF LinksDone
<1> QED
    BY <1>1 DEF TableInv, TypeOK, AddsSound, UpdateSound

(* UpdateSessions goes through all that are in the table now.              *)
LEMMA AddsDoneTable ==
    ASSUME TableInv, AddsDone
    PROVE  TableInv'
<1>1. /\ phase = "adds" /\ todo' = Listed(world)
      /\ phase' = "idle" \/ phase' = "update"
      /\ UNCHANGED <<world, addSessQueue, linkQueue, current, progress>>
    BY DEF AddsDone
<1>2. Listed(world) \subseteq Accounts
    BY DEF Listed
<1> QED
    BY <1>1, <1>2 DEF TableInv, TypeOK, AddsSound, UpdateSound

(* ProcessLinkInstanceSocket looks its session up in the table.            *)
LEMMA ProcessLinkTable ==
    ASSUME TableInv, ProcessLinkInstanceSocket
    PROVE  TableInv'
<1> DEFINE k == Head(linkQueue)
           session == FindSession(world, Account[k[1]])
<1>0. world \in World /\ TableWorld(world) /\ AddsSound /\ UpdateSound
    BY TableParts
<1>1. /\ phase = "links" /\ linkQueue # <<>>
      /\ \/ /\ session = k[1] /\ phase' = "linking" /\ current' = k /\ world' = world
         \/ /\ world' = Close(world, {k}) /\ phase' = phase /\ current' = current
      /\ linkQueue' = Tail(linkQueue)
      /\ UNCHANGED <<addSessQueue, todo, progress>>
    BY DEF ProcessLinkInstanceSocket
<1>2. k \in Sockets /\ linkQueue' \in Seq(Sockets)
    BY <1>1, TableParts, AnswerFields
<1>3. Quiet(world, world')
  <2>1. CASE world' = world
      BY <1>0, <2>1 DEF Quiet, SameTable, SameData, SameSession, SocketsLess
  <2>2. CASE world' = Close(world, {k})
      BY <1>0, <2>2, CloseQuiet
  <2> QED
      BY <1>1, <2>1, <2>2
<1>4. world' \in World /\ TableWorld(world') /\ Stays(world, world')
    BY <1>0, <1>3, QuietTable, QuietStays
<1>5. AddsSound'
  <2>1. \A s \in Sessions : IsListed(world', s) <=> IsListed(world, s)
      BY <1>4 DEF Stays, IsListed
  <2>2. \A i \in DOMAIN addSessQueue : addSessQueue[i] \in Sessions
      BY TableParts
  <2> QED
      BY <1>0, <1>1, <1>4, <2>1, <2>2 DEF AddsSound, Stays
<1>6. UpdateSound'
  <2>1. CASE phase' = "linking" /\ session = k[1] /\ current' = k
    <3>1. IsListed(world, k[1])
        BY <2>1 DEF IsListed, FindSession
    <3>2. IsListed(world', k[1])
        BY <1>4, <3>1 DEF Stays, IsListed
    <3> QED
        BY <1>2, <2>1, <3>2 DEF UpdateSound
  <2>2. CASE phase' = phase
      BY <1>1, <2>2 DEF UpdateSound
  <2> QED
      BY <1>1, <2>1, <2>2
<1>7. TypeOK'
    BY <1>1, <1>2, <1>4 DEF TableInv, TypeOK
<1> QED
    BY <1>4, <1>5, <1>6, <1>7 DEF TableInv, TableWorld

(* AddInstanceConnection: the login goes on with its query.                *)
LEMMA AddConnectionTable ==
    ASSUME TableInv, AddInstanceConnection
    PROVE  TableInv'
<1>0. world \in World /\ TableWorld(world) /\ AddsSound /\ UpdateSound
    BY TableParts
<1>1. /\ phase = "linking"
      /\ world' = HandleContinuePlayerLogin(Joined(world, current), current[1])
      /\ phase' = "links" /\ current' = None
      /\ UNCHANGED <<addSessQueue, linkQueue, todo, progress>>
    BY DEF AddInstanceConnection, Joined, UnchangedQueues
<1>2. current \in Sockets /\ IsListed(world, current[1])
    BY <1>0, <1>1 DEF UpdateSound
<1>3. world' \in World /\ TableWorld(world') /\ Stays(world, world')
    BY <1>0, <1>1, <1>2, ConnectionTable
<1>4. AddsSound'
  <2>1. \A s \in Sessions : IsListed(world', s) <=> IsListed(world, s)
      BY <1>3 DEF Stays, IsListed
  <2>2. \A i \in DOMAIN addSessQueue : addSessQueue[i] \in Sessions
      BY TableParts
  <2> QED
      BY <1>0, <1>1, <1>3, <2>1, <2>2 DEF AddsSound, Stays
<1>5. UpdateSound'
    BY <1>1 DEF UpdateSound
<1>6. TypeOK'
    BY <1>1, <1>3 DEF TableInv, TypeOK
<1> QED
    BY <1>3, <1>4, <1>5, <1>6 DEF TableInv, TableWorld

(* AddSession_ keeps the table, and those that are yet to be added.        *)
LEMMA AddedTable ==
    ASSUME NEW w \in World, TableWorld(w), NEW s \in Sessions, MayEnter(w, s)
    PROVE  LET n == AddSession_(w, s) IN
           /\ n \in World /\ TableWorld(n)
           /\ \A t \in Sessions : t # s /\ MayEnter(w, t) => MayEnter(n, t)
<1> DEFINE old == w.sessions[Account[s]]
           n == AddSession_(w, s)
<1>0. Account[s] \in Accounts /\ TableSound(w)
    BY SessionsAssumption DEF TableWorld
<1>1. \/ n = Delete(KickPlayer(w, s), s)
      \/ n = Admitted(w, s)
    BY DEF AddSession_
<1> HIDE DEF n
<1>2. CASE n = Delete(KickPlayer(w, s), s)
  <2>1. Refused(w, n, s)
      BY <1>0, <1>2, RefusedFacts
  <2>2. \A t \in Sessions : t # s /\ MayEnter(w, t) => MayEnter(n, t)
      BY <2>1 DEF Refused, SameTable, MayEnter, IsListed
  <2> QED
      BY <2>1, <2>2, RefusedTable DEF Refused, n
<1>3. CASE n = Admitted(w, s)
  <2>1. /\ n \in World
        /\ QueueSound(n)
        /\ IF old = None THEN Entered(w, n, s) ELSE Removed(w, n, old, s)
      BY <1>3, AdmittedFacts
  <2>2. CASE old = None
    <3>1. Entered(w, n, s)
        BY <2>1, <2>2
    <3>2. TableSound(n) /\ PlayersEnough(n) /\ QueriesListed(n)
        BY <2>2, <3>1, EnteredTable
    <3>3. \A t \in Sessions : t # s /\ MayEnter(w, t) => MayEnter(n, t)
        BY <3>1, SessionsAssumption DEF Entered, MayEnter, Alike, IsListed
    <3> QED
        BY <2>1, <3>2, <3>3 DEF TableWorld, n
  <2>3. CASE old # None
    <3>1. old \in Sessions /\ IsListed(w, old) /\ Account[old] = Account[s]
        BY <1>0, <2>3, ListedSessions DEF TableSound
    <3>2. Successor(w, old, s)
        BY <3>1 DEF Successor
    <3>3. Removed(w, n, old, s)
        BY <2>1, <2>3
    <3> HIDE DEF old
    <3>4. TableSound(n) /\ PlayersEnough(n) /\ QueriesListed(n)
        BY <3>1, <3>2, <3>3, RemovedTable
    <3>5. \A t \in Sessions : IsListed(n, t) => t = s \/ IsListed(w, t)
        BY <1>0, <3>1, <3>2, <3>3, RemovedListed
    <3>6. \A t \in Sessions : t # s /\ MayEnter(w, t) => MayEnter(n, t)
        BY <3>1, <3>3, <3>5 DEF Removed, MayEnter, Alike
    <3> QED
        BY <2>1, <3>4, <3>6 DEF TableWorld, n
  <2> QED
      BY <2>2, <2>3
<1> QED
    BY <1>1, <1>2, <1>3

(* AddSession_: the old session of the account gives up its place.         *)
LEMMA AddSessionsTable ==
    ASSUME TableInv, AddSessions
    PROVE  TableInv'
<1> DEFINE q == addSessQueue
           r == addSessQueue'
<1>0. world \in World /\ TableWorld(world) /\ AddsSound /\ q \in Seq(Sessions)
    BY TableParts
<1>1. /\ phase = "adds" /\ q # <<>>
      /\ world' = AddSession_(world, Head(q))
      /\ r = Tail(q)
      /\ UNCHANGED <<linkQueue, phase, current, todo, progress>>
    BY DEF AddSessions
<1>2. /\ DOMAIN q = 1 .. Len(q) /\ Len(q) \in Nat /\ Len(q) > 0
      /\ DOMAIN r = 1 .. Len(q) - 1 /\ Head(q) = q[1]
      /\ \A i \in DOMAIN r : i + 1 \in DOMAIN q /\ r[i] = q[i + 1]
      /\ r \in Seq(Sessions)
    BY <1>0, <1>1
<1>3. \A i \in DOMAIN q : q[i] \in Sessions /\ MayEnter(world, q[i])
    BY <1>0 DEF AddsSound, MayEnter
<1>4. /\ world' \in World /\ TableWorld(world')
      /\ \A t \in Sessions : t # q[1] /\ MayEnter(world, t) => MayEnter(world', t)
    BY <1>0, <1>1, <1>2, <1>3, AddedTable
<1>5. AddsSound'
  <2>1. \A i, j \in DOMAIN q : q[i] = q[j] => i = j
      BY <1>0 DEF AddsSound
  <2> HIDE DEF q, r
  <2>2. \A i, j \in DOMAIN r : r[i] = r[j] => i = j
      BY <1>2, <2>1
  <2>3. \A i \in DOMAIN r : MayEnter(world', r[i])
    <3> SUFFICES ASSUME NEW i \in DOMAIN r
                 PROVE  MayEnter(world', r[i])
        OBVIOUS
    <3>1. i + 1 \in DOMAIN q /\ i + 1 # 1 /\ 1 \in DOMAIN q /\ r[i] = q[i + 1]
        BY <1>2
    <3>2. q[i + 1] # q[1]
        BY <2>1, <3>1
    <3> QED
        BY <1>3, <1>4, <3>1, <3>2
  <2> QED
      BY <2>2, <2>3 DEF AddsSound, MayEnter, r
<1>6. UpdateSound'
    BY <1>1 DEF UpdateSound
<1>7. TypeOK'
    BY <1>1, <1>2, <1>4 DEF TableInv, TypeOK
<1> QED
    BY <1>4, <1>5, <1>6, <1>7 DEF TableInv, TableWorld

(* WorldSession::Update handles a packet, or the loss of the connection.   *)
LEMMA UpdateSessionTable ==
    ASSUME TableInv, NEW a \in Accounts, UpdateSession(a)
    PROVE  TableInv'
<1> DEFINE s == FindSession(world, a)
<1>0. world \in World /\ TableWorld(world) /\ AddsSound /\ UpdateSound
    BY TableParts
<1>1. /\ phase = "update" /\ a \in todo
      /\ world' = Handled(world, s)
      /\ phase' = "callbacks" /\ current' = s /\ todo' = todo \ {a}
      /\ UNCHANGED <<addSessQueue, linkQueue, progress>>
    BY DEF UpdateSession, UnchangedQueues
<1>2. s \in Sessions /\ IsListed(world, s) /\ Account[s] = a
    BY <1>0, <1>1, ListedSessions DEF UpdateSound, Listed, FindSession, TableWorld, TableSound
<1> HIDE DEF s
<1>3. world' \in World /\ TableWorld(world') /\ Stays(world, world')
    BY <1>0, <1>1, <1>2, HandledTable
<1>4. \A t \in Sessions : IsListed(world', t) <=> IsListed(world, t)
    BY <1>3 DEF Stays, IsListed
<1>5. AddsSound'
  <2>1. \A i \in DOMAIN addSessQueue : addSessQueue[i] \in Sessions
      BY TableParts
  <2> QED
      BY <1>0, <1>1, <1>3, <1>4, <2>1 DEF AddsSound, Stays
<1>6. UpdateSound'
  <2>1. Listed(world') = Listed(world)
      BY <1>3 DEF Stays, Listed
  <2> QED
      BY <1>0, <1>1, <1>2, <1>4, <2>1 DEF UpdateSound
<1>7. TypeOK'
    BY <1>1, <1>2, <1>3 DEF TableInv, TypeOK
<1> QED
    BY <1>3, <1>5, <1>6, <1>7 DEF TableInv, TableWorld

(* ProcessQueryCallbacks: the answer of the login query makes a player.    *)
LEMMA CallbacksTable ==
    ASSUME TableInv, ProcessQueryCallbacks
    PROVE  TableInv'
<1>0. world \in World /\ TableWorld(world) /\ UpdateSound
    BY TableParts
<1>1. /\ phase = "callbacks"
      /\ \/ /\ ~InQueue(world, current)
            /\ world' = InitializeSessionCallback(world, current)
         \/ /\ world.ses[current].loaded # <<>>
            /\ \/ world' = HandlePlayerLogin(world, current)
               \/ world' = HandlePlayerLoginFailed(world, current)
      /\ UnchangedQueues /\ UnchangedUpdate /\ progress' = progress
    BY DEF ProcessQueryCallbacks, UnchangedUpdate
<1>2. current \in Sessions /\ IsListed(world, current)
    BY <1>0, <1>1 DEF UpdateSound
<1>3. world' \in World /\ TableWorld(world') /\ Stays(world, world')
    BY <1>0, <1>1, <1>2, InitializedTable, AnsweredTable
<1> QED
    BY <1>1, <1>3, WorldStep, TableParts

(* RemoveUpdated keeps the table, but for the entry of s.                  *)
LEMMA RemoveUpdatedTable ==
    ASSUME NEW w \in World, TableWorld(w), NEW s \in Sessions, IsListed(w, s)
    PROVE  LET n == RemoveUpdated(w, s) IN
           /\ n \in World /\ TableWorld(n)
           /\ \A t \in Sessions : MayEnter(w, t) => MayEnter(n, t)
           /\ Listed(n) = Listed(w) \ {Account[s]}
<1> DEFINE n == RemoveUpdated(w, s)
<1>1. TableSound(w) /\ QueueSound(w) /\ PlayersEnough(w)
    BY DEF TableWorld
<1>2. Removed(w, n, s, None) /\ QueueSound(n)
    BY <1>1, RemoveUpdatedFacts
<1> HIDE DEF n
<1>3. Successor(w, s, None)
    BY DEF Successor
<1>4. TableSound(n) /\ PlayersEnough(n) /\ QueriesListed(n)
    BY <1>2, <1>3, RemovedTable
<1>5. \A t \in Sessions : IsListed(n, t) => t = None \/ IsListed(w, t)
    BY <1>1, <1>2, <1>3, RemovedListed
<1>6. \A t \in Sessions : MayEnter(w, t) => MayEnter(n, t)
    BY <1>2, <1>5, SessionsAssumption DEF Removed, MayEnter, Alike
<1>7. Listed(n) = Listed(w) \ {Account[s]}
    BY <1>2, SessionsAssumption DEF Removed, Listed
<1> QED
    BY <1>2, <1>4, <1>6, <1>7 DEF TableWorld, Removed, n

(* A session whose update has failed is logged out and deleted.            *)
LEMMA CleanUpTable ==
    ASSUME TableInv, NEW over \in BOOLEAN, CleanUp(over)
    PROVE  TableInv'
<1> DEFINE e == Expire(world, current, over)
<1>0. world \in World /\ TableWorld(world) /\ AddsSound /\ UpdateSound
    BY TableParts
<1>1. /\ phase = "callbacks"
      /\ world' = e \/ world' = RemoveUpdated(e, current)
      /\ phase' = IF todo = {} THEN "idle" ELSE "update"
      /\ current' = None
      /\ UNCHANGED <<addSessQueue, linkQueue, todo, progress>>
    BY DEF CleanUp, UnchangedQueues
<1>2. /\ current \in Sessions /\ IsListed(world, current)
      /\ Account[current] \notin todo /\ todo \subseteq Listed(world)
    BY <1>0, <1>1 DEF UpdateSound
<1>3. e \in World /\ TableWorld(e) /\ Stays(world, e)
    BY <1>0, <1>2, ExpiredTable
<1> HIDE DEF e
<1>4. \A t \in Sessions : IsListed(e, t) <=> IsListed(world, t)
    BY <1>3 DEF Stays, IsListed
<1>5. Listed(e) = Listed(world)
    BY <1>3 DEF Stays, Listed
<1>6. /\ world' \in World /\ TableWorld(world')
      /\ \A t \in Sessions : MayEnter(e, t) => MayEnter(world', t)
      /\ Listed(e) \ {Account[current]} \subseteq Listed(world')
    BY <1>1, <1>2, <1>3, <1>4, RemoveUpdatedTable
<1>7. AddsSound'
  <2>1. \A i \in DOMAIN addSessQueue :
            addSessQueue[i] \in Sessions /\ MayEnter(world, addSessQueue[i])
      BY <1>0, TableParts DEF AddsSound, MayEnter
  <2>2. \A i \in DOMAIN addSessQueue : MayEnter(world', addSessQueue[i])
      BY <1>3, <1>4, <1>6, <2>1 DEF MayEnter, Stays
  <2> QED
      BY <1>0, <1>1, <2>2 DEF AddsSound, MayEnter
<1>8. UpdateSound'
    BY <1>1, <1>2, <1>5, <1>6 DEF UpdateSound
<1>9. TypeOK'
    BY <1>1, <1>6 DEF TableInv, TypeOK
<1> QED
    BY <1>6, <1>7, <1>8, <1>9 DEF TableInv, TableWorld

(* A player who achieves something stays where he is.                      *)
LEMMA PlayTable ==
    ASSUME TableInv, NEW a \in Accounts, Play(a)
    PROVE  TableInv'
<1> DEFINE s == FindSession(world, a)
<1>0. world \in World /\ TableWorld(world)
    BY TableParts
<1>1. /\ s # None /\ progress[a] < MaxProgress
      /\ progress' = [progress EXCEPT ![a] = @ + 1]
      /\ world' = [world EXCEPT !.ses[s].at = progress'[a]]
      /\ UnchangedQueues /\ UnchangedUpdate
    BY DEF Play, Between
<1>2. s \in Sessions /\ IsListed(world, s)
    BY <1>0, <1>1, ListedSessions DEF FindSession, TableWorld
<1> HIDE DEF s
<1>3. progress' \in [Accounts -> 0 .. MaxProgress] /\ progress'[a] \in 0 .. MaxProgress
    BY <1>1, TableParts, SessionsAssumption
<1>4. /\ Touches(world, world', s) /\ SameData(world, world')
      /\ world'.ses[s].player = world.ses[s].player
    BY <1>0, <1>1, <1>2, <1>3, PlayFacts
<1>5. world' \in World /\ TableWorld(world') /\ Stays(world, world')
    BY <1>0, <1>2, <1>4, TouchesQuietTable
<1> QED
    BY <1>1, <1>3, <1>5, WorldStep

(* A save adds a task and touches nothing else.                            *)
LEMMA SaveTable ==
    ASSUME TableInv, NEW a \in Accounts, Save(a)
    PROVE  TableInv'
<1> DEFINE s == FindSession(world, a)
<1>0. world \in World /\ TableWorld(world)
    BY TableParts
<1>1. /\ s # None /\ world' = SaveToDB(world, s)
      /\ UnchangedQueues /\ UnchangedUpdate /\ progress' = progress
    BY DEF Save, Between
<1>2. s \in Sessions /\ IsListed(world, s)
    BY <1>0, <1>1, ListedSessions DEF FindSession, TableWorld
<1> HIDE DEF s
<1>3. /\ SaveTask(world, s) \in Task /\ SaveTask(world, s).of = s
      /\ world' = Posted(world, SaveTask(world, s))
    BY <1>0, <1>1, <1>2, SaveTaskType DEF SaveTask
<1>4. world' \in World /\ TableWorld(world') /\ Stays(world, world')
    BY <1>0, <1>2, <1>3, PostedTable
<1> QED
    BY <1>1, <1>4, WorldStep, TableParts

(* Kicking closes connections only.                                        *)
LEMMA KickTable ==
    ASSUME TableInv, NEW a \in Accounts, Kick(a)
    PROVE  TableInv'
<1>0. world \in World /\ TableWorld(world)
    BY TableParts
<1>1. /\ world' = KickPlayer(world, FindSession(world, a))
      /\ UnchangedQueues /\ UnchangedUpdate /\ progress' = progress
    BY DEF Kick, Between
<1>2. Quiet(world, world')
    BY <1>0, <1>1, KickQuiet
<1>3. world' \in World /\ TableWorld(world') /\ Stays(world, world')
    BY <1>0, <1>2, QuietTable, QuietStays
<1> QED
    BY <1>1, <1>3, WorldStep, TableParts

(* KickAll empties m_QueuedPlayer and closes connections.                  *)
LEMMA KickAllTable ==
    ASSUME TableInv, KickAll
    PROVE  TableInv'
<1>0. world \in World /\ TableWorld(world)
    BY TableParts
<1>1. /\ world' = Close([world EXCEPT !.queued = <<>>],
                UNION {Held(world, FindSession(world, a)) : a \in Listed(world)})
      /\ UnchangedQueues /\ UnchangedUpdate /\ progress' = progress
    BY DEF KickAll, Between
<1>2. /\ world' \in World /\ world'.queued = <<>>
      /\ world'.sessions = world.sessions /\ world'.ses = world.ses
      /\ SameData(world, world')
    BY <1>0, <1>1, KickedAllFacts
<1>3. TableWorld(world')
  <2>1. TableSound(world')
      BY <1>0, <1>2 DEF TableWorld, TableSound, IsListed
  <2>2. QueueSound(world')
      BY <1>2 DEF QueueSound
  <2>3. PlayersEnough(world') /\ QueriesListed(world')
      BY <1>0, <1>2
      DEF TableWorld, PlayersEnough, Plays, QueriesListed, IsQuery, IsListed, SameData
  <2> QED
      BY <2>1, <2>2, <2>3 DEF TableWorld
<1>4. Stays(world, world')
    BY <1>2 DEF Stays
<1> QED
    BY <1>1, <1>2, <1>3, <1>4, WorldStep, TableParts

(* The end of a tolerance frees a place for nobody who waits.              *)
LEMMA ToleranceTable ==
    ASSUME TableInv, NEW a \in Accounts, ToleranceEnds(a)
    PROVE  TableInv'
<1>0. world \in World /\ TableWorld(world)
    BY TableParts
<1>1. /\ world' = [world EXCEPT !.disconnects = world.disconnects \ {a}]
      /\ UnchangedQueues /\ UnchangedUpdate /\ progress' = progress
    BY DEF ToleranceEnds, Between
<1>2. world.disconnects \ {a} \in SUBSET Accounts
    BY <1>0, WorldFields
<1>3. Quiet(world, world')
    BY <1>0, <1>1, <1>2, DisconnectsQuiet
<1>4. world' \in World /\ TableWorld(world') /\ Stays(world, world')
    BY <1>0, <1>3, QuietTable, QuietStays
<1> QED
    BY <1>1, <1>4, WorldStep, TableParts

(* Every step keeps TableInv.                                              *)
LEMMA TableNext == TableInv /\ [Next]_vars => TableInv'
<1> SUFFICES ASSUME TableInv, [Next]_vars
             PROVE  TableInv'
    OBVIOUS
<1>1. CASE UNCHANGED vars
    BY <1>1 DEF vars, TableInv, TypeOK, AddsSound, UpdateSound
<1>2. CASE UpdateSessions
    BY <1>2, StartUpdateTable, ProcessLinkTable, AddConnectionTable, LinksDoneTable,
       AddSessionsTable, AddsDoneTable, UpdateSessionTable, CallbacksTable, CleanUpTable
    DEF UpdateSessions
<1>3. CASE Execute
    BY <1>3, ExecuteTable
<1>4. CASE KickAll
    BY <1>4, KickAllTable
<1>5. ASSUME NEW s \in Sessions, HandleAuthSessionCallback(s) \/ AddSession(s)
      PROVE  TableInv'
    BY <1>5, AuthTable, AddSessionTable
<1>6. ASSUME NEW k \in Sockets,
             \/ AddInstanceSocket(k) \/ QueuePacket(k) \/ HandleConnectToFailed(k)
             \/ LoseConnection(k)
      PROVE  TableInv'
    BY <1>6, AddInstanceSocketTable, QueuePacketTable, ConnectFailedTable,
       LoseConnectionTable
<1>7. ASSUME NEW a \in Accounts, Play(a) \/ Save(a) \/ Kick(a) \/ ToleranceEnds(a)
      PROVE  TableInv'
    BY <1>7, PlayTable, SaveTable, KickTable, ToleranceTable
<1> QED
    BY <1>1, <1>2, <1>3, <1>4, <1>5, <1>6, <1>7 DEF Next

-----------------------------------------------------------------------------
(* TableInv holds of every run of the world server.                        *)
THEOREM TableInvariant == Spec => []TableInv
<1>1. Init => TableInv
    BY InitTable
<1>2. TableInv /\ [Next]_vars => TableInv'
    BY TableNext
<1> QED
    BY <1>1, <1>2, PTL DEF Spec

(* Every variable stays in its type: the sessions, sockets and queues,     *)
(* and the counter of the players, which never falls below zero.           *)
THEOREM TypeCorrect == Spec => []TypeOK
<1>1. TableInv => TypeOK
    BY DEF TableInv
<1> QED
    BY <1>1, TableInvariant, PTL

(* m_QueuedPlayer: nobody waits while there is room, nobody waits twice,   *)
(* and who waits is in m_sessions.                                         *)
THEOREM QueueCorrect == Spec => []WaitsForRoom
<1>1. TableInv => WaitsForRoom
  <2> SUFFICES ASSUME TableInv
               PROVE  WaitsForRoom
      OBVIOUS
  <2>1. world \in World /\ QueueSound(world)
      BY TableParts DEF TableWorld
  <2>2. IsInjective(world.queued)
      BY <2>1 DEF QueueSound, IsInjective
  <2>3. ASSUME NEW s \in ToSet(world.queued)
        PROVE  FindSession(world, Account[s]) = s /\ world.ses[s].inQueue
      BY <2>1, <2>3 DEF QueueSound, IsListed, FindSession, ToSet
  <2> QED
      BY <2>1, <2>2, <2>3 DEF WaitsForRoom, QueueSound
<1> QED
    BY <1>1, TableInvariant, PTL

-----------------------------------------------------------------------------
(* The sockets, the queries and the characters.                            *)

(* What SocketsSound says of one session.                                  *)
Own(w, s) ==
    /\ w.ses[s].realm \/ w.ses[s].instance # 0 => w.ses[s].life \in {"new", "known"}
    /\ \A k \in Sockets : k[1] = s /\ Reads(w, k) =>
        /\ k[2] = 0 => w.ses[s].realm
        /\ k[2] # 0 =>
            /\ w.ses[s].instance = k[2]
            /\ w.ses[s].keys = k[2]
            /\ w.ses[s].loading \/ w.ses[s].player

(* It says it of every one, and where nothing is opened no more is needed. *)
LEMMA SocketsOwn ==
    ASSUME NEW w, NEW n, SocketsSound(w), SocketsLess(w, n)
    PROVE  /\ \A s \in Sessions : Own(w, s)
           /\ (\A s \in Sessions : Own(n, s)) => SocketsSound(n)
<1>1. \A k \in Sockets : k[1] \in Sessions
    BY DEF Sockets
<1>2. \A s \in Sessions : Own(w, s)
    BY DEF SocketsSound, Own
<1>3. ASSUME \A s \in Sessions : Own(n, s)
      PROVE  SocketsSound(n)
  <2>1. \A k \in Sockets : n.sock[k].state = "none" => ~n.sock[k].session
      BY DEF SocketsSound, SocketsLess
  <2> QED
      BY <1>1, <1>3, <2>1 DEF SocketsSound, Own
<1> QED
    BY <1>2, <1>3

(* A session that stays as it is keeps what it has,                        *)
LEMMA OwnKept ==
    ASSUME NEW w, NEW n, SocketsSound(w), SocketsLess(w, n),
           NEW s \in Sessions, Alike(w.ses[s], n.ses[s])
    PROVE  Own(n, s)
<1>1. Own(w, s)
    BY SocketsOwn
<1>2. \A k \in Sockets : Reads(n, k) => Reads(w, k)
    BY DEF SocketsLess
<1> QED
    BY <1>1, <1>2 DEF Own, Alike

(* and one session that changes is all there is to look at.                *)
LEMMA SocketsKept ==
    ASSUME NEW w, NEW n, SocketsSound(w), SocketsLess(w, n),
           NEW s \in Sessions, Own(n, s),
           \A t \in Sessions : t # s => Alike(w.ses[t], n.ses[t])
    PROVE  SocketsSound(n)
<1>1. \A t \in Sessions : Own(n, t)
    BY OwnKept
<1> QED
    BY <1>1, SocketsOwn

(* Where all that it holds is closed, nothing is read for a session.       *)
LEMMA HeldClosed ==
    ASSUME NEW w \in World, NEW n, SocketsSound(w), SocketsLess(w, n),
           NEW s \in Sessions
    PROVE  /\ (\A k \in Held(w, s) : k \in Sockets => ~IsOpen(n, k)) =>
                \A k \in Sockets : k[1] = s => ~Reads(n, k)
           /\ (\A k \in InstanceHeld(w, s) : k \in Sockets => ~IsOpen(n, k)) =>
                \A k \in Sockets : k[1] = s /\ k[2] # 0 => ~Reads(n, k)
<1>1. Own(w, s)
    BY SocketsOwn
<1>2. \A k \in Sockets : Reads(n, k) => Reads(w, k) /\ IsOpen(n, k)
    BY DEF SocketsLess, Reads
<1>3. \A k \in Sockets : k = <<k[1], k[2]>>
    BY DEF Sockets
<1>4. \A k \in Sockets : k[1] = s /\ k[2] # 0 /\ Reads(w, k) => k \in InstanceHeld(w, s)
    BY <1>1, <1>3 DEF Own, InstanceHeld
<1>5. \A k \in Sockets : k[1] = s /\ k[2] = 0 /\ Reads(w, k) => k \in RealmHeld(w, s)
    BY <1>1, <1>3 DEF Own, RealmHeld, Realm
<1> QED
    BY <1>2, <1>4, <1>5 DEF Held

(* While the last key is unused nothing but the first socket is read.      *)
LEMMA KeyUnused ==
    ASSUME NEW w \in World, SocketsSound(w), NEW s \in Sessions,
           w.sock[<<s, w.ses[s].keys>>].state = "none"
    PROVE  \A k \in Sockets : k[1] = s /\ Reads(w, k) => k[2] = 0
<1>1. Own(w, s)
    BY SocketsOwn DEF SocketsLess
<1>2. \A k \in Sockets : k = <<k[1], k[2]>>
    BY DEF Sockets
<1> QED
    BY <1>1, <1>2 DEF Own, Reads, IsOpen

(* The queries, when nothing is posted for the session of one but by the   *)
(* session itself.                                                         *)
LEMMA QueriesKept ==
    ASSUME NEW w \in World, NEW n \in World, NEW links, NEW new,
           QueriesSound(w, links),
           \A i \in DOMAIN n.db : IsQuery(n, i) =>
                i \in DOMAIN w.db /\ n.db[i] = w.db[i],
           \A i, j \in DOMAIN n.db :
                IsQuery(n, i) /\ SavesAccount(n, j, Account[n.db[i].of]) =>
                    j \in DOMAIN w.db /\ n.db[j] = w.db[j],
           \A s \in Sessions : w.ses[s].life = "deleted" => n.ses[s].life = "deleted",
           \A s \in Sessions :
                \/ /\ n.ses[s].loaded = w.ses[s].loaded
                   /\ Awaits(w, s, links) => Awaits(n, s, new)
                \/ /\ n.ses[s].loaded = <<>>
                   /\ \A i \in DOMAIN n.db : IsQuery(n, i) => n.db[i].of # s
    PROVE  QueriesSound(n, new)
<1>1. \A i \in DOMAIN n.db : n.db[i].of \in Sessions
    BY QueuesFields
<1>2. \A i \in DOMAIN n.db : IsQuery(n, i) => i \in DOMAIN w.db /\ IsQuery(w, i)
    BY <1>1 DEF IsQuery
<1>3. ASSUME NEW i \in DOMAIN n.db, IsQuery(n, i)
      PROVE  /\ Awaits(n, n.db[i].of, new)
             /\ n.ses[n.db[i].of].loaded = <<>>
  <2> DEFINE s == n.db[i].of
  <2>1. s \in Sessions /\ s = w.db[i].of
      BY <1>1, <1>3
  <2>2. Awaits(w, s, links) /\ w.ses[s].loaded = <<>>
      BY <1>2, <1>3, <2>1 DEF QueriesSound
  <2> HIDE DEF s
  <2>3. n.ses[s].loaded = w.ses[s].loaded /\ Awaits(n, s, new)
      BY <1>3, <2>1, <2>2 DEF s
  <2> QED
      BY <2>2, <2>3 DEF s
<1>4. ASSUME NEW i \in DOMAIN n.db, IsQuery(n, i), NEW j \in DOMAIN n.db, j > i
      PROVE  /\ ~SavesAccount(n, j, Account[n.db[i].of])
             /\ ~(IsQuery(n, j) /\ n.db[j].of = n.db[i].of)
  <2>1. i \in DOMAIN w.db /\ IsQuery(w, i) /\ n.db[i] = w.db[i]
      BY <1>2, <1>4
  <2>2. \A m \in DOMAIN w.db : m > i =>
            /\ ~SavesAccount(w, m, Account[w.db[i].of])
            /\ ~(IsQuery(w, m) /\ w.db[m].of = w.db[i].of)
      BY <2>1 DEF QueriesSound
  <2>3. ~SavesAccount(n, j, Account[n.db[i].of])
      BY <1>4, <2>1, <2>2 DEF SavesAccount
  <2>4. ~(IsQuery(n, j) /\ n.db[j].of = n.db[i].of)
      BY <1>2, <1>4, <2>1, <2>2
  <2> QED
      BY <2>3, <2>4
<1>5. ASSUME NEW s \in Sessions, n.ses[s].loaded # <<>>
      PROVE  Awaits(n, s, new) /\ Len(n.ses[s].loaded) = 1
  <2>1. /\ n.ses[s].loaded = w.ses[s].loaded
        /\ Awaits(w, s, links) => Awaits(n, s, new)
      BY <1>5
  <2> QED
      BY <1>5, <2>1 DEF QueriesSound
<1> QED
    BY <1>3, <1>4, <1>5 DEF QueriesSound

(* What an account finds, when nothing of it is saved.                     *)
LEMMA FindsKept ==
    ASSUME NEW w, NEW n, NEW a \in Accounts, NEW v, Finds(w, a, v),
           n.saved[a] = w.saved[a], DOMAIN w.db \subseteq DOMAIN n.db,
           \A i \in DOMAIN w.db : n.db[i] = w.db[i],
           \A i \in DOMAIN n.db : i \notin DOMAIN w.db => ~SavesAccount(n, i, a)
    PROVE  Finds(n, a, v)
<1>1. \A i \in DOMAIN w.db : SavesAccount(n, i, a) <=> SavesAccount(w, i, a)
    BY DEF SavesAccount
<1>2. CASE w.saved[a] = v /\ \A i \in DOMAIN w.db : ~SavesAccount(w, i, a)
    BY <1>1, <1>2 DEF Finds
<1>3. CASE \E i \in DOMAIN w.db :
            /\ SavesAccount(w, i, a)
            /\ w.db[i].at = v
            /\ \A j \in DOMAIN w.db : j > i => ~SavesAccount(w, j, a)
  <2>1. PICK i \in DOMAIN w.db :
            /\ SavesAccount(w, i, a)
            /\ w.db[i].at = v
            /\ \A j \in DOMAIN w.db : j > i => ~SavesAccount(w, j, a)
      BY <1>3
  <2>2. i \in DOMAIN n.db /\ SavesAccount(n, i, a) /\ n.db[i].at = v
      BY <1>1, <2>1
  <2>3. \A j \in DOMAIN n.db : j > i => ~SavesAccount(n, j, a)
      BY <1>1, <2>1
  <2> QED
      BY <2>2, <2>3 DEF Finds
<1> QED
    BY <1>2, <1>3 DEF Finds

(* Where neither the database nor the players change, nor who plays.       *)
LEMMA FullKept ==
    ASSUME NEW w \in World, NEW n \in World, NEW links, NEW new, NEW achieved,
           FullWorld(w, links, achieved), TableWorld(n), SocketsSound(n),
           SameData(w, n),
           \A s \in Sessions : w.ses[s].life = "deleted" => n.ses[s].life = "deleted",
           \A s \in Sessions :
                \/ /\ n.ses[s].loaded = w.ses[s].loaded
                   /\ Awaits(w, s, links) => Awaits(n, s, new)
                \/ /\ n.ses[s].loaded = <<>>
                   /\ \A i \in DOMAIN n.db : IsQuery(n, i) => n.db[i].of # s,
           \A a \in Accounts : Plays(n, a) <=> Plays(w, a),
           \A a \in Accounts : Plays(w, a) =>
                n.ses[n.sessions[a]].at = w.ses[w.sessions[a]].at
    PROVE  FullWorld(n, new, achieved)
<1>1. n.db = w.db /\ n.players = w.players /\ n.saved = w.saved
    BY DEF SameData
<1>2. QueriesSound(w, links) /\ PlayersExact(w) /\ ProgressSound(w, achieved)
    BY DEF FullWorld
<1>3. QueriesSound(n, new)
    BY <1>1, <1>2, QueriesKept
<1>4. PlayersExact(n)
    BY <1>1, <1>2 DEF PlayersExact
<1>5. \A a \in Accounts : Finds(w, a, achieved[a]) => Finds(n, a, achieved[a])
    BY <1>1 DEF Finds, SavesAccount
<1>6. ProgressSound(n, achieved)
    BY <1>2, <1>5 DEF ProgressSound
<1> QED
    BY <1>3, <1>4, <1>6 DEF FullWorld

(* The same, when the table stays as well, and all who play.               *)
LEMMA FullStep ==
    ASSUME NEW w \in World, NEW n \in World, NEW links, NEW new, NEW achieved,
           FullWorld(w, links, achieved), TableWorld(n), SocketsSound(n),
           SameData(w, n), n.sessions = w.sessions,
           \A s \in Sessions :
                /\ w.ses[s].life = "deleted" => n.ses[s].life = "deleted"
                /\ n.ses[s].player = w.ses[s].player
                /\ w.ses[s].player => n.ses[s].at = w.ses[s].at
                /\ n.ses[s].loaded = w.ses[s].loaded
                /\ Awaits(w, s, links) => Awaits(n, s, new)
    PROVE  FullWorld(n, new, achieved)
<1>1. \A a \in Accounts : w.sessions[a] # None => w.sessions[a] \in Sessions
    BY WorldFields
<1>2. \A a \in Accounts : Plays(n, a) <=> Plays(w, a)
    BY <1>1 DEF Plays
<1>3. \A a \in Accounts : Plays(w, a) =>
            n.ses[n.sessions[a]].at = w.ses[w.sessions[a]].at
    BY <1>1 DEF Plays
<1> QED
    BY <1>2, <1>3, FullKept

(* A login goes on where nothing of it changes.                            *)
LEMMA AwaitsKept ==
    ASSUME NEW w \in World, NEW n, NEW s \in Sessions, NEW links, NEW new,
           Awaits(w, s, links), IsListed(n, s),
           n.ses[s].loading = w.ses[s].loading, n.ses[s].keys = w.ses[s].keys,
           n.ses[s].player = w.ses[s].player,
           \A k \in Sockets : w.sock[k].state # "none" => n.sock[k].state # "none",
           new \subseteq links
    PROVE  Awaits(n, s, new)
<1>1. <<s, w.ses[s].keys>> \in Sockets
    BY DEF World, SessionState, Sockets
<1> QED
    BY <1>1 DEF Awaits

(* A connection that has yet to join is still there, and not joined.       *)
Waiting(w, n) ==
    \A k \in Sockets :
        k[2] # 0 /\ w.sock[k].state # "none" /\ ~w.sock[k].session =>
            n.sock[k].state # "none" /\ ~n.sock[k].session

(* A connection that waits to be linked is still waiting.                  *)
LEMMA SocketsLessWaiting ==
    ASSUME NEW w, NEW n, SocketsLess(w, n)
    PROVE  Waiting(w, n)
    BY DEF SocketsLess, Waiting

(* The connections that have yet to join are sockets.                      *)
LEMMA LinksType ==
    ASSUME TableInv
    PROVE  /\ Links(linkQueue, Linking) \subseteq Sockets
           /\ Linking \subseteq Links(linkQueue, Linking)
           /\ \A i \in DOMAIN linkQueue :
                linkQueue[i] \in Sockets /\ linkQueue[i] \in Links(linkQueue, Linking)
           /\ \A k \in Sockets : k[1] \in Sessions /\ k = <<k[1], k[2]>>
<1>1. linkQueue \in Seq(Sockets) /\ UpdateSound
    BY TableParts
<1>2. Linking \subseteq Sockets
    BY <1>1 DEF Linking, UpdateSound
<1>3. \A i \in DOMAIN linkQueue : linkQueue[i] \in Sockets
    BY <1>1
<1>4. \A k \in Sockets : k[1] \in Sessions /\ k = <<k[1], k[2]>>
    BY DEF Sockets
<1> QED
    BY <1>2, <1>3, <1>4 DEF Links

(* What the connections rely on.                                           *)
LEMMA LinksKept ==
    ASSUME TableInv, LinksSound, Waiting(world, world'),
           linkQueue' = linkQueue, Linking' = Linking,
           phase' = "linking" =>
                /\ phase = "linking" /\ current' = current
                /\ world'.ses[current[1]].keys = world.ses[current[1]].keys
    PROVE  LinksSound'
<1>1. Links(linkQueue, Linking)' = Links(linkQueue, Linking)
    BY DEF Links
<1>2. \A k \in Links(linkQueue, Linking) : k \in Sockets
    BY LinksType
<1>3. \A k \in Links(linkQueue, Linking) :
        /\ k[2] # 0
        /\ world'.sock[k].state # "none"
        /\ ~world'.sock[k].session
    BY <1>2 DEF LinksSound, Waiting
<1>4. phase' = "linking" => current'[2] = world'.ses[current'[1]].keys
    BY DEF LinksSound
<1>5. /\ \A i, j \in DOMAIN linkQueue' : linkQueue'[i] = linkQueue'[j] => i = j
      /\ \A i \in DOMAIN linkQueue' : linkQueue'[i] \notin Linking'
    BY DEF LinksSound
<1> QED
    BY <1>1, <1>3, <1>4, <1>5 DEF LinksSound

(* The invariant, as the lemmas want it, and back.                         *)
LEMMA SessionsParts ==
    SessionsInv <=>
        TableInv /\ LinksSound /\ FullWorld(world, Links(linkQueue, Linking), progress)
    BY DEF SessionsInv, FullWorld, TableInv, TableWorld

-----------------------------------------------------------------------------
(* Every action keeps SessionsInv.                                         *)

(* A step that changes nothing but the world.                              *)
LEMMA FullWorldStep ==
    ASSUME SessionsInv, TableInv', UnchangedQueues, UnchangedUpdate,
           Waiting(world, world'),
           phase = "linking" =>
                world'.ses[current[1]].keys = world.ses[current[1]].keys,
           FullWorld(world', Links(linkQueue, Linking), progress')
    PROVE  SessionsInv'
<1>1. linkQueue' = linkQueue /\ Linking' = Linking /\ phase' = phase /\ current' = current
    BY DEF UnchangedQueues, UnchangedUpdate, Linking
<1>2. LinksSound'
    BY <1>1, LinksKept, SessionsParts
<1>3. FullWorld(world, Links(linkQueue, Linking), progress)'
    BY <1>1 DEF Links
<1>4. (TableInv /\ LinksSound /\ FullWorld(world, Links(linkQueue, Linking), progress))'
        => SessionsInv'
    BY DEF SessionsInv, FullWorld, TableInv, TableWorld
<1> QED
    BY <1>2, <1>3, <1>4

(* A quiet one,                                                            *)
LEMMA QuietStep ==
    ASSUME SessionsInv, TableInv', UnchangedQueues, UnchangedUpdate,
           Quiet(world, world'), progress' = progress
    PROVE  SessionsInv'
<1>0. /\ TableInv /\ FullWorld(world, Links(linkQueue, Linking), progress)
      /\ world \in World
    BY SessionsParts, TableParts
<1>1. FullWorld(world', Links(linkQueue, Linking), progress)
    BY <1>0, QuietFull
<1>2. Waiting(world, world')
    BY SocketsLessWaiting DEF Quiet
<1>3. phase = "linking" => current[1] \in Sessions
    BY <1>0, TableParts, LinksType DEF UpdateSound
<1>4. phase = "linking" => world'.ses[current[1]].keys = world.ses[current[1]].keys
    BY <1>3 DEF Quiet, SameSession
<1> QED
    BY <1>1, <1>2, <1>4, FullWorldStep

(* and one of a thread that leaves the world alone.                        *)
LEMMA PhaseStep ==
    ASSUME SessionsInv, TableInv', linkQueue' = linkQueue, world' = world,
           progress' = progress, phase # "linking", phase' # "linking"
    PROVE  SessionsInv'
<1>1. Linking' = Linking
    BY DEF Linking
<1>2. LinksSound'
    BY <1>1, LinksKept, SessionsParts DEF Waiting
<1>3. FullWorld(world, Links(linkQueue, Linking), progress)'
    BY <1>1, SessionsParts DEF Links
<1>4. (TableInv /\ LinksSound /\ FullWorld(world, Links(linkQueue, Linking), progress))'
        => SessionsInv'
    BY DEF SessionsInv, FullWorld, TableInv, TableWorld
<1> QED
    BY <1>2, <1>3, <1>4

(* HandleAuthSessionCallback keeps SessionsInv.                            *)
LEMMA AuthFull ==
    ASSUME SessionsInv, TableInv', NEW s \in Sessions, HandleAuthSessionCallback(s)
    PROVE  SessionsInv'
<1> DEFINE n == Authenticated(world, s)
           links == Links(linkQueue, Linking)
<1>0. /\ TableInv /\ FullWorld(world, links, progress) /\ LinksSound
      /\ world \in World /\ world' \in World /\ TableWorld(world')
    BY SessionsParts, TableParts DEF TableInv, TypeOK, TableWorld
<1>1. /\ world.ses[s].life = "none" /\ world' = n
      /\ UnchangedQueues /\ UnchangedUpdate /\ progress' = progress
    BY DEF HandleAuthSessionCallback, ChangesWorld, Authenticated
<1>2. /\ SameTable(world, n) /\ SameData(world, n)
      /\ \A t \in Sessions : t # s => n.ses[t] = world.ses[t]
      /\ n.ses[s].life = "new"
      /\ n.ses[s].loading = world.ses[s].loading
      /\ n.ses[s].loaded = world.ses[s].loaded /\ n.ses[s].keys = world.ses[s].keys
      /\ n.ses[s].player = world.ses[s].player /\ n.ses[s].at = world.ses[s].at
      /\ n.ses[s].realm
      /\ n.ses[s].instance = world.ses[s].instance
      /\ Realm(s) \in Sockets
      /\ \A k \in Sockets : k # Realm(s) => n.sock[k] = world.sock[k]
      /\ n.sock[Realm(s)].state = "open" /\ n.sock[Realm(s)].session
    BY <1>0, AuthenticatedFacts
<1> HIDE DEF n, links
<1>3. SocketsSound(world)
    BY <1>0 DEF FullWorld
<1>4. \A k \in Sockets : k[1] = s => ~Reads(world, k)
    BY <1>1, <1>3 DEF SocketsSound
<1>5. SocketsSound(n)
  <2>1. \A t \in Sessions :
            n.ses[t].realm \/ n.ses[t].instance # 0 => n.ses[t].life \in {"new", "known"}
      BY <1>1, <1>2, <1>3 DEF SocketsSound
  <2>2. Realm(s)[1] = s /\ Realm(s)[2] = 0
      BY DEF Realm
  <2>3. ASSUME NEW k \in Sockets, k # Realm(s)
        PROVE  /\ n.sock[k].state = "none" => ~n.sock[k].session
               /\ Reads(n, k) => k[1] # s /\ Reads(world, k)
      BY <1>2, <1>3, <1>4, <2>3 DEF SocketsSound, Reads, IsOpen
  <2>4. \A k \in Sockets : k[1] \in Sessions
      BY DEF Sockets
  <2> QED
      BY <1>2, <1>3, <2>1, <2>2, <2>3, <2>4 DEF SocketsSound
<1>6. \A k \in Sockets : world.sock[k].state # "none" => n.sock[k].state # "none"
    BY <1>2
<1>7. \A t \in Sessions :
        /\ world.ses[t].life = "deleted" => n.ses[t].life = "deleted"
        /\ n.ses[t].player = world.ses[t].player
        /\ n.ses[t].at = world.ses[t].at
        /\ n.ses[t].loaded = world.ses[t].loaded
        /\ n.ses[t].keys = world.ses[t].keys
        /\ n.ses[t].loading = world.ses[t].loading
    BY <1>1, <1>2
<1>8. \A t \in Sessions : Awaits(world, t, links) => Awaits(n, t, links)
    BY <1>0, <1>2, <1>6, <1>7, AwaitsKept DEF SameTable, Awaits, IsListed
<1>9. FullWorld(n, links, progress)
    BY <1>0, <1>1, <1>2, <1>5, <1>7, <1>8, FullStep DEF SameTable
<1>10. Waiting(world, n)
    BY <1>2 DEF Waiting, Realm
<1>11. phase = "linking" => n.ses[current[1]].keys = world.ses[current[1]].keys
  <2>1. phase = "linking" => current[1] \in Sessions
      BY <1>0, TableParts, LinksType DEF UpdateSound
  <2> QED
      BY <1>7, <2>1
<1> QED
    BY <1>1, <1>9, <1>10, <1>11, FullWorldStep DEF links

(* World::AddSession keeps SessionsInv.                                    *)
LEMMA AddSessionFull ==
    ASSUME SessionsInv, TableInv', NEW s \in Sessions, AddSession(s)
    PROVE  SessionsInv'
<1> DEFINE n == [world EXCEPT !.ses[s].life = "known"]
           links == Links(linkQueue, Linking)
<1>0. /\ TableInv /\ FullWorld(world, links, progress) /\ LinksSound
      /\ world \in World /\ world' \in World /\ TableWorld(world')
    BY SessionsParts, TableParts DEF TableInv, TypeOK, TableWorld
<1>1. /\ world.ses[s].life = "new" /\ world' = n
      /\ UNCHANGED <<linkQueue, phase, current, todo, progress>>
    BY DEF AddSession
<1>2. /\ SameTable(world, n) /\ SameData(world, n) /\ n.sock = world.sock
      /\ \A t \in Sessions : t # s => n.ses[t] = world.ses[t]
      /\ n.ses[s].life = "known"
      /\ n.ses[s].loading = world.ses[s].loading
      /\ n.ses[s].loaded = world.ses[s].loaded /\ n.ses[s].keys = world.ses[s].keys
      /\ n.ses[s].player = world.ses[s].player /\ n.ses[s].at = world.ses[s].at
      /\ n.ses[s].realm = world.ses[s].realm
      /\ n.ses[s].instance = world.ses[s].instance
    BY <1>0, KnownFacts
<1> HIDE DEF n, links
<1>3. SocketsSound(world) /\ SocketsLess(world, n)
    BY <1>0, <1>2 DEF FullWorld, SocketsLess, Reads, IsOpen
<1>4. SocketsSound(n)
  <2>1. Own(n, s)
    <3>1. Own(world, s)
        BY <1>3, SocketsOwn
    <3> QED
        BY <1>2, <3>1 DEF Own, Reads, IsOpen
  <2>2. \A t \in Sessions : t # s => Alike(world.ses[t], n.ses[t])
      BY <1>2 DEF Alike
  <2> QED
      BY <1>3, <2>1, <2>2, SocketsKept
<1>5. \A t \in Sessions :
        /\ world.ses[t].life = "deleted" => n.ses[t].life = "deleted"
        /\ n.ses[t].player = world.ses[t].player
        /\ n.ses[t].at = world.ses[t].at
        /\ n.ses[t].loaded = world.ses[t].loaded
        /\ n.ses[t].keys = world.ses[t].keys
        /\ n.ses[t].loading = world.ses[t].loading
    BY <1>1, <1>2
<1>6. \A t \in Sessions : Awaits(world, t, links) => Awaits(n, t, links)
    BY <1>0, <1>2, <1>5, AwaitsKept DEF SameTable, Awaits, IsListed
<1>7. FullWorld(n, links, progress)
    BY <1>0, <1>1, <1>2, <1>4, <1>5, <1>6, FullStep DEF SameTable
<1>8. Linking' = Linking
    BY <1>1 DEF Linking
<1>9. phase = "linking" => n.ses[current[1]].keys = world.ses[current[1]].keys
  <2>1. phase = "linking" => current[1] \in Sessions
      BY <1>0, TableParts, LinksType DEF UpdateSound
  <2> QED
      BY <1>5, <2>1
<1>10. LinksSound'
    BY <1>0, <1>1, <1>3, <1>8, <1>9, SocketsLessWaiting, LinksKept
<1>11. FullWorld(world, Links(linkQueue, Linking), progress)'
    BY <1>1, <1>7, <1>8 DEF Links, links
<1>12. (TableInv /\ LinksSound /\ FullWorld(world, Links(linkQueue, Linking), progress))'
        => SessionsInv'
    BY DEF SessionsInv, FullWorld, TableInv, TableWorld
<1> QED
    BY <1>10, <1>11, <1>12

(* World::AddInstanceSocket keeps SessionsInv: the key was the last one.   *)
LEMMA AddInstanceSocketFull ==
    ASSUME SessionsInv, TableInv', NEW k \in Sockets, AddInstanceSocket(k)
    PROVE  SessionsInv'
<1> DEFINE n == [world EXCEPT !.sock[k].state = "open"]
           links == Links(linkQueue, Linking)
           new == Links(linkQueue', Linking)
           q == linkQueue
           r == linkQueue'
<1>0. /\ TableInv /\ FullWorld(world, links, progress) /\ LinksSound
      /\ world \in World /\ world' \in World /\ TableWorld(world')
      /\ q \in Seq(Sockets)
    BY SessionsParts, TableParts DEF TableInv, TypeOK, TableWorld
<1>1. /\ k[2] # 0 /\ world.sock[k].state = "none"
      /\ world' = n
      /\ r = Append(q, k)
      /\ UNCHANGED <<addSessQueue, phase, current, todo, progress>>
  <2>1. k[2] \in 1 .. world.ses[k[1]].keys
      BY DEF AddInstanceSocket
  <2> QED
      BY <2>1 DEF AddInstanceSocket
<1>2. /\ SameTable(world, n) /\ SameData(world, n) /\ n.ses = world.ses
      /\ \A c \in Sockets : c # k => n.sock[c] = world.sock[c]
      /\ n.sock[k].state = "open" /\ n.sock[k].session = world.sock[k].session
    BY <1>0, OpenedFacts
<1>r. /\ DOMAIN r = 1 .. Len(q) + 1 /\ DOMAIN q = 1 .. Len(q) /\ Len(q) \in Nat
      /\ \A i \in 1 .. Len(q) : r[i] = q[i]
      /\ r[Len(q) + 1] = k
    BY <1>0, <1>1
<1> HIDE DEF n, links, new
<1>3. SocketsSound(world) /\ ~world.sock[k].session
    BY <1>0, <1>1 DEF FullWorld, SocketsSound
<1>4. SocketsSound(n)
    BY <1>2, <1>3 DEF SocketsSound, Reads, IsOpen
<1>5. \A i \in DOMAIN r : i \in DOMAIN q \/ i = Len(q) + 1
    BY <1>r
<1>6. new = links \cup {k}
  <2> HIDE DEF q, r
  <2>1. {r[i] : i \in DOMAIN r} = {q[i] : i \in DOMAIN q} \cup {k}
      BY <1>r, <1>5
  <2> QED
      BY <2>1 DEF new, links, Links, q, r
<1>7. k \notin links
    BY <1>0, <1>1 DEF LinksSound, links
<1>8. \A t \in Sessions : Awaits(world, t, links) => Awaits(n, t, new)
  <2> SUFFICES ASSUME NEW t \in Sessions, Awaits(world, t, links)
               PROVE  Awaits(n, t, new)
      OBVIOUS
  <2>1. <<t, world.ses[t].keys>> # k
      BY <1>1 DEF Awaits
  <2>2. <<t, world.ses[t].keys>> \in Sockets
      BY <1>0 DEF World, SessionState, Sockets
  <2> QED
      BY <1>2, <1>6, <2>1, <2>2 DEF Awaits, IsListed, SameTable
<1>9. FullWorld(n, new, progress)
    BY <1>0, <1>1, <1>2, <1>4, <1>8, FullStep DEF SameTable
<1>10. Linking' = Linking
    BY <1>1 DEF Linking
<1>11. LinksSound'
  <2>1. \A i \in DOMAIN q : q[i] \in links
      BY DEF links, Links
  <2>2. \A i, j \in DOMAIN q : q[i] = q[j] => i = j
      BY <1>0 DEF LinksSound
  <2>3. k \notin Linking
      BY <1>7 DEF links, Links
  <2>4. links \subseteq Sockets
      BY <1>0, LinksType DEF links
  <2>5. \A c \in new :
            /\ c[2] # 0
            /\ n.sock[c].state # "none"
            /\ ~n.sock[c].session
    <3>1. \A c \in links : c[2] # 0 /\ world.sock[c].state # "none" /\ ~world.sock[c].session
        BY <1>0 DEF LinksSound, links
    <3> QED
        BY <1>1, <1>2, <1>3, <1>6, <2>4, <3>1
  <2>6. phase' = "linking" => current'[2] = world'.ses[current'[1]].keys
      BY <1>0, <1>1, <1>2 DEF LinksSound
  <2> HIDE DEF q, r
  <2>7. \A i, j \in DOMAIN r : r[i] = r[j] => i = j
      BY <1>r, <1>5, <1>7, <2>1, <2>2
  <2>8. \A i \in DOMAIN r : r[i] \notin Linking
    <3>1. \A i \in DOMAIN q : q[i] \notin Linking
        BY <1>0 DEF LinksSound, q
    <3> QED
        BY <1>r, <1>5, <2>3, <3>1
  <2>9. Links(linkQueue, Linking)' = new
      BY <1>10 DEF new, Links
  <2> QED
      BY <1>1, <1>10, <2>5, <2>6, <2>7, <2>8, <2>9 DEF LinksSound, r
<1>12. FullWorld(world, Links(linkQueue, Linking), progress)'
    BY <1>1, <1>9, <1>10 DEF new
<1>13. (TableInv /\ LinksSound /\ FullWorld(world, Links(linkQueue, Linking), progress))'
        => SessionsInv'
    BY DEF SessionsInv, FullWorld, TableInv, TableWorld
<1> QED
    BY <1>11, <1>12, <1>13

(* QueuePacket keeps SessionsInv.                                          *)
LEMMA QueuePacketFull ==
    ASSUME SessionsInv, TableInv', NEW k \in Sockets, QueuePacket(k)
    PROVE  SessionsInv'
<1>0. k[1] \in Sessions /\ world \in World
    BY SessionsParts, TableParts DEF Sockets
<1>1. PICK want \in {"login", "logout"} :
        ChangesWorld([world EXCEPT !.ses[k[1]].wants = want])
    BY DEF QueuePacket
<1>2. Quiet(world, world')
    BY <1>0, <1>1, WantsQuiet DEF ChangesWorld
<1> QED
    BY <1>1, <1>2, QuietStep DEF ChangesWorld

(* The loss of a connection keeps SessionsInv.                             *)
LEMMA LoseConnectionFull ==
    ASSUME SessionsInv, TableInv', NEW k \in Sockets, LoseConnection(k)
    PROVE  SessionsInv'
<1>1. /\ world' = Close(world, {k})
      /\ UnchangedQueues /\ UnchangedUpdate /\ progress' = progress
    BY DEF LoseConnection, ChangesWorld
<1>2. Quiet(world, world')
    BY <1>1, CloseQuiet, SessionsParts, TableParts
<1> QED
    BY <1>1, <1>2, QuietStep

(* A kick keeps SessionsInv.                                               *)
LEMMA KickFull ==
    ASSUME SessionsInv, TableInv', NEW a \in Accounts, Kick(a)
    PROVE  SessionsInv'
<1>1. /\ world' = KickPlayer(world, FindSession(world, a))
      /\ UnchangedQueues /\ UnchangedUpdate /\ progress' = progress
    BY DEF Kick, Between
<1>2. Quiet(world, world')
    BY <1>1, KickQuiet, SessionsParts, TableParts
<1> QED
    BY <1>1, <1>2, QuietStep

(* The end of a tolerance keeps SessionsInv.                               *)
LEMMA ToleranceFull ==
    ASSUME SessionsInv, TableInv', NEW a \in Accounts, ToleranceEnds(a)
    PROVE  SessionsInv'
<1>0. world \in World
    BY SessionsParts, TableParts
<1>1. /\ world' = [world EXCEPT !.disconnects = world.disconnects \ {a}]
      /\ UnchangedQueues /\ UnchangedUpdate /\ progress' = progress
    BY DEF ToleranceEnds, Between
<1>2. world.disconnects \ {a} \in SUBSET Accounts
    BY <1>0, WorldFields
<1>3. Quiet(world, world')
    BY <1>0, <1>1, <1>2, DisconnectsQuiet
<1> QED
    BY <1>1, <1>3, QuietStep

(* KickAll keeps SessionsInv.                                              *)
LEMMA KickAllFull ==
    ASSUME SessionsInv, TableInv', KickAll
    PROVE  SessionsInv'
<1> DEFINE links == Links(linkQueue, Linking)
<1>0. /\ TableInv /\ FullWorld(world, links, progress)
      /\ world \in World /\ world' \in World /\ TableWorld(world')
    BY SessionsParts, TableParts DEF TableInv, TypeOK, TableWorld
<1>1. /\ world' = Close([world EXCEPT !.queued = <<>>],
                UNION {Held(world, FindSession(world, a)) : a \in Listed(world)})
      /\ UnchangedQueues /\ UnchangedUpdate /\ progress' = progress
    BY DEF KickAll, Between
<1>2. /\ world'.sessions = world.sessions /\ world'.ses = world.ses
      /\ SameData(world, world') /\ SocketsLess(world, world')
    BY <1>0, <1>1, KickedAllFacts
<1> HIDE DEF links
<1>3. SocketsSound(world')
  <2>1. SocketsSound(world)
      BY <1>0 DEF FullWorld
  <2>2. \A s \in Sessions : Own(world', s)
      BY <1>2, <2>1, OwnKept DEF Alike
  <2> QED
      BY <1>2, <2>1, <2>2, SocketsOwn
<1>4. \A t \in Sessions : Awaits(world, t, links) => Awaits(world', t, links)
    BY <1>0, <1>2, AwaitsKept DEF SocketsLess, Awaits, IsListed
<1>5. FullWorld(world', links, progress)
    BY <1>0, <1>2, <1>3, <1>4, FullStep
<1> QED
    BY <1>1, <1>2, <1>5, SocketsLessWaiting, FullWorldStep DEF links

(* The steps between the loops of UpdateSessions keep SessionsInv.         *)
LEMMA PhasesFull ==
    ASSUME SessionsInv, TableInv', StartUpdate \/ LinksDone \/ AddsDone
    PROVE  SessionsInv'
    BY PhaseStep DEF StartUpdate, LinksDone, AddsDone

(* One session changes, but not what it has to play, or to be played.      *)
LEMMA TouchesFull ==
    ASSUME NEW w \in World, NEW n \in World, NEW links, NEW achieved,
           FullWorld(w, links, achieved), TableWorld(n),
           NEW s \in Sessions, Touches(w, n, s), SameData(w, n),
           SocketsLess(w, n), Own(n, s),
           n.ses[s].player = w.ses[s].player, n.ses[s].at = w.ses[s].at,
           n.ses[s].loaded = w.ses[s].loaded,
           Awaits(w, s, links) =>
                n.ses[s].loading /\ n.ses[s].keys = w.ses[s].keys
    PROVE  FullWorld(n, links, achieved)
<1>1. /\ n.sessions = w.sessions
      /\ \A t \in Sessions : t # s => n.ses[t] = w.ses[t]
      /\ n.ses[s].life = w.ses[s].life
    BY DEF Touches, SameTable
<1>2. SocketsSound(n)
  <2>1. \A t \in Sessions : t # s => Alike(w.ses[t], n.ses[t])
      BY <1>1 DEF Alike
  <2> QED
      BY <2>1, SocketsKept DEF FullWorld
<1>3. ASSUME NEW t \in Sessions, Awaits(w, t, links)
      PROVE  Awaits(n, t, links)
  <2>1. w.ses[t].loading \in BOOLEAN /\ n.ses[t].loading \in BOOLEAN
      BY DEF World, SessionState
  <2>2. /\ n.ses[t].loading = w.ses[t].loading /\ n.ses[t].keys = w.ses[t].keys
        /\ n.ses[t].player = w.ses[t].player
      BY <1>1, <1>3, <2>1 DEF Awaits
  <2>3. IsListed(n, t)
      BY <1>1, <1>3 DEF Awaits, IsListed
  <2> QED
      BY <1>3, <2>2, <2>3, AwaitsKept DEF SocketsLess
<1> QED
    BY <1>1, <1>2, <1>3, FullStep

(* Nothing is asked for a session whose last key is unused, ...            *)
LEMMA ConnectFailedFull ==
    ASSUME SessionsInv, TableInv', MisjudgesFailure = FALSE,
           NEW k \in Sockets, HandleConnectToFailed(k)
    PROVE  SessionsInv'
<1> DEFINE s == k[1]
           links == Links(linkQueue, Linking)
<1>0. /\ TableInv /\ FullWorld(world, links, progress) /\ LinksSound
      /\ world \in World /\ world' \in World /\ TableWorld(world')
      /\ s \in Sessions /\ SocketsSound(world)
    BY SessionsParts, TableParts DEF TableInv, TypeOK, TableWorld, Sockets, FullWorld
<1>1. /\ world.ses[s].loading /\ world.sock[<<s, world.ses[s].keys>>].state = "none"
      /\ world' = IF world.ses[s].keys < MaxKeys
                  THEN SendConnectToInstance(world, s)
                  ELSE AbortLogin(world, s)
      /\ UnchangedQueues /\ UnchangedUpdate /\ progress' = progress
    BY DEF HandleConnectToFailed, ChangesWorld
<1> HIDE DEF s, links
<1>2. ~Awaits(world, s, links)
    BY <1>1 DEF Awaits
<1>3. \A c \in Sockets : c[1] = s /\ Reads(world, c) => c[2] = 0
    BY <1>0, <1>1, KeyUnused
<1>4. phase = "linking" => current[1] \in Sessions /\ current[1] # s
  <2> SUFFICES ASSUME phase = "linking"
               PROVE  current[1] \in Sessions /\ current[1] # s
      OBVIOUS
  <2>1. current \in Sockets
      BY <1>0, TableParts DEF UpdateSound
  <2>2. current[1] \in Sessions /\ current = <<current[1], current[2]>>
      BY <1>0, <2>1, LinksType
  <2>3. current \in links
      BY DEF links, Links, Linking
  <2>4. current[2] = world.ses[current[1]].keys /\ world.sock[current].state # "none"
      BY <1>0, <2>3 DEF LinksSound, links
  <2> QED
      BY <1>1, <2>2, <2>4
<1>5. \/ Quiet(world, world')
      \/ /\ Touches(world, world', s) /\ SameData(world, world')
         /\ world'.sock = world.sock
         /\ world'.ses[s].loaded = world.ses[s].loaded
         /\ world'.ses[s].player = world.ses[s].player
         /\ world'.ses[s].at = world.ses[s].at
         /\ world'.ses[s].realm = world.ses[s].realm
         /\ world'.ses[s].instance = world.ses[s].instance
  <2>1. CASE world.ses[s].keys < MaxKeys
      BY <1>0, <1>1, <2>1, SendConnectFacts
  <2>2. CASE world' = KickPlayer(world, s)
      BY <1>0, <2>2, KickQuiet
  <2>3. CASE world' = [world EXCEPT !.ses[s].loading = FALSE]
      BY <1>0, <2>3, LoginEndsFacts
  <2> QED
      BY <1>1, <2>1, <2>2, <2>3 DEF AbortLogin
<1>6. CASE Quiet(world, world')
    BY <1>1, <1>6, QuietStep
<1>7. CASE /\ Touches(world, world', s) /\ SameData(world, world')
           /\ world'.sock = world.sock
           /\ world'.ses[s].loaded = world.ses[s].loaded
           /\ world'.ses[s].player = world.ses[s].player
           /\ world'.ses[s].at = world.ses[s].at
           /\ world'.ses[s].realm = world.ses[s].realm
           /\ world'.ses[s].instance = world.ses[s].instance
  <2>1. SocketsLess(world, world')
      BY <1>7 DEF SocketsLess, Reads, IsOpen
  <2>2. Own(world', s)
    <3>1. Own(world, s)
        BY <1>0, <2>1, SocketsOwn
    <3> QED
        BY <1>3, <1>7, <2>1, <3>1 DEF Own, SocketsLess, Touches
  <2>3. FullWorld(world', links, progress)
      BY <1>0, <1>2, <1>7, <2>1, <2>2, TouchesFull
  <2>4. phase = "linking" => world'.ses[current[1]].keys = world.ses[current[1]].keys
      BY <1>4, <1>7 DEF Touches
  <2> QED
      BY <1>1, <2>1, <2>3, <2>4, SocketsLessWaiting, FullWorldStep DEF links
<1> QED
    BY <1>5, <1>6, <1>7

(* ... nor for one that has no login going on.                             *)
LEMMA LoginBeginsFull ==
    ASSUME NEW w \in World, NEW links, NEW achieved, FullWorld(w, links, achieved),
           NEW s \in Sessions, ~w.ses[s].loading, ~w.ses[s].player,
           w.ses[s].keys < MaxKeys,
           NEW n, n = SendConnectToInstance([w EXCEPT !.ses[s].loading = TRUE], s),
           TableWorld(n)
    PROVE  FullWorld(n, links, achieved)
<1>1. /\ Touches(w, n, s) /\ SameData(w, n) /\ n.sock = w.sock
      /\ n.ses[s].loaded = w.ses[s].loaded
      /\ n.ses[s].player = w.ses[s].player /\ n.ses[s].at = w.ses[s].at
      /\ n.ses[s].realm = w.ses[s].realm
      /\ n.ses[s].instance = w.ses[s].instance
    BY LoginBeginsFacts
<1>2. ~Awaits(w, s, links)
    BY DEF Awaits
<1>3. SocketsLess(w, n)
    BY <1>1 DEF SocketsLess, Reads, IsOpen
<1>4. Own(n, s)
  <2>1. Own(w, s)
      BY <1>3, SocketsOwn DEF FullWorld
  <2> QED
      BY <1>1, <1>3, <2>1 DEF Own, SocketsLess, Touches
<1> QED
    BY <1>1, <1>2, <1>3, <1>4, TouchesFull DEF Touches

(* m_inQueue is no part of it,                                             *)
LEMMA InitializedFull ==
    ASSUME NEW w \in World, NEW links, NEW achieved, FullWorld(w, links, achieved),
           NEW s \in Sessions, ~InQueue(w, s),
           NEW n, n = InitializeSessionCallback(w, s), TableWorld(n)
    PROVE  FullWorld(n, links, achieved) /\ SocketsLess(w, n)
<1>1. /\ Touches(w, n, s) /\ SameData(w, n) /\ n.sock = w.sock
      /\ n.ses[s].keys = w.ses[s].keys
      /\ n.ses[s].loading = w.ses[s].loading
      /\ n.ses[s].loaded = w.ses[s].loaded
      /\ n.ses[s].player = w.ses[s].player /\ n.ses[s].at = w.ses[s].at
      /\ n.ses[s].realm = w.ses[s].realm
      /\ n.ses[s].instance = w.ses[s].instance
    BY InitializedFacts
<1>2. SocketsLess(w, n)
    BY <1>1 DEF SocketsLess, Reads, IsOpen
<1>3. Own(n, s)
    BY <1>1, <1>2, OwnKept DEF FullWorld, Alike, Touches
<1> QED
    BY <1>1, <1>2, <1>3, TouchesFull DEF Touches, Awaits

(* and a session may let go of what is closed.                             *)
LEMMA FreedFull ==
    ASSUME NEW w \in World, NEW links, NEW achieved, FullWorld(w, links, achieved),
           NEW s \in Sessions, NEW n, n = Freed(w, s), TableWorld(n)
    PROVE  FullWorld(n, links, achieved) /\ SocketsLess(w, n)
<1>1. /\ Touches(w, n, s) /\ SameData(w, n) /\ SocketsLess(w, n)
      /\ \A k \in Held(w, s) : k \in Sockets => ~IsOpen(n, k)
      /\ n.ses[s].keys = w.ses[s].keys
      /\ n.ses[s].loading = w.ses[s].loading
      /\ n.ses[s].loaded = w.ses[s].loaded
      /\ n.ses[s].player = w.ses[s].player /\ n.ses[s].at = w.ses[s].at
      /\ ~n.ses[s].realm
      /\ n.ses[s].instance = 0
    BY FreedFacts
<1>2. SocketsSound(w)
    BY DEF FullWorld
<1>3. \A k \in Sockets : k[1] = s => ~Reads(n, k)
    BY <1>1, <1>2, HeldClosed
<1>4. Own(n, s)
    BY <1>1, <1>3 DEF Own
<1> QED
    BY <1>1, <1>4, TouchesFull DEF Touches, Awaits

(* A save of the character of s is no save of one that has a query.        *)
LEMMA SavedQueries ==
    ASSUME NEW w \in World, NEW n \in World, NEW links,
           TableWorld(w), QueriesSound(w, links), NEW s \in Sessions, IsListed(w, s),
           \A t \in Sessions : w.ses[t].life = "deleted" => n.ses[t].life = "deleted",
           \A i \in DOMAIN n.db :
                \/ i \in DOMAIN w.db /\ n.db[i] = w.db[i]
                \/ w.ses[s].player /\ n.db[i] = SaveTask(w, s)
    PROVE  /\ \A i \in DOMAIN n.db : IsQuery(n, i) =>
                i \in DOMAIN w.db /\ n.db[i] = w.db[i]
           /\ \A i, j \in DOMAIN n.db :
                IsQuery(n, i) /\ SavesAccount(n, j, Account[n.db[i].of]) =>
                    j \in DOMAIN w.db /\ n.db[j] = w.db[j]
<1>1. SaveTask(w, s).save /\ SaveTask(w, s).of = s
    BY DEF SaveTask
<1>2. \A i \in DOMAIN n.db : IsQuery(n, i) => i \in DOMAIN w.db /\ n.db[i] = w.db[i]
    BY <1>1 DEF IsQuery
<1>3. ASSUME NEW i \in DOMAIN n.db, NEW j \in DOMAIN n.db,
             IsQuery(n, i), SavesAccount(n, j, Account[n.db[i].of]),
             ~(j \in DOMAIN w.db /\ n.db[j] = w.db[j])
      PROVE  FALSE
  <2> DEFINE t == n.db[i].of
  <2>1. w.ses[s].player /\ n.db[j].of = s
      BY <1>1, <1>3
  <2>2. t \in Sessions /\ i \in DOMAIN w.db /\ w.db[i] = n.db[i]
      BY <1>2, <1>3, QueuesFields
  <2>3. IsQuery(w, i)
      BY <1>3, <2>2 DEF IsQuery
  <2>4. Awaits(w, t, links)
      BY <2>2, <2>3 DEF QueriesSound
  <2>5. Account[t] = Account[s]
      BY <1>3, <2>1 DEF SavesAccount
  <2> HIDE DEF t
  <2>6. t = s
      BY <2>4, <2>5 DEF Awaits, IsListed
  <2> QED
      BY <2>1, <2>4, <2>6 DEF Awaits
<1> QED
    BY <1>2, <1>3

(* The player of s, if it had one, is saved and gone.                      *)
LEMMA GoneFull ==
    ASSUME NEW w \in World, NEW n \in World, NEW links, NEW achieved,
           FullWorld(w, links, achieved), TableWorld(n), SocketsSound(n),
           NEW s \in Sessions, IsListed(w, s),
           PlayerGone(w, n, s), n.saved = w.saved, ~Plays(n, Account[s]),
           \A a \in Accounts : a # Account[s] => n.sessions[a] = w.sessions[a],
           \A t \in Sessions :
                /\ w.ses[t].life = "deleted" => n.ses[t].life = "deleted"
                /\ t # s =>
                    /\ n.ses[t].loaded = w.ses[t].loaded
                    /\ n.ses[t].player = w.ses[t].player
                    /\ n.ses[t].at = w.ses[t].at
                    /\ Awaits(w, t, links) => Awaits(n, t, links),
           \/ /\ n.ses[s].loaded = w.ses[s].loaded
              /\ Awaits(w, s, links) => Awaits(n, s, links)
           \/ n.ses[s].loaded = <<>> /\ n.ses[s].life = "deleted"
    PROVE  FullWorld(n, links, achieved)
<1> DEFINE b == Account[s]
<1>0. b \in Accounts /\ s # None
    BY SessionsAssumption
<1>1. /\ DOMAIN w.db \subseteq DOMAIN n.db
      /\ DOMAIN w.db = 1 .. Len(w.db) /\ Len(w.db) \in Nat
      /\ \A i \in DOMAIN w.db : n.db[i] = w.db[i]
      /\ \A i \in DOMAIN n.db : i \notin DOMAIN w.db =>
            w.ses[s].player /\ i = Len(w.db) + 1 /\ n.db[i] = SaveTask(w, s)
      /\ w.ses[s].player =>
            Len(w.db) + 1 \in DOMAIN n.db /\ n.db[Len(w.db) + 1] = SaveTask(w, s)
    BY GoneTasks
<1>2. /\ TableWorld(w) /\ TableSound(w)
      /\ QueriesSound(w, links) /\ PlayersExact(w) /\ ProgressSound(w, achieved)
    BY DEF FullWorld, TableWorld
<1>3. \A i \in DOMAIN n.db : IsQuery(n, i) => n.ses[n.db[i].of].life # "deleted"
    BY DEF IsQuery
<1>4. QueriesSound(n, links)
  <2>1. \A i \in DOMAIN n.db :
            \/ i \in DOMAIN w.db /\ n.db[i] = w.db[i]
            \/ w.ses[s].player /\ n.db[i] = SaveTask(w, s)
      BY <1>1
  <2>2. /\ \A i \in DOMAIN n.db : IsQuery(n, i) =>
                i \in DOMAIN w.db /\ n.db[i] = w.db[i]
        /\ \A i, j \in DOMAIN n.db :
                IsQuery(n, i) /\ SavesAccount(n, j, Account[n.db[i].of]) =>
                    j \in DOMAIN w.db /\ n.db[j] = w.db[j]
      BY <1>2, <2>1, SavedQueries
  <2>3. \A t \in Sessions :
                \/ /\ n.ses[t].loaded = w.ses[t].loaded
                   /\ Awaits(w, t, links) => Awaits(n, t, links)
                \/ /\ n.ses[t].loaded = <<>>
                   /\ \A i \in DOMAIN n.db : IsQuery(n, i) => n.db[i].of # t
      BY <1>3
  <2> QED
      BY <1>2, <2>2, <2>3, QueriesKept
<1>5. \A a \in Accounts : a # b =>
        /\ Plays(n, a) <=> Plays(w, a)
        /\ Plays(w, a) => n.ses[n.sessions[a]].at = w.ses[w.sessions[a]].at
  <2> SUFFICES ASSUME NEW a \in Accounts, a # b
               PROVE  /\ Plays(n, a) <=> Plays(w, a)
                      /\ Plays(w, a) => n.ses[n.sessions[a]].at = w.ses[w.sessions[a]].at
      OBVIOUS
  <2>1. n.sessions[a] = w.sessions[a]
      OBVIOUS
  <2>2. w.sessions[a] # None => w.sessions[a] \in Sessions /\ w.sessions[a] # s
      BY <1>2, ListedSessions DEF TableSound
  <2> QED
      BY <2>1, <2>2 DEF Plays
<1>6. Plays(w, b) <=> w.ses[s].player
    BY <1>0 DEF Plays, IsListed
<1>7. PlayersExact(n)
  <2>1. \A a \in Accounts : w.players[a] = IF Plays(w, a) THEN 1 ELSE 0
      BY <1>2 DEF PlayersExact
  <2>2. n.players[b] = 0
      BY <1>0, <1>6, <2>1 DEF PlayerGone
  <2>3. \A a \in Accounts : a # b => n.players[a] = w.players[a]
      BY DEF PlayerGone
  <2> QED
      BY <1>5, <2>1, <2>2, <2>3 DEF PlayersExact
<1>8. ASSUME NEW a \in Accounts, a # b, Finds(w, a, achieved[a])
      PROVE  Finds(n, a, achieved[a])
  <2>1. \A i \in DOMAIN n.db : i \notin DOMAIN w.db => ~SavesAccount(n, i, a)
      BY <1>1, <1>8 DEF SavesAccount, SaveTask
  <2> QED
      BY <1>1, <1>8, <2>1, FindsKept
<1>9. Finds(n, b, achieved[b])
  <2>1. CASE w.ses[s].player
    <3>1. w.ses[s].at = achieved[b]
        BY <1>0, <1>2, <1>6, <2>1 DEF ProgressSound, IsListed
    <3> DEFINE last == Len(w.db) + 1
    <3>2. last \in DOMAIN n.db /\ n.db[last] = SaveTask(w, s)
        BY <1>1, <2>1
    <3>3. SavesAccount(n, last, b) /\ n.db[last].at = achieved[b]
        BY <3>1, <3>2 DEF SavesAccount, SaveTask
    <3>4. \A j \in DOMAIN n.db : ~(j > last)
        BY <1>1
    <3> HIDE DEF last
    <3> QED
        BY <3>2, <3>3, <3>4 DEF Finds
  <2>2. CASE ~w.ses[s].player
    <3>1. Finds(w, b, achieved[b])
        BY <1>0, <1>2, <1>6, <2>2 DEF ProgressSound
    <3>2. \A i \in DOMAIN n.db : i \in DOMAIN w.db
        BY <1>1, <2>2
    <3> QED
        BY <1>0, <1>1, <3>1, <3>2, FindsKept
  <2> QED
      BY <2>1, <2>2
<1>10. ProgressSound(n, achieved)
  <2>1. \A a \in Accounts :
            IF Plays(n, a) THEN n.ses[n.sessions[a]].at = achieved[a]
            ELSE Finds(n, a, achieved[a])
      BY <1>2, <1>5, <1>8, <1>9 DEF ProgressSound
  <2>2. \A t \in Sessions : n.ses[t].loaded # <<>> => n.ses[t].loaded = w.ses[t].loaded
      OBVIOUS
  <2> QED
      BY <1>2, <2>1, <2>2 DEF ProgressSound
<1> QED
    BY <1>4, <1>7, <1>10 DEF FullWorld

(* After a log out nothing is read but the first socket.                   *)
LEMMA LogoutFull ==
    ASSUME NEW w \in World, NEW links, NEW achieved, FullWorld(w, links, achieved),
           NEW s \in Sessions, IsListed(w, s), ~w.ses[s].loading,
           NEW n, n = LogoutPlayer(w, s), TableWorld(n)
    PROVE  FullWorld(n, links, achieved) /\ SocketsLess(w, n)
<1>0. TableWorld(w) /\ SocketsSound(w)
    BY DEF FullWorld
<1>1. /\ n \in World
      /\ PlayerGone(w, n, s)
      /\ n.ses[s].life = w.ses[s].life
      /\ n.ses[s].loaded = w.ses[s].loaded
      /\ ~n.ses[s].player
      /\ n.ses[s].realm = w.ses[s].realm
      /\ n.ses[s].instance = 0
      /\ \A t \in Sessions : t # s => n.ses[t] = w.ses[t]
      /\ n.sessions = w.sessions /\ n.saved = w.saved
      /\ SocketsLess(w, n)
      /\ \A k \in InstanceHeld(w, s) : k \in Sockets => ~IsOpen(n, k)
    BY <1>0, ListedPlayer, LogoutFacts
<1>2. SocketsSound(n)
  <2>1. \A k \in Sockets : k[1] = s /\ k[2] # 0 => ~Reads(n, k)
      BY <1>0, <1>1, HeldClosed
  <2>2. Own(w, s)
      BY <1>0, <1>1, SocketsOwn
  <2>3. Own(n, s)
      BY <1>1, <2>1, <2>2 DEF Own, SocketsLess
  <2>4. \A t \in Sessions : t # s => Alike(w.ses[t], n.ses[t])
      BY <1>1 DEF Alike
  <2> QED
      BY <1>0, <1>1, <2>3, <2>4, SocketsKept
<1>3. ~Plays(n, Account[s])
    BY <1>1 DEF Plays, IsListed
<1>4. ASSUME NEW t \in Sessions, t # s, Awaits(w, t, links)
      PROVE  Awaits(n, t, links)
  <2>1. IsListed(n, t)
      BY <1>1, <1>4 DEF Awaits, IsListed
  <2> QED
      BY <1>1, <1>4, <2>1, AwaitsKept DEF SocketsLess
<1>5. ~Awaits(w, s, links)
    BY DEF Awaits
<1> QED
    BY <1>1, <1>2, <1>3, <1>4, <1>5, GoneFull

(* A session is deleted, and another may have its place.                   *)
LEMMA RemovedFull ==
    ASSUME NEW w \in World, NEW links, NEW achieved, FullWorld(w, links, achieved),
           NEW s \in Sessions, IsListed(w, s), NEW x, Successor(w, s, x),
           NEW n, Removed(w, n, s, x), TableWorld(n)
    PROVE  FullWorld(n, links, achieved) /\ SocketsLess(w, n)
<1>0. TableWorld(w) /\ TableSound(w) /\ SocketsSound(w)
    BY DEF FullWorld, TableWorld
<1>1. /\ n \in World
      /\ \A b \in Accounts : n.sessions[b] = IF b = Account[s] THEN x ELSE w.sessions[b]
      /\ PlayerGone(w, n, s)
      /\ Dead(n.ses[s], w.ses[s].keys)
      /\ \A t \in Sessions : t # s => Alike(w.ses[t], n.ses[t])
      /\ n.saved = w.saved
      /\ SocketsLess(w, n)
      /\ \A k \in Held(w, s) : k \in Sockets => ~IsOpen(n, k)
    BY DEF Removed
<1>2. /\ \A t \in Sessions : IsListed(w, t) /\ t # s => IsListed(n, t)
      /\ x # s
    BY <1>0, RemovedListed
<1>3. SocketsSound(n)
  <2>1. \A k \in Sockets : k[1] = s => ~Reads(n, k)
      BY <1>0, <1>1, HeldClosed
  <2>2. Own(n, s)
      BY <1>1, <2>1 DEF Own, Dead, Idle
  <2> QED
      BY <1>0, <1>1, <2>2, SocketsKept
<1>4. ~Plays(n, Account[s])
  <2>1. n.sessions[Account[s]] = x
      BY <1>1, SessionsAssumption
  <2>2. CASE x = None
      BY <2>1, <2>2 DEF Plays
  <2>3. CASE x \in Sessions /\ MayEnter(w, x)
    <3>1. ~w.ses[x].player
        BY <1>0, <2>3 DEF TableSound, MayEnter, Idle
    <3>2. ~n.ses[x].player
        BY <1>1, <1>2, <2>3, <3>1 DEF Alike
    <3> QED
        BY <2>1, <3>2 DEF Plays
  <2> QED
      BY <2>2, <2>3 DEF Successor
<1>5. ASSUME NEW t \in Sessions, t # s, Awaits(w, t, links)
      PROVE  Awaits(n, t, links)
  <2>1. IsListed(n, t)
      BY <1>2, <1>5 DEF Awaits
  <2> QED
      BY <1>1, <1>5, <2>1, AwaitsKept DEF SocketsLess, Alike
<1>6. n.ses[s].loaded = <<>> /\ n.ses[s].life = "deleted"
    BY <1>1 DEF Dead, Idle
<1>7. \A t \in Sessions : t # s =>
        /\ w.ses[t].life = "deleted" => n.ses[t].life = "deleted"
        /\ n.ses[t].loaded = w.ses[t].loaded
        /\ n.ses[t].player = w.ses[t].player
        /\ n.ses[t].at = w.ses[t].at
    BY <1>1 DEF Alike
<1> QED
    BY <1>1, <1>3, <1>4, <1>5, <1>6, <1>7, GoneFull

(* A session is new in the table,                                          *)
LEMMA EnteredFull ==
    ASSUME NEW w \in World, NEW links, NEW achieved, FullWorld(w, links, achieved),
           NEW s \in Sessions, MayEnter(w, s), w.sessions[Account[s]] = None,
           NEW n, Entered(w, n, s), TableWorld(n)
    PROVE  FullWorld(n, links, achieved) /\ SocketsLess(w, n)
<1>0. TableSound(w) /\ SocketsSound(w)
    BY DEF FullWorld, TableWorld
<1>1. /\ n \in World
      /\ \A b \in Accounts : n.sessions[b] = IF b = Account[s] THEN s ELSE w.sessions[b]
      /\ \A t \in Sessions : Alike(w.ses[t], n.ses[t])
      /\ SameData(w, n) /\ n.sock = w.sock
    BY DEF Entered
<1>2. SocketsLess(w, n)
    BY <1>1 DEF SocketsLess, Reads, IsOpen
<1>3. SocketsSound(n)
    BY <1>0, <1>1, <1>2, OwnKept, SocketsOwn
<1>4. ~w.ses[s].player /\ ~n.ses[s].player
    BY <1>0, <1>1 DEF TableSound, MayEnter, Idle, Alike
<1>5. \A a \in Accounts :
        /\ Plays(n, a) <=> Plays(w, a)
        /\ Plays(w, a) => n.ses[n.sessions[a]].at = w.ses[w.sessions[a]].at
  <2> SUFFICES ASSUME NEW a \in Accounts
               PROVE  /\ Plays(n, a) <=> Plays(w, a)
                      /\ Plays(w, a) => n.ses[n.sessions[a]].at = w.ses[w.sessions[a]].at
      OBVIOUS
  <2>1. CASE a = Account[s]
    <3>1. ~Plays(w, a)
        BY <2>1 DEF Plays
    <3>2. ~Plays(n, a)
        BY <1>1, <1>4, <2>1 DEF Plays
    <3> QED
        BY <3>1, <3>2
  <2>2. CASE a # Account[s]
    <3>1. n.sessions[a] = w.sessions[a]
        BY <1>1, <2>2
    <3>2. w.sessions[a] # None => w.sessions[a] \in Sessions
        BY WorldFields
    <3> QED
        BY <1>1, <3>1, <3>2 DEF Plays, Alike
  <2> QED
      BY <2>1, <2>2
<1>6. ASSUME NEW t \in Sessions, Awaits(w, t, links)
      PROVE  Awaits(n, t, links)
  <2>1. IsListed(n, t)
    <3>1. Account[t] \in Accounts /\ w.sessions[Account[t]] = t /\ t # None
        BY <1>6, SessionsAssumption DEF Awaits, IsListed
    <3> QED
        BY <1>1, <3>1 DEF IsListed
  <2> QED
      BY <1>1, <1>2, <1>6, <2>1, AwaitsKept DEF SocketsLess, Alike
<1>7. \A t \in Sessions :
        /\ w.ses[t].life = "deleted" => n.ses[t].life = "deleted"
        /\ n.ses[t].loaded = w.ses[t].loaded
    BY <1>1 DEF Alike
<1> QED
    BY <1>1, <1>2, <1>3, <1>5, <1>6, <1>7, FullKept

(* or turned down.                                                         *)
LEMMA RefusedFull ==
    ASSUME NEW w \in World, NEW links, NEW achieved, FullWorld(w, links, achieved),
           NEW s \in Sessions, MayEnter(w, s), NEW n, Refused(w, n, s), TableWorld(n)
    PROVE  FullWorld(n, links, achieved) /\ SocketsLess(w, n)
<1>0. TableSound(w) /\ SocketsSound(w)
    BY DEF FullWorld, TableWorld
<1>1. /\ n \in World /\ SameTable(w, n) /\ SameData(w, n)
      /\ Dead(n.ses[s], w.ses[s].keys)
      /\ \A t \in Sessions : t # s => n.ses[t] = w.ses[t]
      /\ SocketsLess(w, n)
      /\ \A k \in Held(w, s) : k \in Sockets => ~IsOpen(n, k)
    BY DEF Refused
<1>2. SocketsSound(n)
  <2>1. \A k \in Sockets : k[1] = s => ~Reads(n, k)
      BY <1>0, <1>1, HeldClosed
  <2>2. Own(n, s)
      BY <1>1, <2>1 DEF Own, Dead, Idle
  <2>3. \A t \in Sessions : t # s => Alike(w.ses[t], n.ses[t])
      BY <1>1 DEF Alike
  <2> QED
      BY <1>0, <1>1, <2>2, <2>3, SocketsKept
<1>3. Idle(w.ses[s]) /\ Idle(n.ses[s]) /\ n.ses[s].life = "deleted"
    BY <1>0, <1>1 DEF TableSound, MayEnter, Dead
<1>4. \A t \in Sessions :
        /\ w.ses[t].life = "deleted" => n.ses[t].life = "deleted"
        /\ n.ses[t].player <=> w.ses[t].player
        /\ w.ses[t].player => n.ses[t].at = w.ses[t].at
        /\ n.ses[t].loaded = w.ses[t].loaded
    BY <1>1, <1>3 DEF Idle
<1>5. \A a \in Accounts :
        /\ Plays(n, a) <=> Plays(w, a)
        /\ Plays(w, a) => n.ses[n.sessions[a]].at = w.ses[w.sessions[a]].at
    BY <1>0, <1>1, <1>4, ListedSessions DEF Plays, SameTable
<1>6. ASSUME NEW t \in Sessions, Awaits(w, t, links)
      PROVE  Awaits(n, t, links)
  <2>1. t # s /\ IsListed(n, t)
      BY <1>1, <1>6 DEF Awaits, MayEnter, IsListed, SameTable
  <2> QED
      BY <1>1, <1>6, <2>1, AwaitsKept DEF SocketsLess
<1> QED
    BY <1>1, <1>2, <1>4, <1>5, <1>6, FullKept

(* Who has an answer is alone with it: no player, no query.                *)
LEMMA AnswerAlone ==
    ASSUME NEW w \in World, NEW links, NEW achieved, FullWorld(w, links, achieved),
           NEW s \in Sessions, w.ses[s].loaded # <<>>
    PROVE  /\ IsListed(w, s) /\ w.ses[s].loading /\ ~w.ses[s].player
           /\ ~Plays(w, Account[s])
           /\ Tail(w.ses[s].loaded) = <<>>
           /\ Head(w.ses[s].loaded) = achieved[Account[s]]
           /\ \A i \in DOMAIN w.db : IsQuery(w, i) => w.db[i].of # s
<1>1. QueriesSound(w, links) /\ ProgressSound(w, achieved)
    BY DEF FullWorld
<1>2. Awaits(w, s, links) /\ Len(w.ses[s].loaded) = 1
    BY <1>1 DEF QueriesSound
<1>3. IsListed(w, s) /\ w.ses[s].loading /\ ~w.ses[s].player
    BY <1>2 DEF Awaits
<1>4. ~Plays(w, Account[s])
    BY <1>3 DEF Plays, IsListed
<1>5. w.ses[s].loaded \in Seq(0 .. MaxProgress)
    BY DEF World, SessionState
<1>6. Tail(w.ses[s].loaded) = <<>>
  <2> DEFINE l == w.ses[s].loaded
  <2>1. l \in Seq(0 .. MaxProgress) /\ Len(l) = 1 /\ l # <<>>
      BY <1>2, <1>5
  <2> HIDE DEF l
  <2>2. Tail(l) \in Seq(0 .. MaxProgress) /\ Len(Tail(l)) = 0
      BY <2>1
  <2>3. Tail(l) = <<>>
      BY <2>2, EmptySeq
  <2> QED
      BY <2>3 DEF l
<1>7. Head(w.ses[s].loaded) = achieved[Account[s]]
    BY <1>1, <1>5 DEF ProgressSound
<1>8. \A i \in DOMAIN w.db : IsQuery(w, i) => w.db[i].of # s
    BY <1>1 DEF QueriesSound
<1> QED
    BY <1>3, <1>4, <1>6, <1>7, <1>8

(* It becomes a player,                                                    *)
LEMMA HandleLoginFull ==
    ASSUME NEW w \in World, NEW links, NEW achieved, FullWorld(w, links, achieved),
           NEW s \in Sessions, w.ses[s].loaded # <<>>,
           NEW n, n = HandlePlayerLogin(w, s), TableWorld(n)
    PROVE  FullWorld(n, links, achieved) /\ SocketsLess(w, n)
<1> DEFINE b == Account[s]
<1>0. /\ TableSound(w) /\ SocketsSound(w) /\ b \in Accounts /\ s # None
      /\ QueriesSound(w, links) /\ PlayersExact(w) /\ ProgressSound(w, achieved)
    BY SessionsAssumption DEF FullWorld, TableWorld
<1>1. /\ Touches(w, n, s) /\ n.sock = w.sock /\ n.db = w.db
      /\ \A c \in Accounts :
            n.players[c] = IF c = b THEN w.players[c] + 1 ELSE w.players[c]
      /\ n.ses[s].keys = w.ses[s].keys
      /\ n.ses[s].loaded = Tail(w.ses[s].loaded)
      /\ n.ses[s].player /\ n.ses[s].at = Head(w.ses[s].loaded)
      /\ n.ses[s].realm = w.ses[s].realm
      /\ n.ses[s].instance = w.ses[s].instance
    BY HandleLoginFacts
<1>2. /\ IsListed(w, s) /\ ~w.ses[s].player
      /\ ~Plays(w, b)
      /\ Tail(w.ses[s].loaded) = <<>>
      /\ Head(w.ses[s].loaded) = achieved[b]
      /\ \A i \in DOMAIN w.db : IsQuery(w, i) => w.db[i].of # s
    BY AnswerAlone
<1>3. /\ n \in World /\ n.sessions = w.sessions /\ n.saved = w.saved
      /\ \A t \in Sessions : t # s => n.ses[t] = w.ses[t]
      /\ n.ses[s].life = w.ses[s].life
    BY <1>1 DEF Touches, SameTable
<1>4. SocketsLess(w, n)
    BY <1>1 DEF SocketsLess, Reads, IsOpen
<1>5. SocketsSound(n)
  <2>1. Own(n, s)
    <3>1. Own(w, s)
        BY <1>0, <1>4, SocketsOwn
    <3> QED
        BY <1>1, <1>3, <1>4, <3>1 DEF Own, SocketsLess
  <2>2. \A t \in Sessions : t # s => Alike(w.ses[t], n.ses[t])
      BY <1>3 DEF Alike
  <2> QED
      BY <1>0, <1>4, <2>1, <2>2, SocketsKept
<1>6. ASSUME NEW t \in Sessions, t # s, Awaits(w, t, links)
      PROVE  Awaits(n, t, links)
  <2>1. IsListed(n, t)
      BY <1>3, <1>6 DEF Awaits, IsListed
  <2> QED
      BY <1>3, <1>4, <1>6, <2>1, AwaitsKept DEF SocketsLess
<1>7. \A i \in DOMAIN n.db : IsQuery(n, i) <=> IsQuery(w, i)
  <2>1. \A i \in DOMAIN w.db : w.db[i].of \in Sessions
      BY QueuesFields
  <2> QED
      BY <1>1, <1>3, <2>1 DEF IsQuery
<1>8. QueriesSound(n, links)
  <2>1. \A t \in Sessions :
            \/ /\ n.ses[t].loaded = w.ses[t].loaded
               /\ Awaits(w, t, links) => Awaits(n, t, links)
            \/ /\ n.ses[t].loaded = <<>>
               /\ \A i \in DOMAIN n.db : IsQuery(n, i) => n.db[i].of # t
      BY <1>1, <1>2, <1>3, <1>6, <1>7
  <2>2. \A t \in Sessions : w.ses[t].life = "deleted" => n.ses[t].life = "deleted"
      BY <1>3
  <2> QED
      BY <1>0, <1>1, <1>3, <2>1, <2>2, QueriesKept
<1>9. \A a \in Accounts : a # b =>
        /\ Plays(n, a) <=> Plays(w, a)
        /\ Plays(w, a) => n.ses[n.sessions[a]].at = w.ses[w.sessions[a]].at
  <2>1. \A a \in Accounts : a # b /\ w.sessions[a] # None =>
            w.sessions[a] \in Sessions /\ w.sessions[a] # s
      BY <1>0, ListedSessions DEF TableSound
  <2> QED
      BY <1>3, <2>1 DEF Plays
<1>10. Plays(n, b) /\ n.sessions[b] = s
    BY <1>0, <1>1, <1>2, <1>3 DEF Plays, IsListed
<1>11. PlayersExact(n)
    BY <1>0, <1>1, <1>2, <1>9, <1>10 DEF PlayersExact
<1>12. \A a \in Accounts : Finds(w, a, achieved[a]) => Finds(n, a, achieved[a])
    BY <1>1, <1>3 DEF Finds, SavesAccount
<1>13. ProgressSound(n, achieved)
  <2>1. \A a \in Accounts :
            IF Plays(n, a) THEN n.ses[n.sessions[a]].at = achieved[a]
            ELSE Finds(n, a, achieved[a])
      BY <1>0, <1>1, <1>2, <1>9, <1>10, <1>12 DEF ProgressSound
  <2>2. \A t \in Sessions : n.ses[t].loaded # <<>> => n.ses[t].loaded = w.ses[t].loaded
      BY <1>1, <1>2, <1>3
  <2> QED
      BY <1>0, <2>1, <2>2 DEF ProgressSound
<1> QED
    BY <1>4, <1>5, <1>8, <1>11, <1>13 DEF FullWorld

(* or is the end of the login.                                             *)
LEMMA LoginFailedFull ==
    ASSUME NEW w \in World, NEW links, NEW achieved, FullWorld(w, links, achieved),
           NEW s \in Sessions, w.ses[s].loaded # <<>>,
           NEW n, n = HandlePlayerLoginFailed(w, s), TableWorld(n)
    PROVE  FullWorld(n, links, achieved) /\ SocketsLess(w, n)
<1>0. TableSound(w) /\ SocketsSound(w)
    BY DEF FullWorld, TableWorld
<1>1. /\ Touches(w, n, s) /\ SameData(w, n) /\ SocketsLess(w, n)
      /\ \A k \in Held(w, s) : k \in Sockets => ~IsOpen(n, k)
      /\ n.ses[s].loaded = Tail(w.ses[s].loaded)
      /\ ~n.ses[s].player /\ n.ses[s].at = w.ses[s].at
      /\ n.ses[s].realm = w.ses[s].realm
      /\ n.ses[s].instance = w.ses[s].instance
    BY LoginFailedFacts
<1>2. /\ ~w.ses[s].player
      /\ Tail(w.ses[s].loaded) = <<>>
      /\ \A i \in DOMAIN w.db : IsQuery(w, i) => w.db[i].of # s
    BY AnswerAlone
<1>3. /\ n \in World /\ n.sessions = w.sessions /\ n.db = w.db
      /\ \A t \in Sessions : t # s => n.ses[t] = w.ses[t]
      /\ n.ses[s].life = w.ses[s].life
    BY <1>1 DEF Touches, SameTable, SameData
<1>4. SocketsSound(n)
  <2>1. \A k \in Sockets : k[1] = s => ~Reads(n, k)
      BY <1>0, <1>1, HeldClosed
  <2>2. Own(w, s)
      BY <1>0, <1>1, SocketsOwn
  <2>3. Own(n, s)
      BY <1>1, <1>3, <2>1, <2>2 DEF Own
  <2>4. \A t \in Sessions : t # s => Alike(w.ses[t], n.ses[t])
      BY <1>3 DEF Alike
  <2> QED
      BY <1>0, <1>1, <2>3, <2>4, SocketsKept
<1>5. ASSUME NEW t \in Sessions, t # s, Awaits(w, t, links)
      PROVE  Awaits(n, t, links)
  <2>1. IsListed(n, t)
      BY <1>3, <1>5 DEF Awaits, IsListed
  <2> QED
      BY <1>1, <1>3, <1>5, <2>1, AwaitsKept DEF SocketsLess
<1>6. \A i \in DOMAIN n.db : IsQuery(n, i) <=> IsQuery(w, i)
  <2>1. \A i \in DOMAIN w.db : w.db[i].of \in Sessions
      BY QueuesFields
  <2> QED
      BY <1>3, <2>1 DEF IsQuery
<1>7. \A t \in Sessions :
        \/ /\ n.ses[t].loaded = w.ses[t].loaded
           /\ Awaits(w, t, links) => Awaits(n, t, links)
        \/ /\ n.ses[t].loaded = <<>>
           /\ \A i \in DOMAIN n.db : IsQuery(n, i) => n.db[i].of # t
    BY <1>1, <1>2, <1>3, <1>5, <1>6
<1>8. \A a \in Accounts :
        /\ Plays(n, a) <=> Plays(w, a)
        /\ Plays(w, a) => n.ses[n.sessions[a]].at = w.ses[w.sessions[a]].at
    BY <1>0, <1>1, <1>2, <1>3, ListedSessions DEF Plays
<1>9. \A t \in Sessions : w.ses[t].life = "deleted" => n.ses[t].life = "deleted"
    BY <1>3
<1> QED
    BY <1>1, <1>3, <1>4, <1>7, <1>8, <1>9, FullKept

(* The character is saved, and played on.                                  *)
LEMMA SavedFull ==
    ASSUME NEW w \in World, NEW links, NEW achieved, FullWorld(w, links, achieved),
           NEW s \in Sessions, IsListed(w, s), w.ses[s].player,
           NEW n, n = Posted(w, SaveTask(w, s)), TableWorld(n)
    PROVE  FullWorld(n, links, achieved) /\ SocketsLess(w, n)
<1> DEFINE b == Account[s]
<1>0. /\ TableWorld(w) /\ SocketsSound(w) /\ b \in Accounts /\ s # None
      /\ QueriesSound(w, links) /\ PlayersExact(w) /\ ProgressSound(w, achieved)
    BY SessionsAssumption DEF FullWorld
<1>1. /\ SaveTask(w, s) \in Task /\ SaveTask(w, s).of = s
    BY SaveTaskType DEF SaveTask
<1>2. /\ Touches(w, n, s)
      /\ n.ses = w.ses /\ n.sock = w.sock /\ n.players = w.players
      /\ DOMAIN w.db = 1 .. Len(w.db) /\ Len(w.db) \in Nat
      /\ DOMAIN n.db = 1 .. Len(w.db) + 1
      /\ \A i \in DOMAIN w.db : n.db[i] = w.db[i]
      /\ n.db[Len(w.db) + 1] = SaveTask(w, s)
    BY <1>1, PostedTouches
<1>3. n \in World /\ n.sessions = w.sessions /\ n.saved = w.saved
    BY <1>2 DEF Touches, SameTable
<1>4. \A i \in DOMAIN n.db :
        \/ i \in DOMAIN w.db /\ n.db[i] = w.db[i]
        \/ n.db[i] = SaveTask(w, s)
    BY <1>2
<1>5. SocketsLess(w, n)
    BY <1>2 DEF SocketsLess, Reads, IsOpen
<1>6. SocketsSound(n)
    BY <1>0, <1>2 DEF SocketsSound, Reads, IsOpen
<1>7. QueriesSound(n, links)
  <2>1. /\ \A i \in DOMAIN n.db : IsQuery(n, i) =>
                i \in DOMAIN w.db /\ n.db[i] = w.db[i]
        /\ \A i, j \in DOMAIN n.db :
                IsQuery(n, i) /\ SavesAccount(n, j, Account[n.db[i].of]) =>
                    j \in DOMAIN w.db /\ n.db[j] = w.db[j]
      BY <1>0, <1>2, <1>3, <1>4, SavedQueries
  <2>2. \A t \in Sessions : Awaits(w, t, links) => Awaits(n, t, links)
      BY <1>2, <1>3 DEF Awaits, IsListed
  <2> QED
      BY <1>0, <1>2, <1>3, <2>1, <2>2, QueriesKept
<1>8. \A a \in Accounts : Plays(n, a) <=> Plays(w, a)
    BY <1>2, <1>3 DEF Plays
<1>9. PlayersExact(n)
    BY <1>0, <1>2, <1>8 DEF PlayersExact
<1>10. ProgressSound(n, achieved)
  <2>1. Plays(w, b)
      BY <1>0 DEF Plays, IsListed
  <2>2. ASSUME NEW a \in Accounts, a # b, Finds(w, a, achieved[a])
        PROVE  Finds(n, a, achieved[a])
    <3>1. \A i \in DOMAIN n.db : i \notin DOMAIN w.db => ~SavesAccount(n, i, a)
        BY <1>1, <1>4, <2>2 DEF SavesAccount
    <3>2. DOMAIN w.db \subseteq DOMAIN n.db
        BY <1>2
    <3> QED
        BY <1>2, <1>3, <2>2, <3>1, <3>2, FindsKept
  <2> QED
      BY <1>0, <1>2, <1>3, <1>8, <2>1, <2>2 DEF ProgressSound
<1> QED
    BY <1>5, <1>6, <1>7, <1>9, <1>10 DEF FullWorld

(* The only login query of a session that has no answer yet.               *)
LEMMA AskedFull ==
    ASSUME NEW w \in World, NEW links, NEW achieved, FullWorld(w, links, achieved),
           NEW s \in Sessions, Awaits(w, s, links), w.ses[s].loaded = <<>>,
           \A i \in DOMAIN w.db : IsQuery(w, i) => w.db[i].of # s,
           NEW n, n = Posted(w, QueryTask(s)), TableWorld(n)
    PROVE  FullWorld(n, links, achieved) /\ SocketsLess(w, n)
<1>0. /\ SocketsSound(w)
      /\ QueriesSound(w, links) /\ PlayersExact(w) /\ ProgressSound(w, achieved)
    BY DEF FullWorld
<1>1. QueryTask(s) \in Task /\ QueryTask(s).of = s /\ ~QueryTask(s).save
    BY QueryTaskType DEF QueryTask
<1> DEFINE last == Len(w.db) + 1
<1>2. /\ Touches(w, n, s)
      /\ n.ses = w.ses /\ n.sock = w.sock /\ n.players = w.players
      /\ DOMAIN w.db = 1 .. Len(w.db) /\ Len(w.db) \in Nat
      /\ DOMAIN n.db = 1 .. last
      /\ \A i \in DOMAIN w.db : n.db[i] = w.db[i]
      /\ n.db[last] = QueryTask(s)
    BY <1>1, PostedTouches
<1>3. n \in World /\ n.sessions = w.sessions /\ n.saved = w.saved
    BY <1>2 DEF Touches, SameTable
<1>4. /\ DOMAIN w.db \subseteq DOMAIN n.db
      /\ \A i \in DOMAIN n.db : i \in DOMAIN w.db \/ i = last
      /\ \A i \in DOMAIN w.db : i < last
      /\ \A i, j \in DOMAIN n.db : i = last => ~(j > i)
    BY <1>2
<1> HIDE DEF last
<1>5. SocketsLess(w, n)
    BY <1>2 DEF SocketsLess, Reads, IsOpen
<1>6. SocketsSound(n)
    BY <1>0, <1>2 DEF SocketsSound, Reads, IsOpen
<1>7. \A t \in Sessions : Awaits(w, t, links) => Awaits(n, t, links)
    BY <1>2, <1>3 DEF Awaits, IsListed
<1>8. \A i \in DOMAIN w.db : IsQuery(n, i) <=> IsQuery(w, i)
    BY <1>2 DEF IsQuery
<1>9. \A i \in DOMAIN n.db, a \in Accounts :
        SavesAccount(n, i, a) => i \in DOMAIN w.db /\ SavesAccount(w, i, a)
    BY <1>1, <1>2, <1>4 DEF SavesAccount
<1>10. QueriesSound(n, links)
  <2>1. ASSUME NEW i \in DOMAIN n.db, IsQuery(n, i)
        PROVE  Awaits(n, n.db[i].of, links) /\ n.ses[n.db[i].of].loaded = <<>>
    <3>1. CASE i = last
        BY <1>1, <1>2, <1>7, <3>1
    <3>2. CASE i \in DOMAIN w.db
      <4>1. IsQuery(w, i) /\ n.db[i] = w.db[i] /\ w.db[i].of \in Sessions
          BY <1>2, <1>8, <2>1, <3>2, QueuesFields
      <4> QED
          BY <1>0, <1>2, <1>7, <3>2, <4>1 DEF QueriesSound
    <3> QED
        BY <1>4, <3>1, <3>2
  <2>2. ASSUME NEW i \in DOMAIN n.db, IsQuery(n, i), NEW j \in DOMAIN n.db, j > i
        PROVE  /\ ~SavesAccount(n, j, Account[n.db[i].of])
               /\ ~(IsQuery(n, j) /\ n.db[j].of = n.db[i].of)
    <3>1. i \in DOMAIN w.db
        BY <1>4, <2>2
    <3>2. IsQuery(w, i) /\ n.db[i] = w.db[i] /\ Account[w.db[i].of] \in Accounts
        BY <1>2, <1>8, <2>2, <3>1, QueuesFields
    <3>3. ~SavesAccount(n, j, Account[n.db[i].of])
        BY <1>0, <1>9, <2>2, <3>1, <3>2 DEF QueriesSound
    <3>4. CASE j = last
        BY <1>1, <1>2, <3>1, <3>2, <3>3, <3>4
    <3>5. CASE j \in DOMAIN w.db
        BY <1>0, <1>2, <1>8, <2>2, <3>1, <3>2, <3>3, <3>5 DEF QueriesSound
    <3> QED
        BY <1>4, <3>4, <3>5
  <2>3. \A t \in Sessions : n.ses[t].loaded # <<>> =>
            Awaits(n, t, links) /\ Len(n.ses[t].loaded) = 1
      BY <1>0, <1>2, <1>7 DEF QueriesSound
  <2> QED
      BY <2>1, <2>2, <2>3 DEF QueriesSound
<1>11. \A a \in Accounts : Plays(n, a) <=> Plays(w, a)
    BY <1>2, <1>3 DEF Plays
<1>12. PlayersExact(n)
    BY <1>0, <1>2, <1>11 DEF PlayersExact
<1>13. ProgressSound(n, achieved)
  <2>1. \A a \in Accounts : Finds(w, a, achieved[a]) => Finds(n, a, achieved[a])
      BY <1>2, <1>3, <1>4, <1>9, FindsKept
  <2> QED
      BY <1>0, <1>2, <1>3, <1>11, <2>1 DEF ProgressSound
<1> QED
    BY <1>5, <1>6, <1>10, <1>12, <1>13 DEF FullWorld

(* A connection joins its session, whose login goes on or is over.         *)
LEMMA ConnectionFull ==
    ASSUME NEW w \in World, NEW links, NEW achieved, FullWorld(w, links, achieved),
           NEW k \in Sockets, k \in links, IsListed(w, k[1]),
           k[2] # 0, k[2] = w.ses[k[1]].keys,
           w.sock[k].state # "none", ~w.sock[k].session,
           NEW new, new \subseteq links, k \notin new,
           NEW n, n = HandleContinuePlayerLogin(Joined(w, k), k[1]), TableWorld(n)
    PROVE  /\ FullWorld(n, new, achieved)
           /\ \A c \in Sockets : c # k =>
                /\ w.sock[c].state # "none" => n.sock[c].state # "none"
                /\ n.sock[c].session => w.sock[c].session
<1> DEFINE s == k[1]
           m == Joined(w, k)
<1>0. /\ s \in Sessions /\ k = <<s, k[2]>>
      /\ SocketsSound(w) /\ TableWorld(w) /\ TableSound(w) /\ QueriesSound(w, links)
    BY DEF Sockets, FullWorld, TableWorld
<1>1. /\ Touches(w, m, s) /\ SameData(w, m)
      /\ \A c \in Sockets : m.sock[c].state = w.sock[c].state
      /\ \A c \in Sockets : c # k => m.sock[c] = w.sock[c]
      /\ m.ses[s].keys = w.ses[s].keys
      /\ m.ses[s].loading = w.ses[s].loading
      /\ m.ses[s].loaded = w.ses[s].loaded
      /\ m.ses[s].player = w.ses[s].player /\ m.ses[s].at = w.ses[s].at
      /\ m.ses[s].realm = w.ses[s].realm
      /\ m.ses[s].instance = k[2]
    BY JoinedFacts
<1> HIDE DEF m
<1>2. /\ m \in World /\ m.sessions = w.sessions
      /\ \A t \in Sessions : t # s => m.ses[t] = w.ses[t]
      /\ m.ses[s].life = w.ses[s].life
    BY <1>1 DEF Touches, SameTable
<1>3. w.ses[s].life = "known"
    BY <1>0, SessionsAssumption DEF TableSound, IsListed
<1>4. ~Awaits(w, s, links)
    BY <1>0 DEF Awaits
<1>5. /\ w.ses[s].loaded = <<>>
      /\ \A i \in DOMAIN w.db : IsQuery(w, i) => w.db[i].of # s
    BY <1>0, <1>4 DEF QueriesSound
<1>6. \A c \in Sockets : c # k /\ Reads(m, c) => Reads(w, c)
    BY <1>1 DEF Reads, IsOpen
<1>7. \A c \in Sockets : c # k /\ c[1] = s /\ Reads(w, c) => c[2] = 0 /\ w.ses[s].realm
  <2>1. Own(w, s)
      BY <1>0, SocketsOwn DEF SocketsLess
  <2>2. \A c \in Sockets : c = <<c[1], c[2]>>
      BY DEF Sockets
  <2> QED
      BY <1>0, <2>1, <2>2 DEF Own
<1>8. ASSUME NEW v \in World, TableWorld(v), SameTable(m, v), SameData(m, v),
             \A t \in Sessions : SameSession(m.ses[t], v.ses[t]),
             SocketsLess(m, v),
             Reads(v, k) => w.ses[s].loading \/ w.ses[s].player
      PROVE  FullWorld(v, new, achieved)
  <2>1. /\ \A c \in Sockets : v.sock[c].state = "none" <=> w.sock[c].state = "none"
        /\ \A c \in Sockets : Reads(v, c) => c = k \/ Reads(w, c)
        /\ \A c \in Sockets : c # k /\ v.sock[c].session => w.sock[c].session
      BY <1>1, <1>6, <1>8 DEF SocketsLess
  <2>2. \A t \in Sessions : t # s => SameSession(w.ses[t], v.ses[t])
      BY <1>2, <1>8
  <2>3. SameSession(m.ses[s], v.ses[s])
      BY <1>0, <1>8
  <2>4. SocketsSound(v)
    <3>1. \A t \in Sessions :
            v.ses[t].realm \/ v.ses[t].instance # 0 => v.ses[t].life \in {"new", "known"}
        BY <1>0, <1>2, <1>3, <2>2, <2>3 DEF SocketsSound, SameSession
    <3>2. \A c \in Sockets : v.sock[c].state = "none" => ~v.sock[c].session
        BY <1>0, <2>1 DEF SocketsSound
    <3>3. ASSUME NEW c \in Sockets, Reads(v, c)
          PROVE  /\ c[2] = 0 => v.ses[c[1]].realm
                 /\ c[2] # 0 =>
                    /\ v.ses[c[1]].instance = c[2]
                    /\ v.ses[c[1]].keys = c[2]
                    /\ v.ses[c[1]].loading \/ v.ses[c[1]].player
      <4>1. CASE c = k
          BY <1>1, <1>8, <2>3, <3>3, <4>1 DEF SameSession
      <4>2. CASE c # k /\ c[1] = s
          BY <1>1, <1>7, <2>1, <2>3, <3>3, <4>2 DEF SameSession
      <4>3. CASE c # k /\ c[1] # s
        <5>1. Reads(w, c) /\ c[1] \in Sessions
            BY <2>1, <3>3, <4>3 DEF Sockets
        <5>2. SameSession(w.ses[c[1]], v.ses[c[1]])
            BY <2>2, <4>3, <5>1
        <5> QED
            BY <1>0, <5>1, <5>2 DEF SocketsSound, SameSession
      <4> QED
          BY <4>1, <4>2, <4>3
    <3> QED
        BY <3>1, <3>2, <3>3 DEF SocketsSound
  <2>5. v.sessions = w.sessions /\ SameData(w, v)
      BY <1>1, <1>2, <1>8 DEF SameTable, SameData
  <2>6. ASSUME NEW t \in Sessions, Awaits(w, t, links)
        PROVE  Awaits(v, t, new)
    <3>1. t # s /\ IsListed(v, t)
        BY <1>4, <2>5, <2>6 DEF Awaits, IsListed
    <3> QED
        BY <2>1, <2>2, <2>6, <3>1, AwaitsKept DEF SameSession
  <2>7. \A t \in Sessions :
            /\ w.ses[t].life = "deleted" => v.ses[t].life = "deleted"
            /\ v.ses[t].player = w.ses[t].player
            /\ w.ses[t].player => v.ses[t].at = w.ses[t].at
            /\ v.ses[t].loaded = w.ses[t].loaded
      BY <1>1, <1>2, <2>2, <2>3 DEF SameSession
  <2> QED
      BY <1>8, <2>4, <2>5, <2>6, <2>7, FullStep
<1>9. CASE n = KickPlayer(m, s)
  <2>1. Quiet(m, n) /\ n \in World
      BY <1>2, <1>9, KickQuiet
  <2>2. ~Reads(n, k)
    <3>1. k \in Held(m, s)
        BY <1>0, <1>1 DEF Held, InstanceHeld
    <3>2. n = Close(m, Held(m, s))
        BY <1>9 DEF KickPlayer
    <3> HIDE DEF s
    <3> QED
        BY <1>2, <3>1, <3>2, CloseFacts DEF Reads
  <2>3. FullWorld(n, new, achieved)
      BY <1>8, <2>1, <2>2 DEF Quiet
  <2> QED
      BY <1>1, <2>1, <2>3 DEF Quiet, SocketsLess
<1>10. CASE /\ w.ses[s].loading /\ ~w.ses[s].player
            /\ n = [m EXCEPT !.db = Append(@, QueryTask(s))]
  <2>1. TableWorld(m)
      BY <1>0, <1>1, TouchesQuietTable
  <2>2. /\ SameTable(m, m) /\ SameData(m, m) /\ SocketsLess(m, m)
        /\ \A t \in Sessions : SameSession(m.ses[t], m.ses[t])
      BY DEF SameTable, SameData, SocketsLess, SameSession
  <2>3. FullWorld(m, new, achieved)
      BY <1>2, <1>8, <1>10, <2>1, <2>2
  <2>4. Awaits(m, s, new)
    <3>1. IsListed(m, s)
        BY <1>2 DEF IsListed
    <3>2. <<s, m.ses[s].keys>> = k
        BY <1>0, <1>1
    <3> QED
        BY <1>1, <1>10, <3>1, <3>2 DEF Awaits
  <2>5. \A i \in DOMAIN m.db : IsQuery(m, i) => m.db[i].of # s
    <3>1. m.db = w.db
        BY <1>1 DEF SameData
    <3>2. \A i \in DOMAIN w.db : w.db[i].of \in Sessions
        BY QueuesFields
    <3> QED
        BY <1>2, <1>5, <3>1, <3>2 DEF IsQuery
  <2>6. n = Posted(m, QueryTask(s))
      BY <1>0, <1>2, <1>10, QueryTaskType
  <2> HIDE DEF s
  <2>7. FullWorld(n, new, achieved) /\ SocketsLess(m, n)
      BY <1>0, <1>1, <1>2, <1>5, <2>3, <2>4, <2>5, <2>6, AskedFull
  <2> QED
      BY <1>1, <2>7 DEF SocketsLess
<1>11. \/ n = KickPlayer(m, s)
       \/ /\ w.ses[s].loading /\ ~w.ses[s].player
          /\ n = [m EXCEPT !.db = Append(@, QueryTask(s))]
  <2>1. n = HandleContinuePlayerLogin(m, s)
      BY DEF m
  <2> QED
      BY <1>1, <2>1 DEF HandleContinuePlayerLogin, QueryTask
<1> QED
    BY <1>9, <1>10, <1>11

(* The first task of the database is done: a save is found by later        *)
(* queries, and a query finds all that was saved.                          *)
LEMMA ExecutedFull ==
    ASSUME NEW w \in World, NEW links, NEW achieved, FullWorld(w, links, achieved),
           w.db # <<>>, NEW n, Executed(w, n), TableWorld(n)
    PROVE  FullWorld(n, links, achieved) /\ SocketsLess(w, n)
<1> DEFINE task == w.db[1]
           s == task.of
           b == Account[s]
           m == [w EXCEPT !.db = Tail(w.db)]
           answered == ~task.save /\ w.ses[s].life = "known"
<1>0. /\ SocketsSound(w) /\ QueriesSound(w, links) /\ PlayersExact(w)
      /\ ProgressSound(w, achieved)
    BY DEF FullWorld
<1>1. /\ DOMAIN w.db = 1 .. Len(w.db) /\ Len(w.db) \in Nat /\ Len(w.db) > 0
      /\ DOMAIN n.db = 1 .. Len(w.db) - 1
      /\ \A i \in DOMAIN n.db : i + 1 \in DOMAIN w.db /\ n.db[i] = w.db[i + 1]
      /\ 1 \in DOMAIN w.db
    BY ExecutedTasks
<1>2. s \in Sessions /\ b \in Accounts /\ task.save \in BOOLEAN
    BY <1>1, QueuesFields
<1>3. m.ses = w.ses
    BY DEF World
<1>4. /\ n \in World /\ n.sessions = w.sessions /\ n.players = w.players
      /\ n.sock = w.sock
      /\ \A t \in Sessions : t # s \/ ~answered => n.ses[t] = w.ses[t]
      /\ \A a \in Accounts :
            n.saved[a] = IF task.save /\ a = b THEN task.at ELSE w.saved[a]
      /\ answered =>
            /\ n.ses[s].life = w.ses[s].life
            /\ n.ses[s].keys = w.ses[s].keys
            /\ n.ses[s].loading = w.ses[s].loading
            /\ n.ses[s].loaded = Append(w.ses[s].loaded, w.saved[b])
            /\ n.ses[s].player = w.ses[s].player /\ n.ses[s].at = w.ses[s].at
            /\ n.ses[s].realm = w.ses[s].realm
            /\ n.ses[s].instance = w.ses[s].instance
    BY <1>2, <1>3 DEF Executed, SameTable, Touches
<1>5. \A t \in Sessions :
        /\ n.ses[t].life = w.ses[t].life
        /\ n.ses[t].keys = w.ses[t].keys
        /\ n.ses[t].loading = w.ses[t].loading
        /\ n.ses[t].player = w.ses[t].player /\ n.ses[t].at = w.ses[t].at
        /\ n.ses[t].realm = w.ses[t].realm
        /\ n.ses[t].instance = w.ses[t].instance
    BY <1>4
<1>6. \A t \in Sessions : ~(t = s /\ answered) => n.ses[t].loaded = w.ses[t].loaded
  <2> HIDE DEF s, b, answered
  <2> QED
      BY <1>4
<1>7. answered => IsQuery(w, 1)
    BY DEF IsQuery
<1> HIDE DEF task, m
<1>8. SocketsLess(w, n)
    BY <1>4 DEF SocketsLess, Reads, IsOpen
<1>9. SocketsSound(n)
  <2>1. \A k \in Sockets : k[1] \in Sessions
      BY DEF Sockets
  <2> QED
      BY <1>0, <1>4, <1>5, <2>1 DEF SocketsSound, Reads, IsOpen
<1>10. \A t \in Sessions : Awaits(w, t, links) => Awaits(n, t, links)
    BY <1>4, <1>5 DEF Awaits, IsListed
<1>11. \A i \in DOMAIN n.db : IsQuery(n, i) <=> IsQuery(w, i + 1)
  <2>1. \A i \in DOMAIN n.db : n.db[i].of \in Sessions
      BY <1>4, QueuesFields
  <2> QED
      BY <1>1, <1>5, <2>1 DEF IsQuery
<1>12. \A i \in DOMAIN n.db, a \in Accounts :
        SavesAccount(n, i, a) <=> SavesAccount(w, i + 1, a)
    BY <1>1 DEF SavesAccount
<1>13. answered =>
        /\ Awaits(w, s, links) /\ w.ses[s].loaded = <<>>
        /\ \A j \in DOMAIN w.db : j > 1 =>
            /\ ~SavesAccount(w, j, b)
            /\ ~(IsQuery(w, j) /\ w.db[j].of = s)
    BY <1>0, <1>1, <1>7 DEF QueriesSound, task
<1>14. \A i \in DOMAIN n.db : i + 1 > 1
    BY <1>1
<1>15. QueriesSound(n, links)
  <2>1. ASSUME NEW i \in DOMAIN n.db, IsQuery(n, i)
        PROVE  Awaits(n, n.db[i].of, links) /\ n.ses[n.db[i].of].loaded = <<>>
    <3>1. /\ i + 1 \in DOMAIN w.db /\ n.db[i] = w.db[i + 1] /\ IsQuery(w, i + 1)
          /\ n.db[i].of \in Sessions
        BY <1>1, <1>4, <1>11, <2>1, QueuesFields
    <3>2. Awaits(w, n.db[i].of, links) /\ w.ses[n.db[i].of].loaded = <<>>
        BY <1>0, <3>1 DEF QueriesSound
    <3>3. ~(n.db[i].of = s /\ answered)
        BY <1>13, <1>14, <3>1
    <3> QED
        BY <1>6, <1>10, <3>1, <3>2, <3>3
  <2>2. ASSUME NEW i \in DOMAIN n.db, IsQuery(n, i), NEW j \in DOMAIN n.db, j > i
        PROVE  /\ ~SavesAccount(n, j, Account[n.db[i].of])
               /\ ~(IsQuery(n, j) /\ n.db[j].of = n.db[i].of)
    <3>1. /\ i + 1 \in DOMAIN w.db /\ n.db[i] = w.db[i + 1] /\ IsQuery(w, i + 1)
          /\ Account[n.db[i].of] \in Accounts
        BY <1>1, <1>4, <1>11, <2>2, QueuesFields
    <3>2. j + 1 \in DOMAIN w.db /\ n.db[j] = w.db[j + 1] /\ j + 1 > i + 1
        BY <1>1, <2>2
    <3>3. /\ ~SavesAccount(w, j + 1, Account[w.db[i + 1].of])
          /\ ~(IsQuery(w, j + 1) /\ w.db[j + 1].of = w.db[i + 1].of)
        BY <1>0, <3>1, <3>2 DEF QueriesSound
    <3> QED
        BY <1>11, <1>12, <3>1, <3>2, <3>3
  <2>3. ASSUME NEW t \in Sessions, n.ses[t].loaded # <<>>
        PROVE  Awaits(n, t, links) /\ Len(n.ses[t].loaded) = 1
    <3>1. CASE n.ses[t].loaded = w.ses[t].loaded
        BY <1>0, <1>10, <2>3, <3>1 DEF QueriesSound
    <3>2. CASE t = s /\ answered
      <4>1. n.ses[t].loaded = Append(<<>>, w.saved[b])
          BY <1>4, <1>13, <3>2
      <4> HIDE DEF s, b, answered
      <4>2. Len(n.ses[t].loaded) = 1
          BY <4>1
      <4> QED
          BY <1>10, <1>13, <3>2, <4>2
    <3> QED
        BY <1>6, <3>1, <3>2
  <2> QED
      BY <2>1, <2>2, <2>3 DEF QueriesSound
<1>16. \A a \in Accounts : w.sessions[a] # None => w.sessions[a] \in Sessions
    BY WorldFields
<1>17. \A a \in Accounts : Plays(n, a) <=> Plays(w, a)
    BY <1>4, <1>5, <1>16 DEF Plays
<1>18. PlayersExact(n)
    BY <1>0, <1>4, <1>17 DEF PlayersExact
<1>19. ASSUME NEW a \in Accounts, NEW v, Finds(w, a, v)
       PROVE  Finds(n, a, v)
  <2>1. SavesAccount(w, 1, a) <=> task.save /\ a = b
      BY DEF SavesAccount, task
  <2>2. CASE w.saved[a] = v /\ \A i \in DOMAIN w.db : ~SavesAccount(w, i, a)
    <3>1. n.saved[a] = v
        BY <1>1, <1>4, <2>1, <2>2
    <3>2. \A i \in DOMAIN n.db : ~SavesAccount(n, i, a)
        BY <1>1, <1>12, <2>2
    <3> QED
        BY <3>1, <3>2 DEF Finds
  <2>3. ASSUME NEW i \in DOMAIN w.db, SavesAccount(w, i, a), w.db[i].at = v,
               \A j \in DOMAIN w.db : j > i => ~SavesAccount(w, j, a)
        PROVE  Finds(n, a, v)
    <3>1. CASE i = 1
      <4>1. n.saved[a] = v
          BY <1>4, <2>1, <2>3, <3>1 DEF task
      <4>2. \A j \in DOMAIN n.db : ~SavesAccount(n, j, a)
          BY <1>1, <1>12, <1>14, <2>3, <3>1
      <4> QED
          BY <4>1, <4>2 DEF Finds
    <3>2. CASE i # 1
      <4> DEFINE p == i - 1
      <4>1. p \in DOMAIN n.db /\ p + 1 = i
          BY <1>1, <3>2
      <4>2. SavesAccount(n, p, a) /\ n.db[p].at = v
          BY <1>1, <1>12, <2>3, <4>1
      <4>3. \A j \in DOMAIN n.db : j > p => j + 1 > i
          BY <1>1, <4>1
      <4>4. \A j \in DOMAIN n.db : j > p => ~SavesAccount(n, j, a)
          BY <1>1, <1>12, <2>3, <4>3
      <4> HIDE DEF p
      <4> QED
          BY <4>1, <4>2, <4>4 DEF Finds
    <3> QED
        BY <3>1, <3>2
  <2> QED
      BY <1>19, <2>2, <2>3 DEF Finds
<1>20. answered => w.saved[b] = achieved[b]
  <2> SUFFICES ASSUME answered
               PROVE  w.saved[b] = achieved[b]
      OBVIOUS
  <2>1. ~Plays(w, b)
      BY <1>13 DEF Awaits, Plays, IsListed
  <2>2. Finds(w, b, achieved[b])
      BY <1>0, <1>2, <2>1 DEF ProgressSound
  <2>3. ~SavesAccount(w, 1, b)
      BY DEF SavesAccount, task
  <2>4. \A i \in DOMAIN w.db : i = 1 \/ i > 1
      BY <1>1
  <2> QED
      BY <1>13, <2>2, <2>3, <2>4 DEF Finds
<1>21. ProgressSound(n, achieved)
  <2>1. \A a \in Accounts :
            IF Plays(n, a) THEN n.ses[n.sessions[a]].at = achieved[a]
            ELSE Finds(n, a, achieved[a])
    <3>1. \A a \in Accounts : Plays(w, a) =>
            n.ses[n.sessions[a]].at = w.ses[w.sessions[a]].at
        BY <1>4, <1>5, <1>16 DEF Plays
    <3> QED
        BY <1>0, <1>17, <1>19, <3>1 DEF ProgressSound
  <2>2. ASSUME NEW t \in Sessions, n.ses[t].loaded # <<>>
        PROVE  n.ses[t].loaded[1] = achieved[Account[t]]
    <3>1. CASE n.ses[t].loaded = w.ses[t].loaded
        BY <1>0, <2>2, <3>1 DEF ProgressSound
    <3>2. CASE t = s /\ answered
      <4>1. n.ses[t].loaded = Append(<<>>, w.saved[b]) /\ Account[t] = b
          BY <1>4, <1>13, <3>2
      <4>2. w.saved[b] = achieved[b]
          BY <1>20, <3>2
      <4> HIDE DEF s, b, answered
      <4>3. n.ses[t].loaded[1] = w.saved[b]
          BY <4>1
      <4> QED
          BY <4>1, <4>2, <4>3
    <3> QED
        BY <1>6, <3>1, <3>2
  <2> QED
      BY <2>1, <2>2 DEF ProgressSound
<1> QED
    BY <1>8, <1>9, <1>15, <1>18, <1>21 DEF FullWorld

(* The database worker keeps SessionsInv: a query finds the last save.     *)
LEMMA ExecuteFull ==
    ASSUME SessionsInv, TableInv', Execute
    PROVE  SessionsInv'
<1> DEFINE links == Links(linkQueue, Linking)
<1>0. /\ TableInv /\ FullWorld(world, links, progress)
      /\ world \in World /\ world' \in World /\ TableWorld(world')
    BY SessionsParts, TableParts DEF TableInv, TypeOK, TableWorld
<1>1. /\ world.db # <<>> /\ world' = AfterTask(world)
      /\ UnchangedQueues /\ UnchangedUpdate /\ progress' = progress
    BY DEF Execute, ChangesWorld, AfterTask
<1>2. Executed(world, world')
    BY <1>0, <1>1, ExecutedFacts
<1> HIDE DEF links
<1>3. FullWorld(world', links, progress) /\ SocketsLess(world, world')
    BY <1>0, <1>1, <1>2, ExecutedFull
<1>4. \A t \in Sessions : world'.ses[t].keys = world.ses[t].keys
  <2> DEFINE task == world.db[1]
             s == task.of
  <2>1. \A t \in Sessions :
            \/ world'.ses[t] = world.ses[t]
            \/ t = s /\ world'.ses[s].keys = world.ses[s].keys
      BY <1>2 DEF Executed
  <2> QED
      BY <2>1
<1>5. phase = "linking" => current[1] \in Sessions
    BY <1>0, TableParts, LinksType DEF UpdateSound
<1> QED
    BY <1>1, <1>3, <1>4, <1>5, SocketsLessWaiting, FullWorldStep DEF links

(* Between the updates no connection is about to join.                     *)
LEMMA UpdateStep ==
    ASSUME SessionsInv, TableInv', phase # "linking", phase' # "linking",
           linkQueue' = linkQueue, SocketsLess(world, world'),
           FullWorld(world', Links(linkQueue, Linking), progress')
    PROVE  SessionsInv'
<1>1. Linking' = Linking
    BY DEF Linking
<1>2. LinksSound'
    BY <1>1, LinksKept, SessionsParts, SocketsLessWaiting
<1>3. FullWorld(world, Links(linkQueue, Linking), progress)'
    BY <1>1 DEF Links
<1>4. (TableInv /\ LinksSound /\ FullWorld(world, Links(linkQueue, Linking), progress))'
        => SessionsInv'
    BY DEF SessionsInv, FullWorld, TableInv, TableWorld
<1> QED
    BY <1>2, <1>3, <1>4

(* ProcessLinkInstanceSocket keeps SessionsInv.                            *)
LEMMA ProcessLinkFull ==
    ASSUME SessionsInv, TableInv', ProcessLinkInstanceSocket
    PROVE  SessionsInv'
<1> DEFINE q == linkQueue
           r == linkQueue'
           k == Head(q)
           links == Links(linkQueue, Linking)
           new == Links(linkQueue', Linking')
<1>0. /\ TableInv /\ FullWorld(world, links, progress) /\ LinksSound
      /\ world \in World /\ world' \in World /\ TableWorld(world')
      /\ q \in Seq(Sockets)
    BY SessionsParts, TableParts DEF TableInv, TypeOK, TableWorld
<1>1. /\ phase = "links" /\ q # <<>>
      /\ \/ /\ FindSession(world, Account[k[1]]) = k[1]
            /\ world.ses[FindSession(world, Account[k[1]])].keys = k[2]
            /\ phase' = "linking" /\ current' = k /\ world' = world
         \/ /\ world' = Close(world, {k}) /\ phase' = phase /\ current' = current
      /\ r = Tail(q)
      /\ UNCHANGED <<addSessQueue, todo, progress>>
    BY DEF ProcessLinkInstanceSocket
<1>2. /\ DOMAIN q = 1 .. Len(q) /\ Len(q) \in Nat /\ Len(q) > 0
      /\ DOMAIN r = 1 .. Len(q) - 1 /\ k = q[1] /\ 1 \in DOMAIN q
      /\ \A i \in DOMAIN r : i + 1 \in DOMAIN q /\ i + 1 # 1 /\ r[i] = q[i + 1]
    BY <1>0, <1>1
<1>3. Quiet(world, world')
  <2>1. CASE world' = world
      BY <1>0, <2>1 DEF Quiet, SameTable, SameData, SameSession, SocketsLess
  <2>2. CASE world' = Close(world, {k})
      BY <1>0, <2>2, CloseQuiet
  <2> QED
      BY <1>1, <2>1, <2>2
<1>4. /\ Linking = {} /\ Linking' \subseteq {k}
      /\ phase' = "linking" => current' = k /\ current'[2] = world'.ses[current'[1]].keys
    BY <1>1 DEF Linking, FindSession
<1> HIDE DEF k, q, r
<1>5. new \subseteq links
  <2>1. \A i \in DOMAIN r : r[i] \in {q[j] : j \in DOMAIN q}
      BY <1>2
  <2>2. k \in {q[j] : j \in DOMAIN q}
      BY <1>2
  <2> QED
      BY <1>4, <2>1, <2>2 DEF new, links, Links, q, r
<1>6. FullWorld(world', new, progress)
  <2>1. FullWorld(world', links, progress)
      BY <1>0, <1>3, QuietFull
  <2>2. \A s \in Sessions : Awaits(world', s, links) => Awaits(world', s, new)
      BY <1>5 DEF Awaits
  <2> HIDE DEF links, new
  <2>3. SocketsSound(world') /\ SameData(world', world')
      BY <2>1 DEF FullWorld, SameData
  <2> QED
      BY <1>0, <2>1, <2>2, <2>3, FullStep
<1>7. LinksSound'
  <2>1. \A i, j \in DOMAIN q : q[i] = q[j] => i = j
      BY <1>0 DEF LinksSound, q
  <2>2. \A i, j \in DOMAIN r : r[i] = r[j] => i = j
      BY <1>2, <2>1
  <2>3. \A i \in DOMAIN r : r[i] # k
      BY <1>2, <2>1
  <2>4. Waiting(world, world')
      BY <1>3, SocketsLessWaiting DEF Quiet
  <2>5. \A c \in links :
            /\ c \in Sockets /\ c[2] # 0
            /\ world.sock[c].state # "none" /\ ~world.sock[c].session
      BY <1>0, LinksType DEF LinksSound
  <2>6. \A c \in new :
            /\ c[2] # 0
            /\ world'.sock[c].state # "none" /\ ~world'.sock[c].session
      BY <1>5, <2>4, <2>5 DEF Waiting
  <2>7. Links(linkQueue, Linking)' = new
      BY DEF Links
  <2>8. \A i \in DOMAIN r : r[i] \notin Linking'
      BY <1>4, <2>3
  <2> HIDE DEF new
  <2> QED
      BY <1>4, <2>2, <2>6, <2>7, <2>8 DEF LinksSound, r
<1>8. FullWorld(world, Links(linkQueue, Linking), progress)'
    BY <1>1, <1>6 DEF Links
<1>9. (TableInv /\ LinksSound /\ FullWorld(world, Links(linkQueue, Linking), progress))'
        => SessionsInv'
    BY DEF SessionsInv, FullWorld, TableInv, TableWorld
<1> QED
    BY <1>7, <1>8, <1>9

(* AddInstanceConnection keeps SessionsInv.                                *)
LEMMA AddConnectionFull ==
    ASSUME SessionsInv, TableInv', AddInstanceConnection
    PROVE  SessionsInv'
<1> DEFINE k == current
           links == Links(linkQueue, Linking)
           new == Links(linkQueue, {})
<1>0. /\ TableInv /\ FullWorld(world, links, progress) /\ LinksSound /\ UpdateSound
      /\ world \in World /\ world' \in World /\ TableWorld(world')
    BY SessionsParts, TableParts DEF TableInv, TypeOK, TableWorld
<1>1. /\ phase = "linking"
      /\ world' = HandleContinuePlayerLogin(Joined(world, k), k[1])
      /\ phase' = "links"
      /\ UNCHANGED <<addSessQueue, linkQueue, todo, progress>>
    BY DEF AddInstanceConnection, Joined, UnchangedQueues
<1>2. k \in Sockets /\ IsListed(world, k[1])
    BY <1>0, <1>1 DEF UpdateSound
<1>3. Linking = {k} /\ Linking' = {} /\ k \in links /\ new \subseteq links
    BY <1>1 DEF Linking, links, new, Links
<1>4. /\ k[2] # 0 /\ k[2] = world.ses[k[1]].keys
      /\ world.sock[k].state # "none" /\ ~world.sock[k].session
      /\ k \notin new
    BY <1>0, <1>1, <1>3 DEF LinksSound, new, Links
<1>5. /\ FullWorld(world', new, progress)
      /\ \A c \in Sockets : c # k =>
            /\ world.sock[c].state # "none" => world'.sock[c].state # "none"
            /\ world'.sock[c].session => world.sock[c].session
  <2> HIDE DEF k, links, new
  <2> QED
      BY <1>0, <1>1, <1>2, <1>3, <1>4, ConnectionFull
<1>6. Links(linkQueue, Linking)' = new
    BY <1>1, <1>3 DEF Links
<1>7. LinksSound'
  <2>1. \A c \in new :
            /\ c \in Sockets /\ c # k /\ c[2] # 0
            /\ world.sock[c].state # "none" /\ ~world.sock[c].session
      BY <1>0, <1>3, <1>4, LinksType DEF LinksSound
  <2>2. \A c \in new :
            c[2] # 0 /\ world'.sock[c].state # "none" /\ ~world'.sock[c].session
      BY <1>5, <2>1
  <2>3. /\ \A i, j \in DOMAIN linkQueue' : linkQueue'[i] = linkQueue'[j] => i = j
        /\ \A i \in DOMAIN linkQueue' : linkQueue'[i] \notin Linking'
      BY <1>0, <1>1, <1>3 DEF LinksSound
  <2> HIDE DEF new
  <2> QED
      BY <1>1, <1>6, <2>2, <2>3 DEF LinksSound
<1>8. FullWorld(world, Links(linkQueue, Linking), progress)'
    BY <1>1, <1>5, <1>6
<1>9. (TableInv /\ LinksSound /\ FullWorld(world, Links(linkQueue, Linking), progress))'
        => SessionsInv'
    BY DEF SessionsInv, FullWorld, TableInv, TableWorld
<1> QED
    BY <1>7, <1>8, <1>9

(* AddSession_ keeps SessionsInv: the old session saves before it goes.    *)
LEMMA AddSessionsFull ==
    ASSUME SessionsInv, TableInv', AddSessions
    PROVE  SessionsInv'
<1> DEFINE q == addSessQueue
           s == Head(q)
           old == world.sessions[Account[s]]
           links == Links(linkQueue, Linking)
<1>0. /\ TableInv /\ FullWorld(world, links, progress)
      /\ world \in World /\ world' \in World /\ TableWorld(world')
      /\ TableWorld(world) /\ TableSound(world) /\ AddsSound /\ q \in Seq(Sessions)
    BY SessionsParts, TableParts DEF TableInv, TypeOK, TableWorld
<1>1. /\ phase = "adds" /\ q # <<>>
      /\ world' = AddSession_(world, s)
      /\ UNCHANGED <<linkQueue, phase, current, todo, progress>>
    BY DEF AddSessions
<1>2. s \in Sessions /\ MayEnter(world, s)
  <2>1. 1 \in DOMAIN q /\ s = q[1] /\ s \in Sessions
      BY <1>0, <1>1, AnswerFields
  <2> QED
      BY <1>0, <2>1 DEF AddsSound, MayEnter
<1> HIDE DEF s, links
<1>3. \/ world' = Delete(KickPlayer(world, s), s)
      \/ world' = Admitted(world, s)
    BY <1>1 DEF AddSession_
<1>4. CASE world' = Delete(KickPlayer(world, s), s)
  <2>1. Refused(world, world', s)
      BY <1>0, <1>2, <1>4, RefusedFacts
  <2>2. FullWorld(world', links, progress) /\ SocketsLess(world, world')
      BY <1>0, <1>2, <2>1, RefusedFull
  <2> QED
      BY <1>1, <2>2, UpdateStep DEF links
<1>5. CASE world' = Admitted(world, s)
  <2>1. IF old = None THEN Entered(world, world', s) ELSE Removed(world, world', old, s)
      BY <1>0, <1>2, <1>5, AdmittedFacts
  <2>2. CASE old = None
    <3>1. FullWorld(world', links, progress) /\ SocketsLess(world, world')
        BY <1>0, <1>2, <2>1, <2>2, EnteredFull
    <3> QED
        BY <1>1, <3>1, UpdateStep DEF links
  <2>3. CASE old # None
    <3>1. old \in Sessions /\ IsListed(world, old) /\ Account[old] = Account[s]
        BY <1>0, <1>2, <2>3, ListedSessions, SessionsAssumption DEF TableSound
    <3>2. Successor(world, old, s) /\ Removed(world, world', old, s)
        BY <1>2, <2>1, <2>3, <3>1 DEF Successor
    <3> HIDE DEF old
    <3>3. FullWorld(world', links, progress) /\ SocketsLess(world, world')
        BY <1>0, <3>1, <3>2, RemovedFull
    <3> QED
        BY <1>1, <3>3, UpdateStep DEF links
  <2> QED
      BY <2>2, <2>3
<1> QED
    BY <1>3, <1>4, <1>5

(* WorldSession::Update keeps SessionsInv.                                 *)
LEMMA UpdateSessionFull ==
    ASSUME SessionsInv, TableInv', NEW a \in Accounts, UpdateSession(a)
    PROVE  SessionsInv'
<1> DEFINE s == FindSession(world, a)
           k == world.ses[s]
           taken == IF world.ses[s].realm
                    THEN [world EXCEPT !.ses[s].wants = "nothing"] ELSE world
           links == Links(linkQueue, Linking)
           n == world'
<1>0. /\ TableInv /\ FullWorld(world, links, progress) /\ UpdateSound
      /\ world \in World /\ world' \in World /\ TableWorld(world')
      /\ TableWorld(world)
    BY SessionsParts, TableParts DEF TableInv, TypeOK, TableWorld
<1>1. /\ phase = "update" /\ a \in todo
      /\ world' = Handled(world, s)
      /\ phase' = "callbacks"
      /\ UNCHANGED <<addSessQueue, linkQueue, progress>>
    BY DEF UpdateSession, UnchangedQueues
<1>2. s \in Sessions /\ IsListed(world, s)
    BY <1>0, <1>1, ListedSessions DEF UpdateSound, Listed, FindSession, TableWorld
<1> HIDE DEF s, links
<1>3. Quiet(world, taken)
  <2>1. CASE world.ses[s].realm
      BY <1>0, <1>2, <2>1, WantsQuiet
  <2>2. CASE ~world.ses[s].realm
      BY <1>0, <2>2 DEF Quiet, SameTable, SameData, SameSession, SocketsLess
  <2> QED
      BY <2>1, <2>2
<1>4. \/ world' = taken
      \/ /\ world' = HandlePlayerLoginOpcode(taken, s)
         /\ k.keys < MaxKeys \/ k.loading \/ k.player
      \/ /\ world' = LogoutPlayer(taken, s)
         /\ ~k.loading
    BY <1>1 DEF Handled
<1> HIDE DEF taken
<1>5. /\ taken \in World /\ TableWorld(taken)
      /\ FullWorld(taken, links, progress) /\ SocketsLess(world, taken)
    BY <1>0, <1>3, QuietTable, QuietFull DEF Quiet
<1>6. IsListed(taken, s) /\ SameSession(k, taken.ses[s])
    BY <1>2, <1>3 DEF Quiet, SameTable, IsListed
<1>7. FullWorld(n, links, progress) /\ SocketsLess(taken, n)
  <2>1. CASE n = taken
      BY <1>5, <2>1 DEF SocketsLess
  <2>2. CASE n = KickPlayer(taken, s)
    <3>1. Quiet(taken, n)
        BY <1>5, <2>2, KickQuiet
    <3> QED
        BY <1>5, <3>1, QuietFull DEF Quiet
  <2>3. CASE /\ n = SendConnectToInstance([taken EXCEPT !.ses[s].loading = TRUE], s)
             /\ ~taken.ses[s].loading /\ ~taken.ses[s].player /\ k.keys < MaxKeys
    <3>1. taken.ses[s].keys < MaxKeys
        BY <1>6, <2>3 DEF SameSession
    <3>2. n.sock = taken.sock
        BY <1>2, <1>5, <2>3, <3>1, LoginBeginsFacts
    <3>3. FullWorld(n, links, progress)
        BY <1>0, <1>2, <1>5, <2>3, <3>1, LoginBeginsFull
    <3> QED
        BY <3>2, <3>3 DEF SocketsLess, Reads, IsOpen
  <2>4. CASE n = LogoutPlayer(taken, s) /\ ~k.loading
    <3>1. ~taken.ses[s].loading
        BY <1>6, <2>4 DEF SameSession
    <3> QED
        BY <1>0, <1>2, <1>5, <1>6, <2>4, <3>1, LogoutFull
  <2>5. CASE /\ n = HandlePlayerLoginOpcode(taken, s)
             /\ k.keys < MaxKeys \/ k.loading \/ k.player
    <3>1. taken.ses[s].loading = k.loading /\ taken.ses[s].player = k.player
        BY <1>6 DEF SameSession
    <3> QED
        BY <2>2, <2>3, <2>5, <3>1 DEF HandlePlayerLoginOpcode
  <2> QED
      BY <1>4, <2>1, <2>4, <2>5
<1>8. SocketsLess(world, n)
    BY <1>5, <1>7 DEF SocketsLess
<1> QED
    BY <1>1, <1>7, <1>8, UpdateStep DEF links

(* ProcessQueryCallbacks keeps SessionsInv: the player starts from the last save. *)
LEMMA CallbacksFull ==
    ASSUME SessionsInv, TableInv', ProcessQueryCallbacks
    PROVE  SessionsInv'
<1> DEFINE links == Links(linkQueue, Linking)
<1>0. /\ TableInv /\ FullWorld(world, links, progress) /\ UpdateSound
      /\ world \in World /\ world' \in World /\ TableWorld(world')
    BY SessionsParts, TableParts DEF TableInv, TypeOK, TableWorld
<1>1. /\ phase = "callbacks"
      /\ \/ /\ ~InQueue(world, current)
            /\ world' = InitializeSessionCallback(world, current)
         \/ /\ world.ses[current].loaded # <<>>
            /\ \/ world' = HandlePlayerLogin(world, current)
               \/ world' = HandlePlayerLoginFailed(world, current)
      /\ UNCHANGED <<addSessQueue, linkQueue, phase, progress>>
    BY DEF ProcessQueryCallbacks, UnchangedQueues
<1>2. current \in Sessions
    BY <1>0, <1>1 DEF UpdateSound
<1> HIDE DEF links
<1>3. FullWorld(world', links, progress) /\ SocketsLess(world, world')
    BY <1>0, <1>1, <1>2, InitializedFull, HandleLoginFull, LoginFailedFull
<1> QED
    BY <1>1, <1>3, UpdateStep DEF links

(* The deletion of a session keeps SessionsInv.                            *)
LEMMA CleanUpFull ==
    ASSUME SessionsInv, TableInv', NEW over \in BOOLEAN, CleanUp(over)
    PROVE  SessionsInv'
<1> DEFINE e == Expire(world, current, over)
           links == Links(linkQueue, Linking)
<1>0. /\ TableInv /\ FullWorld(world, links, progress) /\ UpdateSound
      /\ world \in World /\ world' \in World /\ TableWorld(world')
      /\ TableWorld(world)
    BY SessionsParts, TableParts DEF TableInv, TypeOK, TableWorld
<1>1. /\ phase = "callbacks"
      /\ world' = e \/ world' = RemoveUpdated(e, current)
      /\ phase' = IF todo = {} THEN "idle" ELSE "update"
      /\ UNCHANGED <<addSessQueue, linkQueue, todo, progress>>
    BY DEF CleanUp, UnchangedQueues
<1>2. current \in Sessions /\ IsListed(world, current)
    BY <1>0, <1>1 DEF UpdateSound
<1>3. e \in World /\ TableWorld(e) /\ Stays(world, e)
    BY <1>0, <1>2, ExpiredTable
<1>4. e = world \/ e = Freed(world, current)
    BY <1>0, <1>2, ExpiredFacts
<1> HIDE DEF e, links
<1>5. FullWorld(e, links, progress) /\ SocketsLess(world, e)
  <2>1. CASE e = world
      BY <1>0, <2>1 DEF SocketsLess
  <2>2. CASE e = Freed(world, current)
      BY <1>0, <1>2, <1>3, <2>2, FreedFull
  <2> QED
      BY <1>4, <2>1, <2>2
<1>6. IsListed(e, current)
    BY <1>2, <1>3 DEF Stays, IsListed
<1>7. FullWorld(world', links, progress) /\ SocketsLess(e, world')
  <2>1. CASE world' = e
      BY <1>5, <2>1 DEF SocketsLess
  <2>2. CASE world' = RemoveUpdated(e, current)
    <3>1. Removed(e, world', current, None)
        BY <1>2, <1>3, <1>6, <2>2, RemoveUpdatedFacts DEF TableWorld
    <3>2. Successor(e, current, None)
        BY DEF Successor
    <3> QED
        BY <1>0, <1>2, <1>3, <1>5, <1>6, <3>1, <3>2, RemovedFull
  <2> QED
      BY <1>1, <2>1, <2>2
<1>8. SocketsLess(world, world')
    BY <1>5, <1>7 DEF SocketsLess
<1>9. phase # "linking" /\ phase' # "linking"
    BY <1>1
<1> QED
    BY <1>1, <1>7, <1>8, <1>9, UpdateStep DEF links

(* What a player achieves keeps SessionsInv.                               *)
LEMMA PlayFull ==
    ASSUME SessionsInv, TableInv', NEW a \in Accounts, Play(a)
    PROVE  SessionsInv'
<1> DEFINE s == FindSession(world, a)
           links == Links(linkQueue, Linking)
           n == world'
<1>0. /\ TableInv /\ FullWorld(world, links, progress)
      /\ world \in World /\ n \in World /\ TableWorld(n)
      /\ TableWorld(world) /\ TableSound(world) /\ SocketsSound(world)
      /\ QueriesSound(world, links) /\ PlayersExact(world)
      /\ ProgressSound(world, progress)
      /\ progress \in [Accounts -> 0 .. MaxProgress]
    BY SessionsParts, TableParts DEF TableInv, TypeOK, TableWorld, FullWorld
<1>1. /\ s # None /\ world.ses[s].player /\ progress[a] < MaxProgress
      /\ progress' = [progress EXCEPT ![a] = @ + 1]
      /\ n = [world EXCEPT !.ses[s].at = progress'[a]]
      /\ phase = "idle" /\ phase' = phase /\ linkQueue' = linkQueue
    BY DEF Play, Between, UnchangedQueues, UnchangedUpdate
<1>2. s \in Sessions /\ IsListed(world, s) /\ Account[s] = a /\ world.sessions[a] = s
    BY <1>0, <1>1, ListedSessions DEF FindSession, TableSound
<1> HIDE DEF s, links, n
<1>3. /\ progress'[a] \in 0 .. MaxProgress
      /\ \A c \in Accounts : c # a => progress'[c] = progress[c]
    BY <1>0, <1>1, SessionsAssumption
<1>4. /\ Touches(world, n, s) /\ SameData(world, n) /\ n.sock = world.sock
      /\ n.ses[s].keys = world.ses[s].keys
      /\ n.ses[s].loading = world.ses[s].loading
      /\ n.ses[s].loaded = world.ses[s].loaded
      /\ n.ses[s].player = world.ses[s].player /\ n.ses[s].at = progress'[a]
      /\ n.ses[s].realm = world.ses[s].realm
      /\ n.ses[s].instance = world.ses[s].instance
  <2> DEFINE p == progress'[a]
  <2>1. p \in 0 .. MaxProgress /\ n = [world EXCEPT !.ses[s].at = p]
      BY <1>1, <1>3
  <2> HIDE DEF p
  <2> QED
      BY <1>0, <1>2, <2>1, PlayFacts DEF p
<1>5. /\ n.sessions = world.sessions /\ n.db = world.db /\ n.saved = world.saved
      /\ n.players = world.players
      /\ \A t \in Sessions : t # s => n.ses[t] = world.ses[t]
      /\ n.ses[s].life = world.ses[s].life
    BY <1>4 DEF Touches, SameTable, SameData
<1>6. SocketsLess(world, n)
    BY <1>4 DEF SocketsLess, Reads, IsOpen
<1>7. SocketsSound(n)
  <2>1. \A k \in Sockets : k[1] \in Sessions
      BY DEF Sockets
  <2>2. \A t \in Sessions :
            /\ n.ses[t].life = world.ses[t].life /\ n.ses[t].keys = world.ses[t].keys
            /\ n.ses[t].loading = world.ses[t].loading
            /\ n.ses[t].player = world.ses[t].player
            /\ n.ses[t].realm = world.ses[t].realm
            /\ n.ses[t].instance = world.ses[t].instance
      BY <1>4, <1>5
  <2> QED
      BY <1>0, <1>4, <2>1, <2>2 DEF SocketsSound, Reads, IsOpen
<1>8. \A t \in Sessions : n.ses[t].loaded = world.ses[t].loaded
    BY <1>4, <1>5
<1>9. QueriesSound(n, links)
  <2>1. ASSUME NEW t \in Sessions, Awaits(world, t, links)
        PROVE  Awaits(n, t, links)
    <3>1. t # s /\ IsListed(n, t)
        BY <1>1, <1>5, <2>1 DEF Awaits, IsListed
    <3> QED
        BY <1>0, <1>5, <1>6, <2>1, <3>1, AwaitsKept DEF SocketsLess
  <2>2. \A t \in Sessions : world.ses[t].life = "deleted" => n.ses[t].life = "deleted"
      BY <1>5
  <2> QED
      BY <1>0, <1>5, <1>8, <2>1, <2>2, QueriesKept
<1>10. \A c \in Accounts : c # a =>
        /\ Plays(n, c) <=> Plays(world, c)
        /\ Plays(world, c) => n.ses[n.sessions[c]].at = world.ses[world.sessions[c]].at
  <2>1. \A c \in Accounts : c # a /\ world.sessions[c] # None =>
            world.sessions[c] \in Sessions /\ world.sessions[c] # s
      BY <1>0, <1>2, ListedSessions DEF TableSound
  <2> QED
      BY <1>5, <2>1 DEF Plays
<1>11. Plays(world, a) /\ Plays(n, a)
    BY <1>1, <1>2, <1>4, <1>5 DEF Plays
<1>12. PlayersExact(n)
    BY <1>0, <1>5, <1>10, <1>11 DEF PlayersExact
<1>13. ProgressSound(n, progress')
  <2>1. n.ses[n.sessions[a]].at = progress'[a]
      BY <1>2, <1>4, <1>5
  <2>2. \A c \in Accounts : c # a /\ Finds(world, c, progress[c]) => Finds(n, c, progress'[c])
      BY <1>3, <1>5 DEF Finds, SavesAccount
  <2>3. \A c \in Accounts :
            IF Plays(n, c) THEN n.ses[n.sessions[c]].at = progress'[c]
            ELSE Finds(n, c, progress'[c])
      BY <1>0, <1>3, <1>10, <1>11, <2>1, <2>2 DEF ProgressSound
  <2>4. ASSUME NEW t \in Sessions, n.ses[t].loaded # <<>>
        PROVE  n.ses[t].loaded[1] = progress'[Account[t]]
    <3>1. Awaits(world, t, links)
        BY <1>0, <1>8, <2>4 DEF QueriesSound
    <3>2. Account[t] \in Accounts /\ Account[t] # a
        BY <1>1, <1>2, <3>1, SessionsAssumption DEF Awaits, IsListed
    <3> QED
        BY <1>0, <1>3, <1>8, <2>4, <3>2 DEF ProgressSound
  <2> QED
      BY <2>3, <2>4 DEF ProgressSound
<1>14. FullWorld(n, links, progress')
    BY <1>0, <1>7, <1>9, <1>12, <1>13 DEF FullWorld
<1> QED
    BY <1>1, <1>6, <1>14, UpdateStep DEF links, n

(* A save keeps SessionsInv.                                               *)
LEMMA SaveFull ==
    ASSUME SessionsInv, TableInv', NEW a \in Accounts, Save(a)
    PROVE  SessionsInv'
<1> DEFINE s == FindSession(world, a)
           links == Links(linkQueue, Linking)
<1>0. /\ TableInv /\ FullWorld(world, links, progress)
      /\ world \in World /\ world' \in World /\ TableWorld(world')
      /\ TableSound(world)
    BY SessionsParts, TableParts DEF TableInv, TypeOK, TableWorld
<1>1. /\ s # None /\ world.ses[s].player /\ world' = SaveToDB(world, s)
      /\ phase = "idle" /\ phase' = phase /\ linkQueue' = linkQueue
      /\ progress' = progress
    BY DEF Save, Between, UnchangedQueues, UnchangedUpdate
<1>2. s \in Sessions /\ IsListed(world, s)
    BY <1>0, <1>1, ListedSessions DEF FindSession
<1> HIDE DEF s, links
<1>3. world' = Posted(world, SaveTask(world, s))
    BY <1>0, <1>1, <1>2, SaveTaskType
<1>4. FullWorld(world', links, progress) /\ SocketsLess(world, world')
    BY <1>0, <1>1, <1>2, <1>3, SavedFull
<1> QED
    BY <1>1, <1>4, UpdateStep DEF links

(* At first there is nothing.                                              *)
LEMMA InitSessions == Init => SessionsInv
<1> SUFFICES ASSUME Init
             PROVE  SessionsInv
    OBVIOUS
<1>1. TableInv
    BY InitTable
<1>2. /\ \A s \in Sessions : world.ses[s] = NewSession
      /\ \A k \in Sockets : world.sock[k].state = "none" /\ ~world.sock[k].session
      /\ \A a \in Accounts :
            /\ world.sessions[a] = None /\ world.players[a] = 0 /\ world.saved[a] = 0
            /\ progress[a] = 0
      /\ world.db = <<>> /\ linkQueue = <<>> /\ phase = "idle"
    BY DEF Init
<1>3. SocketsSound(world)
    BY <1>2 DEF SocketsSound, Reads, IsOpen, NewSession
<1>4. LinksSound
    BY <1>2 DEF LinksSound, Links, Linking
<1>5. QueriesSound(world, Links(linkQueue, Linking))
    BY <1>2 DEF QueriesSound, NewSession
<1>6. PlayersExact(world) /\ ProgressSound(world, progress)
    BY <1>2 DEF PlayersExact, ProgressSound, Plays, Finds, NewSession
<1> QED
    BY <1>1, <1>3, <1>4, <1>5, <1>6 DEF SessionsInv

(* Every step keeps SessionsInv.                                           *)
LEMMA SessionsNext ==
    ASSUME MisjudgesFailure = FALSE
    PROVE  SessionsInv /\ [Next]_vars => SessionsInv'
<1> SUFFICES ASSUME SessionsInv, [Next]_vars
             PROVE  SessionsInv'
    OBVIOUS
<1>0. TableInv'
    BY TableNext, SessionsParts
<1>1. CASE UNCHANGED vars
    BY <1>1 DEF vars, SessionsInv, TableInv, TypeOK, AddsSound, UpdateSound,
       LinksSound, Links, Linking
<1>2. CASE UpdateSessions
    BY <1>0, <1>2, PhasesFull, ProcessLinkFull, AddConnectionFull, AddSessionsFull,
       UpdateSessionFull, CallbacksFull, CleanUpFull
    DEF UpdateSessions
<1>3. CASE Execute
    BY <1>0, <1>3, ExecuteFull
<1>4. CASE KickAll
    BY <1>0, <1>4, KickAllFull
<1>5. ASSUME NEW s \in Sessions, HandleAuthSessionCallback(s) \/ AddSession(s)
      PROVE  SessionsInv'
    BY <1>0, <1>5, AuthFull, AddSessionFull
<1>6. ASSUME NEW k \in Sockets,
             \/ AddInstanceSocket(k) \/ QueuePacket(k) \/ HandleConnectToFailed(k)
             \/ LoseConnection(k)
      PROVE  SessionsInv'
    BY <1>0, <1>6, AddInstanceSocketFull, QueuePacketFull, ConnectFailedFull,
       LoseConnectionFull
<1>7. ASSUME NEW a \in Accounts, Play(a) \/ Save(a) \/ Kick(a) \/ ToleranceEnds(a)
      PROVE  SessionsInv'
    BY <1>0, <1>7, PlayFull, SaveFull, KickFull, ToleranceFull
<1> QED
    BY <1>1, <1>2, <1>3, <1>4, <1>5, <1>6, <1>7 DEF Next

(* SessionsInv holds of every run, when no client reports a connection as  *)
(* failed that the server has accepted.                                    *)
THEOREM SessionsInvariant ==
    ASSUME MisjudgesFailure = FALSE
    PROVE  Spec => []SessionsInv
<1>1. Init => SessionsInv
    BY InitSessions
<1>2. SessionsInv /\ [Next]_vars => SessionsInv'
    BY SessionsNext
<1> QED
    BY <1>1, <1>2, PTL DEF Spec

(* ~WorldSession: a deleted session is reached by no network thread, and   *)
(* is neither in m_sessions, nor in a queue, nor in the update.            *)
THEOREM NoSessionDangles ==
    ASSUME MisjudgesFailure = FALSE
    PROVE  Spec => []NoDanglingSession
<1>1. SessionsInv => NoDanglingSession
  <2> SUFFICES ASSUME SessionsInv
               PROVE  NoDanglingSession
      OBVIOUS
  <2>0. /\ world \in World /\ TableSound(world) /\ QueueSound(world)
        /\ AddsSound /\ UpdateSound /\ SocketsSound(world)
        /\ addSessQueue \in Seq(Sessions)
      BY SessionsParts, TableParts DEF FullWorld, TableWorld
  <2>1. ASSUME NEW k \in Sockets, ReadsPacket(k)
        PROVE  Alive(k[1])
    <3>1. k[1] \in Sessions
        BY DEF Sockets
    <3>2. Own(world, k[1])
        BY <2>0, <3>1, SocketsOwn DEF SocketsLess
    <3> QED
        BY <2>1, <3>2 DEF Own, ReadsPacket, Reads, Alive
  <2>2. ASSUME NEW a \in Listed(world)
        PROVE  Alive(FindSession(world, a))
      BY <2>0, <2>2 DEF TableSound, Listed, FindSession, Alive
  <2>3. \A s \in Sessions : IsListed(world, s) => Alive(s)
    <3>1. \A s \in Sessions : IsListed(world, s) =>
            /\ Account[s] \in Accounts
            /\ world.sessions[Account[s]] = s /\ s # None
        BY SessionsAssumption DEF IsListed
    <3> QED
        BY <2>0, <3>1 DEF TableSound, Alive
  <2>4. ASSUME NEW s \in ToSet(addSessQueue) \cup ToSet(world.queued)
        PROVE  Alive(s)
    <3>1. CASE s \in ToSet(addSessQueue)
        BY <2>0, <3>1 DEF AddsSound, ToSet, Alive
    <3>2. CASE s \in ToSet(world.queued)
      <4>1. s \in Sessions /\ IsListed(world, s)
          BY <2>0, <3>2, QueuesFields DEF QueueSound, ToSet
      <4> QED
          BY <2>3, <4>1
    <3> QED
        BY <2>4, <3>1, <3>2
  <2>5. phase \in {"callbacks"} => Alive(current)
      BY <2>0, <2>3 DEF UpdateSound
  <2> QED
      BY <2>1, <2>2, <2>4, <2>5 DEF NoDanglingSession
<1> QED
    BY <1>1, SessionsInvariant, PTL

(* HandlePlayerLogin: "each account can only have one online character at  *)
(* any given time".                                                        *)
THEOREM OneCharacterOnline ==
    ASSUME MisjudgesFailure = FALSE
    PROVE  Spec => []OneOnlineCharacter
<1>1. SessionsInv => OneOnlineCharacter
    BY DEF SessionsInv, PlayersExact, OneOnlineCharacter
<1> QED
    BY <1>1, SessionsInvariant, PTL

(* What a query will find is what was saved last.                          *)
LEMMA FoundIsLastSaved ==
    ASSUME world \in World, NEW a \in Accounts, NEW v, Finds(world, a, v)
    PROVE  LastSaved(a) = v
<1> DEFINE saves == {i \in DOMAIN world.db :
                        world.db[i].save /\ Account[world.db[i].of] = a}
<1>1. \A i \in DOMAIN world.db : SavesAccount(world, i, a) <=> i \in saves
    BY DEF SavesAccount
<1>2. CASE world.saved[a] = v /\ \A i \in DOMAIN world.db : ~SavesAccount(world, i, a)
  <2>1. saves = {}
      BY <1>1, <1>2
  <2> QED
      BY <1>2, <2>1 DEF LastSaved
<1>3. ASSUME NEW i \in DOMAIN world.db, SavesAccount(world, i, a), world.db[i].at = v,
             \A j \in DOMAIN world.db : j > i => ~SavesAccount(world, j, a)
      PROVE  LastSaved(a) = v
  <2>1. DOMAIN world.db \subseteq Nat
    <3>1. world.db \in Seq(Task)
        BY WorldFields
    <3> QED
        BY <3>1
  <2>2. i \in saves /\ saves \subseteq Nat /\ \A j \in saves : ~(j > i)
      BY <1>1, <1>3, <2>1
  <2> HIDE DEF saves
  <2>3. Max(saves) = i
      BY <2>2 DEF Max
  <2>4. saves # {}
      BY <2>2
  <2>5. LastSaved(a) = world.db[Max(saves)].at
      BY <2>4 DEF LastSaved, saves
  <2> QED
      BY <1>3, <2>3, <2>5
<1> QED
    BY <1>2, <1>3 DEF Finds

(* Player::SaveToDB and the login queries: what a character has achieved   *)
(* is with its player or will be found by the next login query.            *)
THEOREM ProgressIsKept ==
    ASSUME MisjudgesFailure = FALSE
    PROVE  Spec => []ProgressKept
<1>1. SessionsInv => ProgressKept
  <2> SUFFICES ASSUME SessionsInv
               PROVE  ProgressKept
      OBVIOUS
  <2>1. world \in World /\ ProgressSound(world, progress)
      BY SessionsParts, TableParts DEF FullWorld
  <2>2. \A a \in Accounts : Finds(world, a, progress[a]) => LastSaved(a) = progress[a]
      BY <2>1, FoundIsLastSaved
  <2> QED
      BY <2>1, <2>2 DEF ProgressKept, ProgressSound, Plays, FindSession
<1> QED
    BY <1>1, SessionsInvariant, PTL
-----------------------------------------------------------------------------
(* Who gets in.                                                            *)

IsActive(w, s) == IsListed(w, s) /\ ~InQueue(w, s)

Rightful(w, s) == s \in Exempt \/ Account[s] \in w.disconnects

(* Those who take a place when w becomes n.                                *)
Counted(w, n) ==
    {t \in Sessions : IsActive(n, t) /\ (IsActive(w, t) \/ ~Rightful(w, t))}

(* Admission, of two worlds.                                               *)
Admits(w, n) ==
    \A s \in Sessions :
        ~IsActive(w, s) /\ IsActive(n, s) =>
            \/ Cardinality(Counted(w, n)) <= Limit
            \/ Rightful(w, s)
            \/ ~IsOpen(n, Realm(s))

(* The sessions of the table that do not wait are as many as               *)
(* GetActiveSessionCount says.                                             *)
LEMMA ActiveCount ==
    ASSUME NEW w \in World, TableSound(w),
           \A i, j \in DOMAIN w.queued : w.queued[i] = w.queued[j] => i = j,
           \A i \in DOMAIN w.queued : IsListed(w, w.queued[i])
    PROVE  LET active == {t \in Sessions : IsActive(w, t)} IN
           /\ IsFiniteSet(active)
           /\ Cardinality(active) = Cardinality(Listed(w)) - Len(w.queued)
<1> DEFINE active == {t \in Sessions : IsActive(w, t)}
           listed == {t \in Sessions : IsListed(w, t)}
           waiting == ToSet(w.queued)
           q == w.queued
           f == [a \in Listed(w) |-> w.sessions[a]]
<1>1. q \in Seq(Sessions) /\ DOMAIN q = 1 .. Len(q) /\ Len(q) \in Nat
    BY DEF World
<1>2. IsFiniteSet(Listed(w)) /\ Cardinality(Listed(w)) \in Nat
    BY ListedFinite
<1>3. ExistsBijection(Listed(w), listed)
  <2>1. \A a \in Listed(w) : f[a] \in listed /\ Account[f[a]] = a
      BY ListedSessions DEF Listed, TableSound
  <2>2. \A t \in listed : Account[t] \in Listed(w) /\ f[Account[t]] = t
      BY SessionsAssumption DEF Listed, IsListed
  <2>3. f \in [Listed(w) -> listed]
      BY <2>1
  <2>4. \A a, b \in Listed(w) : f[a] = f[b] => a = b
      BY <2>1
  <2>5. \A t \in listed : \E a \in Listed(w) : f[a] = t
      BY <2>2
  <2> HIDE DEF f, listed
  <2>6. f \in Bijection(Listed(w), listed)
      BY <2>3, <2>4, <2>5, Fun_IsBij
  <2> QED
      BY <2>6 DEF ExistsBijection
<1>4. IsFiniteSet(listed) /\ Cardinality(listed) = Cardinality(Listed(w))
    BY <1>2, <1>3, FS_Bijection
<1>5. Cardinality(waiting) = Len(q)
  <2>1. \A i \in 1 .. Len(q) : q[i] \in waiting
      BY <1>1 DEF ToSet
  <2>2. q \in [1 .. Len(q) -> waiting]
      BY <1>1, <2>1
  <2>3. \A t \in waiting : \E i \in 1 .. Len(q) : q[i] = t
      BY <1>1 DEF ToSet
  <2>4. \A i, j \in 1 .. Len(q) : q[i] = q[j] => i = j
      BY <1>1
  <2> HIDE DEF q, waiting
  <2>5. q \in Bijection(1 .. Len(q), waiting)
      BY <2>2, <2>3, <2>4, Fun_IsBij
  <2>6. ExistsBijection(1 .. Len(q), waiting)
      BY <2>5 DEF ExistsBijection
  <2> QED
      BY <1>1, <2>6, FS_CountingElements
<1>6. waiting \subseteq listed
    BY <1>1 DEF ToSet
<1>7. active = listed \ waiting
    BY DEF IsActive, InQueue
<1> HIDE DEF active, listed, waiting, q
<1>8. listed \cap waiting = waiting
    BY <1>6
<1>9. /\ IsFiniteSet(listed \ waiting)
      /\ Cardinality(listed \ waiting) = Cardinality(listed) - Cardinality(waiting)
    BY <1>4, <1>8, FS_Difference
<1> QED
    BY <1>4, <1>5, <1>7, <1>9 DEF active, q

(* A step that lets nobody in.                                             *)
LEMMA NobodyAdmitted ==
    ASSUME NEW w, NEW n, SameTable(w, n)
    PROVE  Admits(w, n)
    BY DEF SameTable, Admits, IsActive, IsListed, InQueue

(* RemoveUpdated: who gets in gets the place of s.                         *)
LEMMA RemoveUpdatedAdmits ==
    ASSUME NEW w \in World, TableWorld(w), NEW s \in Sessions, IsListed(w, s)
    PROVE  Admits(w, RemoveUpdated(w, s))
<1> DEFINE n == RemoveUpdated(w, s)
           active == {t \in Sessions : IsActive(n, t)}
<1>1. TableSound(w) /\ QueueSound(w) /\ PlayersEnough(w)
    BY DEF TableWorld
<1>2. Removed(w, n, s, None) /\ FirstIn(w, n, s)
    BY <1>1, RemoveUpdatedFacts
<1>3. n \in World /\ TableSound(n) /\ QueueSound(n)
    BY RemoveUpdatedTable DEF TableWorld
<1>4. Listed(n) = Listed(w) \ {Account[s]}
    BY RemoveUpdatedTable
<1> HIDE DEF n
<1> SUFFICES ASSUME NEW t \in Sessions, ~IsActive(w, t), IsActive(n, t)
             PROVE  Cardinality(Counted(w, n)) <= Limit
    BY DEF Admits, n
<1>5. t # s /\ InQueue(w, t) /\ ~InQueue(n, t)
    BY <1>2, SessionsAssumption DEF Removed, IsActive, IsListed
<1>6. Cardinality(Listed(w)) - 1 - Len(n.queued) <= Limit
    BY <1>2, <1>5 DEF FirstIn
<1>7. Account[s] \in Listed(w)
    BY SessionsAssumption DEF Listed, IsListed
<1>8. Cardinality(Listed(n)) = Cardinality(Listed(w)) - 1
    BY <1>1, <1>4, <1>7, ListedFinite, FS_RemoveElement
<1>9. IsFiniteSet(active) /\ Cardinality(active) = Cardinality(Listed(n)) - Len(n.queued)
    BY <1>3, ActiveCount DEF QueueSound
<1>10. Counted(w, n) \in SUBSET active
    BY DEF Counted
<1> HIDE DEF active
<1>11. /\ Cardinality(Counted(w, n)) <= Cardinality(active)
       /\ Cardinality(Counted(w, n)) \in Nat /\ Cardinality(active) \in Nat
    BY <1>9, <1>10, FS_Subset, FS_CardinalityType
<1>12. Limit \in Nat
    BY SessionsAssumption
<1> QED
    BY <1>6, <1>8, <1>9, <1>11, <1>12

(* Admitted: s finds room, or waits, or has a right to get in; who gets in *)
(* for the old session of the account takes its place.                     *)
LEMMA AdmittedAdmits ==
    ASSUME NEW w \in World, TableWorld(w), NEW s \in Sessions, MayEnter(w, s), Limit > 0
    PROVE  Admits(w, Admitted(w, s))
<1> DEFINE a == Account[s]
           old == FindSession(w, a)
           in == SetEntry(Replaced(w, a), a, s)
           others == Cardinality(Listed(in))
                        - (IF old # None /\ InQueue(w, old) THEN 0 ELSE 1)
           waits == /\ Limit > 0
                    /\ others >= Limit
                    /\ s \notin Exempt
                    /\ ~(Tolerance /\ a \in in.disconnects)
           n == IF waits THEN AddQueuedPlayer(in, s) ELSE in
           active == {t \in Sessions : IsActive(in, t)}
<1> TableSound(w) /\ QueueSound(w) /\ PlayersEnough(w)
    BY DEF TableWorld
<1>1. Admitted(w, s) = n
    BY DEF Admitted, SetEntry
<1>2. /\ a \in Accounts /\ s # None /\ old = w.sessions[a]
      /\ Limit \in Nat /\ Tolerance \in BOOLEAN
    BY SessionsAssumption DEF FindSession
<1>3. /\ LeftQueue(in, s)
      /\ in.disconnects = w.disconnects
      /\ in \in World
      /\ \A b \in Accounts : in.sessions[b] = IF b = a THEN s ELSE w.sessions[b]
      /\ old = None => in.queued = w.queued
      /\ old # None => FirstIn(w, in, old) /\ Listed(in) = Listed(w)
  <2>1. CASE old = None
      BY <2>1, EnteredFacts DEF Entered
  <2>2. CASE old # None
    <3>1. Account[old] = a
        BY <1>2, <2>2 DEF TableSound
    <3> QED
        BY <2>2, <3>1, ReplacedFacts DEF Removed
  <2> QED
      BY <2>1, <2>2
<1>4. TableSound(in)
  <2>1. CASE old = None
      BY <1>2, <2>1, EnteredFacts, EnteredTable
  <2>2. CASE old # None
    <3>1. old \in Sessions /\ IsListed(w, old) /\ Account[old] = a
        BY <1>2, <2>2, ListedSessions DEF TableSound
    <3>2. Successor(w, old, s)
        BY <3>1 DEF Successor
    <3>3. Removed(w, in, old, s)
        BY <2>2, ReplacedFacts
    <3> HIDE DEF old, in
    <3> QED
        BY <3>1, <3>2, <3>3, RemovedTable
  <2> QED
      BY <2>1, <2>2
<1> HIDE DEF in
<1>5. /\ Cardinality(Listed(in)) \in Nat
      /\ in.queued \in Seq(Sessions) /\ Len(in.queued) \in Nat
  <2>1. in \in World
      BY <1>3
  <2>2. in.queued \in Seq(Sessions)
      BY <2>1, WorldFields
  <2> QED
      BY <1>4, <2>1, <2>2, ListedFinite
<1>6. /\ IsFiniteSet(active)
      /\ Cardinality(active) = Cardinality(Listed(in)) - Len(in.queued)
    BY <1>3, <1>4, ActiveCount DEF LeftQueue
<1>7. IsActive(in, s) /\ ~IsActive(w, s)
  <2>1. IsListed(in, s)
      BY <1>2, <1>3 DEF IsListed
  <2>2. ~InQueue(in, s)
      BY <1>3, <1>5 DEF LeftQueue, InQueue, ToSet
  <2> QED
      BY <2>1, <2>2 DEF MayEnter, IsActive
<1>8. /\ IsFiniteSet(active \ {s})
      /\ Cardinality(active \ {s}) = Cardinality(Listed(in)) - 1 - Len(in.queued)
  <2>1. s \in active
      BY <1>7
  <2> HIDE DEF active
  <2>2. /\ IsFiniteSet(active \ {s})
        /\ Cardinality(active \ {s}) = Cardinality(active) - 1
      BY <1>6, <2>1, FS_RemoveElement
  <2> QED
      BY <1>5, <1>6, <2>2
<1>9. ASSUME NEW t \in Sessions, t # s, ~IsActive(w, t), IsActive(in, t)
      PROVE  Cardinality(active \ {s}) <= Limit
  <2>1. Account[t] \in Accounts /\ IsListed(in, t)
      BY <1>9, SessionsAssumption DEF IsActive
  <2>2. Account[t] # a /\ IsListed(w, t)
      BY <1>3, <1>9, <2>1 DEF IsListed
  <2>3. InQueue(w, t) /\ ~InQueue(in, t)
      BY <1>9, <2>2 DEF IsActive
  <2>4. old # None /\ t # old
      BY <1>2, <1>3, <2>2, <2>3 DEF InQueue, TableSound
  <2>5. Cardinality(Listed(in)) - 1 - Len(in.queued) <= Limit
      BY <1>3, <2>3, <2>4 DEF FirstIn
  <2> QED
      BY <1>8, <2>5
<1>10. ASSUME Counted(w, n) \subseteq active \ {s}, Cardinality(active \ {s}) <= Limit
       PROVE  Cardinality(Counted(w, n)) <= Limit
  <2> HIDE DEF active, n
  <2>1. /\ Cardinality(Counted(w, n)) <= Cardinality(active \ {s})
        /\ Cardinality(Counted(w, n)) \in Nat /\ Cardinality(active \ {s}) \in Nat
      BY <1>8, <1>10, FS_Subset, FS_CardinalityType
  <2> QED
      BY <1>2, <1>10, <2>1
<1>11. CASE waits
  <2>1. n = AddQueuedPlayer(in, s)
      BY <1>11
  <2> HIDE DEF n, waits, others
  <2>2. n.sessions = in.sessions /\ n.queued = Append(in.queued, s)
      BY <1>3, <2>1 DEF AddQueuedPlayer, World
  <2>3. \A t \in Sessions : InQueue(n, t) <=> InQueue(in, t) \/ t = s
    <3> DEFINE q == in.queued
               r == Append(q, s)
    <3>1. /\ DOMAIN q = 1 .. Len(q) /\ DOMAIN r = 1 .. Len(q) + 1
          /\ \A i \in DOMAIN q : i \in DOMAIN r /\ r[i] = q[i]
          /\ r[Len(q) + 1] = s /\ Len(q) + 1 \in DOMAIN r
          /\ \A i \in DOMAIN r : i \in DOMAIN q \/ i = Len(q) + 1
        BY <1>5
    <3> HIDE DEF r
    <3>2. \A t \in Sessions : t \in ToSet(r) <=> t \in ToSet(q) \/ t = s
        BY <3>1 DEF ToSet
    <3> QED
        BY <2>2, <3>2 DEF InQueue, r
  <2>4. \A t \in Sessions : IsActive(n, t) => IsActive(in, t) /\ t # s
      BY <2>2, <2>3 DEF IsActive, IsListed
  <2>5. Counted(w, n) \subseteq active \ {s}
      BY <2>4 DEF Counted
  <2>6. ASSUME NEW t \in Sessions, ~IsActive(w, t), IsActive(n, t)
        PROVE  Cardinality(Counted(w, n)) <= Limit
      BY <1>9, <1>10, <2>4, <2>5, <2>6
  <2> QED
      BY <1>1, <2>6 DEF Admits
<1>12. CASE ~waits /\ Rightful(w, s)
  <2>1. n = in
      BY <1>12
  <2>2. Counted(w, n) \subseteq active \ {s}
      BY <1>7, <1>12, <2>1 DEF Counted
  <2> HIDE DEF n, waits, others
  <2>3. ASSUME NEW t \in Sessions, t # s, ~IsActive(w, t), IsActive(n, t)
        PROVE  Cardinality(Counted(w, n)) <= Limit
      BY <1>9, <1>10, <2>1, <2>2, <2>3
  <2> QED
      BY <1>1, <1>12, <2>3 DEF Admits
<1>13. CASE ~waits /\ ~Rightful(w, s)
  <2>1. n = in /\ others < Limit
    <3>1. s \notin Exempt /\ a \notin in.disconnects
        BY <1>3, <1>13 DEF Rightful
    <3>2. others \in Int
        BY <1>5
    <3>3. ~(others >= Limit)
        BY <1>13, <3>1
    <3> QED
        BY <1>2, <1>13, <3>2, <3>3
  <2>2. Cardinality(active) <= Limit
      BY <1>2, <1>5, <1>6, <2>1
  <2>3. Counted(w, n) \subseteq active
      BY <2>1 DEF Counted
  <2> HIDE DEF n, waits, others, active
  <2>4. /\ Cardinality(Counted(w, n)) <= Cardinality(active)
        /\ Cardinality(Counted(w, n)) \in Nat /\ Cardinality(active) \in Nat
      BY <1>6, <2>3, FS_Subset, FS_CardinalityType
  <2> QED
      BY <1>1, <1>2, <2>2, <2>4 DEF Admits
<1> QED
    BY <1>11, <1>12, <1>13

(* AddSession_ lets in whom Admitted lets in.                              *)
LEMMA AddedAdmits ==
    ASSUME NEW w \in World, TableWorld(w), NEW s \in Sessions, MayEnter(w, s), Limit > 0
    PROVE  Admits(w, AddSession_(w, s))
<1>1. CASE AddSession_(w, s) = Delete(KickPlayer(w, s), s)
  <2>1. Refused(w, AddSession_(w, s), s)
      BY <1>1, RefusedFacts DEF TableWorld
  <2> QED
      BY <2>1, NobodyAdmitted DEF Refused
<1>2. CASE AddSession_(w, s) = Admitted(w, s)
    BY <1>2, AdmittedAdmits
<1> QED
    BY <1>1, <1>2 DEF AddSession_

(* The first connection is held by its session as long as it is open.      *)
RealmsHeld(w) == \A s \in Sessions : IsOpen(w, Realm(s)) => w.ses[s].realm

(* No session lets a first connection go that stays open.                  *)
RealmsLess(w, n) ==
    \A s \in Sessions :
        IsOpen(n, Realm(s)) => IsOpen(w, Realm(s)) /\ (w.ses[s].realm => n.ses[s].realm)

(* Nobody gets in, and no first connection gets lost.                      *)
Orderly(w, n) == SameTable(w, n) /\ RealmsLess(w, n)

(* Such a change keeps the connections held.                               *)
LEMMA RealmsKept ==
    ASSUME NEW w, NEW n, RealmsHeld(w), RealmsLess(w, n)
    PROVE  RealmsHeld(n)
    BY DEF RealmsHeld, RealmsLess

(* First connections are connections.                                      *)
LEMMA RealmType == \A s \in Sessions : Realm(s) \in Sockets
    BY SessionsAssumption DEF Realm, Sockets

(* A quiet change is orderly,                                              *)
LEMMA QuietOrderly ==
    ASSUME NEW w, NEW n, Quiet(w, n)
    PROVE  Orderly(w, n)
    BY RealmType DEF Quiet, SameSession, SocketsLess, Orderly, RealmsLess

(* and so is a step for one session that does not let its connection go.   *)
LEMMA TouchesOrderly ==
    ASSUME NEW w, NEW n, NEW s \in Sessions, Touches(w, n, s),
           n.sock = w.sock \/ SocketsLess(w, n),
           n.ses[s].realm = w.ses[s].realm \/ ~IsOpen(n, Realm(s)) \/ ~w.ses[s].realm
    PROVE  Orderly(w, n)
<1>1. \A t \in Sessions : IsOpen(n, Realm(t)) => IsOpen(w, Realm(t))
    BY RealmType DEF SocketsLess, IsOpen
<1>2. \A t \in Sessions : t # s => n.ses[t] = w.ses[t]
    BY DEF Touches
<1> QED
    BY <1>1, <1>2 DEF Orderly, RealmsLess, Touches

(* Two such changes add up.                                                *)
LEMMA OrderlyTwice ==
    ASSUME NEW w, NEW m, NEW n, Orderly(w, m), Orderly(m, n)
    PROVE  Orderly(w, n)
    BY DEF Orderly, SameTable, RealmsLess

(* So are the second connections, and a session that is handed over,       *)
LEMMA SameSocketsOrderly ==
    ASSUME NEW w, NEW n, SameTable(w, n),
           \A s \in Sessions : /\ n.ses[s].realm = w.ses[s].realm
                               /\ n.sock[Realm(s)].state = w.sock[Realm(s)].state
    PROVE  Orderly(w, n)
    BY DEF Orderly, RealmsLess, IsOpen

(* a log out,                                                              *)
LEMMA LogoutOrderly ==
    ASSUME NEW w \in World, TableWorld(w), NEW s \in Sessions, IsListed(w, s)
    PROVE  Orderly(w, LogoutPlayer(w, s))
<1> DEFINE n == LogoutPlayer(w, s)
<1>1. w.ses[s].player => w.players[Account[s]] > 0
    BY ListedPlayer
<1>2. n.ses[s].realm = w.ses[s].realm /\ SocketsLess(w, n)
    BY <1>1, LogoutFacts
<1>3. Touches(w, n, s)
    BY LogoutTable
<1> HIDE DEF n
<1> QED
    BY <1>2, <1>3, TouchesOrderly DEF n

(* what is let go,                                                         *)
LEMMA ExpiredOrderly ==
    ASSUME NEW w \in World, NEW s \in Sessions, NEW over \in BOOLEAN
    PROVE  Orderly(w, Expire(w, s, over))
<1>1. CASE Expire(w, s, over) = w
    BY <1>1 DEF Orderly, SameTable, RealmsLess
<1>2. CASE Expire(w, s, over) = Freed(w, s)
  <2> DEFINE n == Freed(w, s)
  <2>1. /\ Touches(w, n, s) /\ SocketsLess(w, n)
        /\ \A k \in Held(w, s) : k \in Sockets => ~IsOpen(n, k)
      BY FreedFacts
  <2> HIDE DEF n
  <2>2. w.ses[s].realm => ~IsOpen(n, Realm(s))
      BY <2>1, RealmType DEF Held, RealmHeld
  <2>3. Orderly(w, n)
      BY <2>1, <2>2, TouchesOrderly, SessionFields DEF World
  <2> QED
      BY <1>2, <2>3 DEF n
<1> QED
    BY <1>1, <1>2, ExpiredFacts

(* what an update handles,                                                 *)
LEMMA HandledOrderly ==
    ASSUME NEW w \in World, TableWorld(w), NEW s \in Sessions, IsListed(w, s)
    PROVE  Orderly(w, Handled(w, s))
<1> DEFINE taken == IF w.ses[s].realm
                    THEN [w EXCEPT !.ses[s].wants = "nothing"] ELSE w
           n == Handled(w, s)
<1>1. Quiet(w, taken)
  <2>1. CASE w.ses[s].realm
      BY <2>1, WantsQuiet
  <2>2. CASE ~w.ses[s].realm
      BY <2>2 DEF Quiet, SameTable, SameData, SameSession, SocketsLess
  <2> QED
      BY <2>1, <2>2
<1>2. \/ n = taken
      \/ /\ n = HandlePlayerLoginOpcode(taken, s)
         /\ w.ses[s].keys < MaxKeys \/ w.ses[s].loading \/ w.ses[s].player
      \/ n = LogoutPlayer(taken, s)
    BY DEF Handled
<1> HIDE DEF taken, n
<1>3. taken \in World /\ TableWorld(taken) /\ Orderly(w, taken)
    BY <1>1, QuietTable, QuietStays, QuietOrderly
<1>4. IsListed(taken, s) /\ SameSession(w.ses[s], taken.ses[s])
    BY <1>1 DEF Quiet, SameTable, IsListed
<1>5. CASE n = taken
    BY <1>3, <1>5 DEF n
<1>6. CASE n = HandlePlayerLoginOpcode(taken, s)
           /\ (w.ses[s].keys < MaxKeys \/ w.ses[s].loading \/ w.ses[s].player)
  <2>1. CASE taken.ses[s].loading \/ taken.ses[s].player
    <3>1. n = KickPlayer(taken, s)
        BY <1>6, <2>1 DEF HandlePlayerLoginOpcode
    <3>2. Orderly(taken, n)
        BY <1>3, <3>1, KickQuiet, QuietOrderly
    <3> QED
        BY <1>3, <3>2, OrderlyTwice DEF n
  <2>2. CASE ~(taken.ses[s].loading \/ taken.ses[s].player)
    <3>1. n = SendConnectToInstance([taken EXCEPT !.ses[s].loading = TRUE], s)
        BY <1>6, <2>2 DEF HandlePlayerLoginOpcode
    <3>2. taken.ses[s].keys < MaxKeys
        BY <1>4, <1>6, <2>2 DEF SameSession
    <3>3. /\ Touches(taken, n, s) /\ n.sock = taken.sock
          /\ n.ses[s].realm = taken.ses[s].realm
        BY <1>3, <3>1, <3>2, LoginBeginsFacts
    <3>4. Orderly(taken, n)
        BY <3>3, TouchesOrderly
    <3> QED
        BY <1>3, <3>4, OrderlyTwice DEF n
  <2> QED
      BY <2>1, <2>2
<1>7. CASE n = LogoutPlayer(taken, s)
  <2>1. Orderly(taken, n)
      BY <1>3, <1>4, <1>7, LogoutOrderly
  <2> QED
      BY <1>3, <2>1, OrderlyTwice DEF n
<1> QED
    BY <1>2, <1>5, <1>6, <1>7

(* a connection that joins its session,                                    *)
LEMMA ConnectionOrderly ==
    ASSUME NEW w \in World, NEW k \in Sockets
    PROVE  Orderly(w, HandleContinuePlayerLogin(Joined(w, k), k[1]))
<1> DEFINE s == k[1]
           m == Joined(w, k)
           n == HandleContinuePlayerLogin(m, s)
<1>0. s \in Sessions
    BY DEF Sockets
<1>1. /\ Touches(w, m, s) /\ m.ses[s].realm = w.ses[s].realm
      /\ \A c \in Sockets : m.sock[c].state = w.sock[c].state
    BY JoinedFacts
<1>2. \/ n = KickPlayer(m, s)
      \/ n = [m EXCEPT !.db = Append(@, QueryTask(s))]
    BY DEF HandleContinuePlayerLogin, QueryTask
<1> HIDE DEF m, n
<1>3. Orderly(w, m)
  <2>1. \A t \in Sessions : m.ses[t].realm = w.ses[t].realm
      BY <1>1 DEF Touches
  <2> QED
      BY <1>1, <2>1, RealmType, SameSocketsOrderly DEF Touches
<1>4. Orderly(m, n)
  <2>0. m \in World
      BY <1>1 DEF Touches
  <2>1. CASE n = KickPlayer(m, s)
      BY <2>0, <2>1, KickQuiet, QuietOrderly
  <2>2. CASE n = [m EXCEPT !.db = Append(@, QueryTask(s))]
    <3>1. n = Posted(m, QueryTask(s)) /\ QueryTask(s) \in Task
        BY <1>0, <2>0, <2>2, QueryTaskType
    <3>2. n.ses = m.ses /\ n.sock = m.sock /\ SameTable(m, n)
        BY <2>0, <3>1, PostedFacts DEF SameTable
    <3> QED
        BY <3>2, SameSocketsOrderly
  <2> QED
      BY <1>2, <2>1, <2>2
<1> QED
    BY <1>3, <1>4, OrderlyTwice DEF m, n

(* and what the answer of a query does.                                    *)
LEMMA AnsweredOrderly ==
    ASSUME NEW w \in World, NEW s \in Sessions, w.ses[s].loaded # <<>>,
           NEW n, n = HandlePlayerLogin(w, s) \/ n = HandlePlayerLoginFailed(w, s)
    PROVE  Orderly(w, n)
<1>1. CASE n = HandlePlayerLogin(w, s)
  <2>1. Touches(w, n, s) /\ n.sock = w.sock /\ n.ses[s].realm = w.ses[s].realm
      BY <1>1, HandleLoginFacts
  <2> QED
      BY <2>1, TouchesOrderly
<1>2. CASE n = HandlePlayerLoginFailed(w, s)
  <2>1. Touches(w, n, s) /\ SocketsLess(w, n) /\ n.ses[s].realm = w.ses[s].realm
      BY <1>2, LoginFailedFacts
  <2> QED
      BY <2>1, TouchesOrderly
<1> QED
    BY <1>1, <1>2

(* A session that goes has closed its connection.                          *)
LEMMA RemovedRealms ==
    ASSUME NEW w \in World, NEW n, NEW s \in Sessions, NEW x, Removed(w, n, s, x)
    PROVE  RealmsLess(w, n)
<1>1. \A t \in Sessions : IsOpen(n, Realm(t)) => IsOpen(w, Realm(t))
    BY RealmType DEF Removed, SocketsLess
<1>2. \A t \in Sessions : t # s => n.ses[t].realm = w.ses[t].realm
    BY DEF Removed, Alike
<1>3. w.ses[s].realm => ~IsOpen(n, Realm(s))
    BY RealmType DEF Removed, Held, RealmHeld
<1> QED
    BY <1>1, <1>2, <1>3 DEF RealmsLess

(* AddSession_ lets no connection go.                                      *)
LEMMA AddedRealms ==
    ASSUME NEW w \in World, TableWorld(w), NEW s \in Sessions, MayEnter(w, s)
    PROVE  RealmsLess(w, AddSession_(w, s))
<1> DEFINE n == AddSession_(w, s)
           old == w.sessions[Account[s]]
<1>1. n = Delete(KickPlayer(w, s), s) \/ n = Admitted(w, s)
    BY DEF AddSession_
<1> HIDE DEF n
<1>2. CASE n = Delete(KickPlayer(w, s), s)
  <2>1. Refused(w, n, s)
      BY <1>2, RefusedFacts DEF TableWorld
  <2>2. \A t \in Sessions : IsOpen(n, Realm(t)) => IsOpen(w, Realm(t))
      BY <2>1, RealmType DEF Refused, SocketsLess
  <2>3. \A t \in Sessions : t # s => n.ses[t].realm = w.ses[t].realm
      BY <2>1 DEF Refused
  <2>4. w.ses[s].realm => ~IsOpen(n, Realm(s))
      BY <2>1, RealmType DEF Refused, Held, RealmHeld
  <2> QED
      BY <2>2, <2>3, <2>4 DEF RealmsLess, n
<1>3. CASE n = Admitted(w, s)
  <2>1. IF old = None THEN Entered(w, n, s) ELSE Removed(w, n, old, s)
      BY <1>3, AdmittedFacts
  <2>2. CASE old = None
    <3>1. Entered(w, n, s)
        BY <2>1, <2>2
    <3> QED
        BY <3>1 DEF Entered, Alike, RealmsLess, IsOpen, n
  <2>3. CASE old # None
    <3>1. old \in Sessions
        BY <2>3, SessionsAssumption, ListedSessions DEF TableWorld
    <3> QED
        BY <2>1, <2>3, <3>1, RemovedRealms DEF n
  <2> QED
      BY <2>2, <2>3
<1> QED
    BY <1>1, <1>2, <1>3

-----------------------------------------------------------------------------
(* Every action lets in whom it may.                                       *)

AdmitsNext == RealmsHeld(world') /\ Admits(world, world')

(* An orderly step does.                                                   *)
LEMMA OrderlyStep ==
    ASSUME RealmsHeld(world), Orderly(world, world')
    PROVE  AdmitsNext
    BY RealmsKept, NobodyAdmitted DEF AdmitsNext, Orderly

(* A step that leaves the world alone does.                                *)
LEMMA SameStep ==
    ASSUME RealmsHeld(world), world' = world
    PROVE  AdmitsNext
    BY OrderlyStep DEF Orderly, SameTable, RealmsLess

(* A session gets its first connection when it comes to life.              *)
LEMMA AuthAdmits ==
    ASSUME TableInv, RealmsHeld(world), NEW s \in Sessions, HandleAuthSessionCallback(s)
    PROVE  AdmitsNext
<1>1. world' = Authenticated(world, s) /\ world \in World
    BY TableParts DEF HandleAuthSessionCallback, ChangesWorld, Authenticated
<1>2. /\ SameTable(world, world')
      /\ \A t \in Sessions : t # s => world'.ses[t] = world.ses[t]
      /\ world'.ses[s].realm
      /\ \A k \in Sockets : k # Realm(s) => world'.sock[k] = world.sock[k]
    BY <1>1, AuthenticatedFacts
<1>3. \A t \in Sessions : t # s => Realm(t) # Realm(s)
    BY DEF Realm
<1>4. RealmsHeld(world')
    BY <1>2, <1>3, RealmType DEF RealmsHeld, IsOpen
<1> QED
    BY <1>2, <1>4, NobodyAdmitted DEF AdmitsNext


(* What the network threads do to the world of a session is orderly,       *)
LEMMA NetworkAdmits ==
    ASSUME TableInv, RealmsHeld(world),
           \/ \E s \in Sessions : AddSession(s)
           \/ \E k \in Sockets : AddInstanceSocket(k) \/ QueuePacket(k)
                                    \/ LoseConnection(k)
    PROVE  AdmitsNext
<1>0. world \in World
    BY TableParts
<1>1. ASSUME NEW s \in Sessions, AddSession(s)
      PROVE  Orderly(world, world')
  <2>1. world' = [world EXCEPT !.ses[s].life = "known"]
      BY <1>1 DEF AddSession
  <2>2. /\ SameTable(world, world') /\ world'.sock = world.sock
        /\ \A t \in Sessions : t # s => world'.ses[t] = world.ses[t]
        /\ world'.ses[s].realm = world.ses[s].realm
      BY <1>0, <2>1, KnownFacts
  <2> QED
      BY <2>2, SameSocketsOrderly
<1>2. ASSUME NEW k \in Sockets, AddInstanceSocket(k)
      PROVE  Orderly(world, world')
  <2>1. world' = [world EXCEPT !.sock[k].state = "open"] /\ k[2] # 0
      BY <1>2, SessionsAssumption DEF AddInstanceSocket
  <2>2. /\ SameTable(world, world') /\ world'.ses = world.ses
        /\ \A c \in Sockets : c # k => world'.sock[c] = world.sock[c]
      BY <1>0, <2>1, OpenedFacts
  <2>3. \A t \in Sessions : Realm(t) # k
      BY <2>1 DEF Realm
  <2> QED
      BY <2>2, <2>3, RealmType, SameSocketsOrderly
<1>3. ASSUME NEW k \in Sockets, QueuePacket(k)
      PROVE  Orderly(world, world')
  <2>1. PICK want \in {"login", "logout"} :
            world' = [world EXCEPT !.ses[k[1]].wants = want]
      BY <1>3 DEF QueuePacket, ChangesWorld
  <2>2. k[1] \in Sessions
      BY DEF Sockets
  <2> QED
      BY <1>0, <2>1, <2>2, WantsQuiet, QuietOrderly
<1>4. ASSUME NEW k \in Sockets, LoseConnection(k)
      PROVE  Orderly(world, world')
    BY <1>0, <1>4, CloseQuiet, QuietOrderly DEF LoseConnection, ChangesWorld
<1> QED
    BY <1>1, <1>2, <1>3, <1>4, OrderlyStep

(* and so is HandleConnectToFailed.                                        *)
LEMMA ConnectFailedAdmits ==
    ASSUME TableInv, RealmsHeld(world), NEW k \in Sockets, HandleConnectToFailed(k)
    PROVE  AdmitsNext
<1> DEFINE s == k[1]
<1>0. s \in Sessions /\ world \in World
    BY TableParts DEF Sockets
<1>1. world' = IF world.ses[s].keys < MaxKeys
               THEN SendConnectToInstance(world, s)
               ELSE AbortLogin(world, s)
    BY DEF HandleConnectToFailed, ChangesWorld
<1> HIDE DEF s
<1>2. CASE world.ses[s].keys < MaxKeys
    BY <1>0, <1>1, <1>2, SendConnectFacts, TouchesOrderly, OrderlyStep
<1>3. CASE world' = KickPlayer(world, s)
    BY <1>0, <1>3, KickQuiet, QuietOrderly, OrderlyStep
<1>4. CASE world' = [world EXCEPT !.ses[s].loading = FALSE]
    BY <1>0, <1>4, LoginEndsFacts, TouchesOrderly, OrderlyStep
<1> QED
    BY <1>1, <1>2, <1>3, <1>4 DEF AbortLogin

(* The database worker lets nobody in,                                     *)
LEMMA ExecuteAdmits ==
    ASSUME TableInv, RealmsHeld(world), Execute
    PROVE  AdmitsNext
<1> DEFINE task == world.db[1]
           s == task.of
           m == [world EXCEPT !.db = Tail(world.db)]
<1>0. world \in World
    BY TableParts
<1>1. world.db # <<>> /\ world' = AfterTask(world)
    BY DEF Execute, ChangesWorld, AfterTask
<1>2. Executed(world, world')
    BY <1>0, <1>1, ExecutedFacts
<1>3. /\ SameTable(world, world') /\ world'.sock = world.sock
      /\ \A t \in Sessions : world'.ses[t].realm = world.ses[t].realm
  <2>1. /\ SameTable(world, world') /\ world'.sock = world.sock
        /\ \A t \in Sessions :
             t # s \/ task.save \/ world.ses[s].life # "known" =>
                world'.ses[t] = world.ses[t]
        /\ ~task.save /\ world.ses[s].life = "known" =>
             world'.ses[s].realm = world.ses[s].realm
      BY <1>2 DEF Executed
  <2> HIDE DEF task
  <2> QED
      BY <2>1
<1> QED
    BY <1>3, SameSocketsOrderly, OrderlyStep

(* nor do the parts of UpdateSessions that neither add nor remove,         *)
LEMMA UpdateAdmits ==
    ASSUME TableInv, RealmsHeld(world),
           \/ StartUpdate \/ ProcessLinkInstanceSocket \/ AddInstanceConnection
           \/ LinksDone \/ AddsDone \/ ProcessQueryCallbacks
           \/ \E a \in Accounts : UpdateSession(a)
    PROVE  AdmitsNext
<1>0. world \in World /\ TableWorld(world) /\ UpdateSound
    BY TableParts
<1>1. CASE StartUpdate \/ LinksDone \/ AddsDone
    BY <1>1, SameStep DEF StartUpdate, LinksDone, AddsDone
<1>2. CASE ProcessLinkInstanceSocket
  <2>1. \/ world' = world
        \/ world' = Close(world, {Head(linkQueue)})
      BY <1>2 DEF ProcessLinkInstanceSocket
  <2> QED
      BY <1>0, <2>1, SameStep, CloseQuiet, QuietOrderly, OrderlyStep
<1>3. CASE AddInstanceConnection
  <2>1. /\ current \in Sockets
        /\ world' = HandleContinuePlayerLogin(Joined(world, current), current[1])
      BY <1>0, <1>3 DEF AddInstanceConnection, Joined, UpdateSound
  <2> QED
      BY <1>0, <2>1, ConnectionOrderly, OrderlyStep
<1>4. CASE ProcessQueryCallbacks
  <2>1. /\ current \in Sessions
        /\ \/ /\ ~InQueue(world, current)
              /\ world' = InitializeSessionCallback(world, current)
           \/ /\ world.ses[current].loaded # <<>>
              /\ \/ world' = HandlePlayerLogin(world, current)
                 \/ world' = HandlePlayerLoginFailed(world, current)
      BY <1>0, <1>4 DEF ProcessQueryCallbacks, UpdateSound
  <2>2. CASE /\ ~InQueue(world, current)
             /\ world' = InitializeSessionCallback(world, current)
      BY <1>0, <2>1, <2>2, InitializedFacts, TouchesOrderly, OrderlyStep
  <2>3. CASE /\ world.ses[current].loaded # <<>>
             /\ \/ world' = HandlePlayerLogin(world, current)
                \/ world' = HandlePlayerLoginFailed(world, current)
      BY <1>0, <2>1, <2>3, AnsweredOrderly, OrderlyStep
  <2> QED
      BY <2>1, <2>2, <2>3
<1>5. ASSUME NEW a \in Accounts, UpdateSession(a)
      PROVE  AdmitsNext
  <2> DEFINE s == FindSession(world, a)
  <2>1. phase = "update" /\ a \in todo /\ world' = Handled(world, s)
      BY <1>5 DEF UpdateSession
  <2>2. s \in Sessions /\ IsListed(world, s)
      BY <1>0, <2>1, ListedSessions DEF UpdateSound, Listed, FindSession, TableWorld
  <2> HIDE DEF s
  <2> QED
      BY <1>0, <2>1, <2>2, HandledOrderly, OrderlyStep
<1> QED
    BY <1>1, <1>2, <1>3, <1>4, <1>5

(* nor what happens between two updates, as long as not all are kicked.    *)
LEMMA BetweenAdmits ==
    ASSUME TableInv, RealmsHeld(world), NEW a \in Accounts,
           Play(a) \/ Save(a) \/ Kick(a) \/ ToleranceEnds(a)
    PROVE  AdmitsNext
<1> DEFINE s == FindSession(world, a)
<1>0. world \in World /\ TableWorld(world)
    BY TableParts
<1>1. s # None => s \in Sessions
    BY <1>0, ListedSessions DEF FindSession, TableWorld
<1>2. CASE Play(a)
  <2>1. /\ s # None /\ progress[a] < MaxProgress
        /\ progress' = [progress EXCEPT ![a] = @ + 1]
        /\ world' = [world EXCEPT !.ses[s].at = progress'[a]]
      BY <1>2 DEF Play, Between
  <2>2. progress'[a] \in 0 .. MaxProgress
      BY <2>1, TableParts, SessionsAssumption
  <2> HIDE DEF s
  <2> QED
      BY <1>0, <1>1, <2>1, <2>2, PlayFacts, TouchesOrderly, OrderlyStep
<1>3. CASE Save(a)
  <2>1. s # None /\ world' = SaveToDB(world, s)
      BY <1>3 DEF Save, Between
  <2> HIDE DEF s
  <2>2. SaveTask(world, s) \in Task /\ world' = Posted(world, SaveTask(world, s))
      BY <1>0, <1>1, <2>1, SaveTaskType
  <2>3. world'.ses = world.ses /\ world'.sock = world.sock /\ SameTable(world, world')
      BY <1>0, <2>2, PostedFacts DEF SameTable
  <2> QED
      BY <2>3, SameSocketsOrderly, OrderlyStep
<1>4. CASE Kick(a)
  <2>1. world' = KickPlayer(world, s)
      BY <1>4 DEF Kick, Between
  <2> QED
      BY <1>0, <2>1, KickQuiet, QuietOrderly, OrderlyStep
<1>5. CASE ToleranceEnds(a)
  <2>1. world' = [world EXCEPT !.disconnects = world.disconnects \ {a}]
      BY <1>5 DEF ToleranceEnds, Between
  <2>2. world.disconnects \ {a} \in SUBSET Accounts
      BY <1>0, WorldFields
  <2> QED
      BY <1>0, <2>1, <2>2, DisconnectsQuiet, QuietOrderly, OrderlyStep
<1> QED
    BY <1>2, <1>3, <1>4, <1>5

(* KickAll lets in those who have waited, and closes their connections.    *)
LEMMA KickAllAdmits ==
    ASSUME TableInv, RealmsHeld(world), KickAll
    PROVE  AdmitsNext
<1> DEFINE socks == UNION {Held(world, FindSession(world, a)) : a \in Listed(world)}
<1>0. world \in World /\ TableWorld(world)
    BY TableParts
<1>1. world' = Close([world EXCEPT !.queued = <<>>], socks)
    BY DEF KickAll, Between
<1> HIDE DEF socks
<1>2. /\ world'.sessions = world.sessions /\ world'.ses = world.ses
      /\ SocketsLess(world, world')
      /\ \A k \in Sockets : k \in socks => ~IsOpen(world', k)
    BY <1>0, <1>1, KickedAllFacts
<1>3. RealmsLess(world, world')
    BY <1>2, RealmType DEF RealmsLess, SocketsLess
<1>4. ASSUME NEW s \in Sessions, ~IsActive(world, s), IsActive(world', s)
      PROVE  ~IsOpen(world', Realm(s))
  <2>1. IsListed(world, s)
      BY <1>2, <1>4 DEF IsActive, IsListed
  <2>2. Account[s] \in Listed(world) /\ FindSession(world, Account[s]) = s
      BY <2>1, SessionsAssumption DEF Listed, IsListed, FindSession
  <2>3. CASE world.ses[s].realm
    <3>1. Realm(s) \in Held(world, s)
        BY <2>3 DEF Held, RealmHeld
    <3>2. Realm(s) \in socks
        BY <2>2, <3>1 DEF socks
    <3> QED
        BY <1>2, <3>2, RealmType
  <2>4. CASE ~world.ses[s].realm
      BY <1>3, <2>4 DEF RealmsHeld, RealmsLess
  <2> QED
      BY <2>3, <2>4
<1> QED
    BY <1>3, <1>4, RealmsKept DEF AdmitsNext, Admits

(* AddSession_ lets the new session in, and one that waits for the old.    *)
LEMMA AddSessionsAdmits ==
    ASSUME TableInv, RealmsHeld(world), AddSessions, Limit > 0
    PROVE  AdmitsNext
<1> DEFINE s == Head(addSessQueue)
<1>0. world \in World /\ TableWorld(world) /\ AddsSound /\ addSessQueue \in Seq(Sessions)
    BY TableParts
<1>1. addSessQueue # <<>> /\ world' = AddSession_(world, s)
    BY DEF AddSessions
<1>2. 1 \in DOMAIN addSessQueue /\ s = addSessQueue[1] /\ s \in Sessions
    BY <1>0, <1>1
<1> HIDE DEF s
<1>3. MayEnter(world, s)
    BY <1>0, <1>2 DEF AddsSound, MayEnter
<1> QED
    BY <1>0, <1>1, <1>2, <1>3, AddedAdmits, AddedRealms, RealmsKept DEF AdmitsNext

(* CleanUp lets in one for the session that it deletes.                    *)
LEMMA CleanUpAdmits ==
    ASSUME TableInv, RealmsHeld(world), NEW over \in BOOLEAN, CleanUp(over)
    PROVE  AdmitsNext
<1> DEFINE e == Expire(world, current, over)
<1>0. world \in World /\ TableWorld(world) /\ UpdateSound
    BY TableParts
<1>1. phase = "callbacks" /\ (world' = e \/ world' = RemoveUpdated(e, current))
    BY DEF CleanUp
<1>2. current \in Sessions /\ IsListed(world, current)
    BY <1>0, <1>1 DEF UpdateSound
<1>3. e \in World /\ TableWorld(e) /\ Orderly(world, e)
    BY <1>0, <1>2, ExpiredTable, ExpiredOrderly
<1>4. e.disconnects = world.disconnects
  <2>1. CASE e = world
      BY <2>1
  <2>2. CASE e = Freed(world, current)
    <3> DEFINE c == Close(world, Held(world, current))
    <3>1. c \in World /\ c.disconnects = world.disconnects
        BY <1>0, CloseFacts
    <3>2. Freed(world, current)
            = [c EXCEPT !.ses[current].realm = FALSE, !.ses[current].instance = 0]
        BY DEF Freed
    <3> HIDE DEF c
    <3>3. Freed(world, current).disconnects = c.disconnects
        BY <3>1, <3>2 DEF World
    <3> QED
        BY <2>2, <3>1, <3>3
  <2> QED
      BY <1>0, <1>2, <2>1, <2>2, ExpiredFacts
<1> HIDE DEF e
<1>5. IsListed(e, current)
    BY <1>2, <1>3 DEF Orderly, SameTable, IsListed
<1>6. CASE world' = e
    BY <1>3, <1>6, OrderlyStep
<1>7. CASE world' = RemoveUpdated(e, current)
  <2>1. Removed(e, world', current, None)
      BY <1>2, <1>3, <1>5, <1>7, RemoveUpdatedFacts DEF TableWorld
  <2>2. RealmsHeld(world')
      BY <1>2, <1>3, <2>1, RemovedRealms, RealmsKept DEF Orderly
  <2>3. Admits(e, world')
      BY <1>2, <1>3, <1>5, <1>7, RemoveUpdatedAdmits
  <2>4. \A t \in Sessions : /\ IsActive(e, t) <=> IsActive(world, t)
                            /\ Rightful(e, t) <=> Rightful(world, t)
      BY <1>3, <1>4 DEF Orderly, SameTable, IsActive, IsListed, InQueue, Rightful
  <2>5. Counted(e, world') = Counted(world, world')
      BY <2>4 DEF Counted
  <2> QED
      BY <2>2, <2>3, <2>4, <2>5 DEF AdmitsNext, Admits
<1> QED
    BY <1>1, <1>6, <1>7

(* So does every step.                                                     *)
LEMMA AdmitsStep ==
    ASSUME TableInv, RealmsHeld(world), [Next]_vars, Limit > 0
    PROVE  AdmitsNext
<1>1. CASE UNCHANGED vars
    BY <1>1, SameStep DEF vars
<1>2. CASE UpdateSessions
    BY <1>2, UpdateAdmits, AddSessionsAdmits, CleanUpAdmits DEF UpdateSessions
<1>3. CASE Execute
    BY <1>3, ExecuteAdmits
<1>4. CASE KickAll
    BY <1>4, KickAllAdmits
<1>5. ASSUME NEW s \in Sessions, HandleAuthSessionCallback(s) \/ AddSession(s)
      PROVE  AdmitsNext
    BY <1>5, AuthAdmits, NetworkAdmits
<1>6. ASSUME NEW k \in Sockets,
             \/ AddInstanceSocket(k) \/ QueuePacket(k) \/ HandleConnectToFailed(k)
             \/ LoseConnection(k)
      PROVE  AdmitsNext
    BY <1>6, NetworkAdmits, ConnectFailedAdmits
<1>7. ASSUME NEW a \in Accounts, Play(a) \/ Save(a) \/ Kick(a) \/ ToleranceEnds(a)
      PROVE  AdmitsNext
    BY <1>7, BetweenAdmits
<1> QED
    BY <1>1, <1>2, <1>3, <1>4, <1>5, <1>6, <1>7 DEF Next

(* Who is in the range of m_sessions is listed.                            *)
LEMMA ActiveIsActive ==
    ASSUME NEW w \in World, TableSound(w), NEW s \in Sessions
    PROVE  s \in Range(w.sessions) \ ToSet(w.queued) <=> IsActive(w, s)
<1>1. s \in Range(w.sessions) <=> \E a \in Accounts : w.sessions[a] = s
    BY DEF Range, World
<1>2. s # None /\ Account[s] \in Accounts
    BY SessionsAssumption
<1>3. (\E a \in Accounts : w.sessions[a] = s) <=> IsListed(w, s)
    BY <1>2 DEF TableSound, IsListed
<1> QED
    BY <1>1, <1>3 DEF IsActive, InQueue

(* World::AddSession_ and RemoveQueuedPlayer: who gets in finds room, or   *)
(* has a right to do without.  (A limit of 0 is none.)                     *)
THEOREM AdmissionInOrder ==
    ASSUME Limit > 0
    PROVE  Spec => Admission
<1>1. Init => RealmsHeld(world)
    BY RealmType DEF Init, RealmsHeld, IsOpen
<1>2. TableInv /\ TableInv' /\ RealmsHeld(world) /\ [Next]_vars =>
        /\ RealmsHeld(world)'
        /\ \A s \in Sessions :
            ~Active(s) /\ Active(s)' =>
                \/ Cardinality({t \in Sessions :
                        Active(t)' /\ (Active(t) \/ ~Entitled(t))}) <= Limit
                \/ Entitled(s)
                \/ ~IsOpen(world', Realm(s))
  <2> SUFFICES ASSUME TableInv, TableInv', RealmsHeld(world), [Next]_vars
               PROVE  /\ RealmsHeld(world)'
                      /\ \A s \in Sessions :
                        ~Active(s) /\ Active(s)' =>
                            \/ Cardinality({t \in Sessions :
                                    Active(t)' /\ (Active(t) \/ ~Entitled(t))}) <= Limit
                            \/ Entitled(s)
                            \/ ~IsOpen(world', Realm(s))
      OBVIOUS
  <2>1. RealmsHeld(world') /\ Admits(world, world')
      BY AdmitsStep DEF AdmitsNext
  <2>2. \A s \in Sessions : Active(s) <=> IsActive(world, s)
      BY TableParts, ActiveIsActive DEF TableWorld, Active
  <2>3. \A s \in Sessions : Active(s)' <=> IsActive(world', s)
    <3>1. world' \in World /\ TableSound(world')
        BY DEF TableInv, TypeOK, TableWorld
    <3> QED
        BY <3>1, ActiveIsActive DEF Active
  <2>4. \A s \in Sessions : Entitled(s) <=> Rightful(world, s)
      BY DEF Entitled, Rightful
  <2>5. {t \in Sessions : Active(t)' /\ (Active(t) \/ ~Entitled(t))}
            = Counted(world, world')
      BY <2>2, <2>3, <2>4 DEF Counted
  <2> QED
      BY <2>1, <2>2, <2>3, <2>4, <2>5 DEF Admits
<1>3. Spec => []TableInv
    BY TableInvariant
<1> QED
    BY <1>1, <1>2, <1>3, PTL DEF Spec, Admission
==============================================================================
