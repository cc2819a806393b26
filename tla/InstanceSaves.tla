---------------------------- MODULE InstanceSaves ----------------------------
(***************************************************************************)
(* The copies of a dungeon and who is bound to them                        *)
(* (game/Instances/InstanceSaveMgr.cpp, game/Maps/Map.cpp and              *)
(* MapInstanced.cpp, game/Groups/Group.cpp, game/Entities/Player).  A copy *)
(* has an instance id; an InstanceSave says that its id is taken, and      *)
(* lists the players and groups that are bound to it; an event in          *)
(* m_resetTimeQueue resets it and frees the id.                            *)
(*                                                                         *)
(* The world thread handles the packets of the sessions, has the maps      *)
(* updated, which unloads copies and expels players, and lets the          *)
(* InstanceSaveManager reset what is due.  Each of these is one step.      *)
(*                                                                         *)
(* Abstracted: there is one five man dungeon in its normal difficulty,     *)
(* where no bind is permanent, and at most one party; a far teleport is    *)
(* one step; GenerateInstanceId hands out the lowest free id, which        *)
(* InstanceIds is about; the statements to the database are executed at    *)
(* once and in order, which DatabaseWorkerPool is about; time is left out: *)
(* what is due at some time may happen whenever it is due later, and the   *)
(* two delays of an unload timer are one.  Not modelled: raids, other      *)
(* difficulties and game masters; a restart of the server.                 *)
(***************************************************************************)
EXTENDS Integers, FiniteSetsExt

CONSTANTS
    None,
    Players,
    MaxId,        \* bound: the ids that are handed out
    MaxEvents     \* bound: the events that are queued for one id

ASSUME SavesAssumption ==
    /\ IsFiniteSet(Players) /\ None \notin Players
    /\ MaxId \in Nat \ {0} /\ MaxEvents \in Nat \ {0}

Ids == 1 .. MaxId
NoId == 0                \* no id: outside, or not bound
IdOrNone == Ids \cup {NoId}

VARIABLE world           \* see World

Save ==
    [known : BOOLEAN,            \* in m_instanceSaveById
     players : SUBSET Players,   \* m_playerList
     groups : Nat]               \* the size of m_groupList

World ==
    [online : SUBSET Players,
     at : [Players -> IdOrNone],     \* the copy a player is in, or was saved in
     valid : [Players -> BOOLEAN],   \* m_InstanceValid
     bind : [Players -> IdOrNone],   \* Player::m_boundInstances
     row : [Players -> IdOrNone],    \* the table character_instance
     party : SUBSET Players,
     leader : Players \cup {None},
     gbind : IdOrNone,               \* Group::m_boundInstances
     save : [Ids -> Save],
     stored : SUBSET Ids,            \* the table instance
     copy : [Ids -> {"none", "loaded", "unloading"}],  \* whether m_unloadTimer runs
     used : SUBSET Ids,              \* the ids that MapManager has handed out
     events : [Ids -> 0 .. MaxEvents]]  \* of type 0 in m_resetTimeQueue

NoSave == [known |-> FALSE, players |-> {}, groups |-> 0]

Init ==
    world =
        [online |-> {}, at |-> [p \in Players |-> NoId],
         valid |-> [p \in Players |-> TRUE],
         bind |-> [p \in Players |-> NoId], row |-> [p \in Players |-> NoId],
         party |-> {}, leader |-> None, gbind |-> NoId,
         save |-> [i \in Ids |-> NoSave], stored |-> {},
         copy |-> [i \in Ids |-> "none"],
         used |-> {}, events |-> [i \in Ids |-> 0]]

-----------------------------------------------------------------------------
(* Saves and their lists.                                                  *)

Inside(w, i) == {p \in w.online : w.at[p] = i}   \* HavePlayers

(* The save is dropped when nobody is bound to it and nobody is in its     *)
(* copy; the id stays taken, its event frees it.                           *)
UnloadIfEmpty(w, i) ==
    IF w.save[i].players = {} /\ w.save[i].groups = 0 /\ Inside(w, i) = {}
    THEN [w EXCEPT !.save[i].known = FALSE]
    ELSE w

RemovePlayer(w, i, p) ==
    UnloadIfEmpty([w EXCEPT !.save[i].players = @ \ {p}], i)

RemoveGroup(w, i) == UnloadIfEmpty([w EXCEPT !.save[i].groups = @ - 1], i)

(* With load the save is known from the tables and has its event already.  *)
AddInstanceSave(w, i, load) ==
    IF w.save[i].known THEN w
    ELSE IF load THEN [w EXCEPT !.save[i].known = TRUE]
    ELSE [w EXCEPT !.save[i].known = TRUE, !.stored = @ \cup {i},
                   !.events[i] = @ + 1]

DeleteInstanceFromDB(w, i) ==
    [w EXCEPT !.stored = @ \ {i},
              !.row = [p \in Players |-> IF @[p] = i THEN NoId ELSE @[p]]]

BindPlayer(w, p, i) ==
    [w EXCEPT !.bind[p] = i, !.save[i].players = @ \cup {p}]

BindGroup(w, i) ==
    LET out == IF w.gbind \in {NoId, i} THEN w ELSE RemoveGroup(w, w.gbind)
    IN [out EXCEPT !.gbind = i,
                   !.save[i].groups = IF w.gbind = i THEN @ ELSE @ + 1]

\* A mutant: the save still lists the player.
UnbindInstanceListed(w, p) ==
    LET i == w.bind[p]
    IN IF i = NoId THEN w
       ELSE [w EXCEPT !.bind[p] = NoId,
                      !.row[p] = IF @ = i THEN NoId ELSE @]

UnbindInstance(w, p) ==
    LET i == w.bind[p]
    IN IF i = NoId THEN w
       ELSE RemovePlayer([w EXCEPT !.bind[p] = NoId,
                                   !.row[p] = IF @ = i THEN NoId ELSE @], i, p)

-----------------------------------------------------------------------------
(* Copies.                                                                 *)

SetResetSchedule(w, i, on) ==
    IF Inside(w, i) # {} \/ ~w.save[i].known THEN w
    ELSE [w EXCEPT !.events[i] = IF on THEN @ + 1 ELSE Max({@ - 1, 0})]

(* InstanceMap::Reset: with players inside, it only chooses the delay of   *)
(* the timer that will start when they are gone.                           *)
Reset(w, i) ==
    IF w.copy[i] # "none" /\ Inside(w, i) = {}
    THEN [w EXCEPT !.copy[i] = "unloading"]
    ELSE w

\* A mutant: the timer of an empty copy does not start.
TimerOff(w, i, p) == w.copy[i]

StartTimer(w, i, p) ==
    IF Inside(w, i) = {p} THEN "unloading" ELSE w.copy[i]

\* A mutant: the save is unloaded before the reset is scheduled.
RemoveUnloadsFirst(w, p, out) ==
    LET i == w.at[p]
    IN SetResetSchedule(
        UnloadIfEmpty([out EXCEPT !.copy[i] = StartTimer(w, i, p)], i), i, TRUE)

(* out is w without p in its copy.                                         *)
RemovePlayerFromMap(w, p, out) ==
    LET i == w.at[p]
    IN UnloadIfEmpty(SetResetSchedule(
        [out EXCEPT !.copy[i] = StartTimer(w, i, p)], i, TRUE), i)

(* Out of the dungeon, where every player is valid.                        *)
Leave(w, p) ==
    RemovePlayerFromMap(w, p, [w EXCEPT !.at[p] = NoId, !.valid[p] = TRUE])

(* AddPlayerToMap returns true, and does not assert.                       *)
Accepts(w, p, i) ==
    /\ w.bind[p] \in {NoId, i}
    /\ p \in w.party => w.gbind \in {NoId, i}

AddPlayerToMap(w, p, i) ==
    LET saved == AddInstanceSave(w, i, FALSE)
        bound == IF p \in w.party THEN BindGroup(saved, i)
                 ELSE IF w.bind[p] # NoId THEN saved
                 ELSE [BindPlayer(saved, p, i) EXCEPT !.row[p] = i]
    IN IF ~Accepts(w, p, i) THEN saved
       ELSE [SetResetSchedule(bound, i, FALSE) EXCEPT
                !.at[p] = i, !.copy[i] = "loaded"]

CreateInstance(w, i) ==
    IF w.copy[i] = "none" THEN [w EXCEPT !.copy[i] = "unloading"] ELSE w

(* Where p goes: login is the copy he was saved in, if he logs in there.   *)
CreateInstanceForPlayer(w, p, login) ==
    LET grouped == p \in w.party /\ w.gbind # NoId
        own == IF grouped THEN UnbindInstance(w, p) ELSE w
        known == IF grouped THEN w.gbind ELSE w.bind[p]
        id == IF known # NoId THEN known ELSE Min(Ids \ w.used)
    IN IF login # NoId
       THEN [world |-> w, id |-> IF w.copy[login] = "none" THEN NoId ELSE login]
       ELSE IF known = NoId /\ w.used = Ids
       THEN [world |-> w, id |-> NoId]             \* the bound
       ELSE [world |-> [CreateInstance(own, id) EXCEPT !.used =
                            IF known = NoId THEN @ \cup {id} ELSE @],
             id |-> id]

(* present are the players of the copy.                                    *)
CheckInstanceValidity(w, p, i, present) ==
    \/ i = NoId
    \/ /\ p \in w.party
       /\ w.gbind = i
       /\ \A q \in present : w.valid[q] => q \in w.party
    \/ /\ p \notin w.party
       /\ Cardinality(present) <= 1
       /\ w.bind[p] = i

Validate(w, p) ==
    [w EXCEPT !.valid[p] =
        CheckInstanceValidity(w, p, w.at[p], Inside(w, w.at[p]))]

-----------------------------------------------------------------------------
(* Parties.                                                                *)

PlayerResetInstances(w, p) ==
    LET i == w.bind[p]
    IN IF i = NoId \/ Inside(w, i) # {} THEN w
       ELSE RemovePlayer(
            [DeleteInstanceFromDB(Reset(w, i), i) EXCEPT !.bind[p] = NoId], i, p)

(* On request, or because the party disbands.                              *)
GroupResetInstances(w, disband) ==
    LET i == w.gbind
        empty == Inside(w, i) = {}
        reset == IF empty THEN DeleteInstanceFromDB(Reset(w, i), i) ELSE w
    IN IF i # NoId /\ (empty \/ disband)
       THEN RemoveGroup([reset EXCEPT !.gbind = NoId], i)
       ELSE w

(* A new leader gives up his own bind, unless the party has one he only    *)
(* loses it.                                                               *)
ChangeLeader(w, q) ==
    LET i == w.bind[q]
        bound == IF i # NoId /\ w.gbind = NoId THEN BindGroup(w, i) ELSE w
    IN [UnbindInstance(bound, q) EXCEPT !.leader = q]

(* AddMember, where only members other than the leader lose their binds.   *)
AddMember(w, p) ==
    LET member == Validate([w EXCEPT !.party = @ \cup {p}], p)
    IN IF p = w.leader THEN member ELSE PlayerResetInstances(member, p)

(* Create keeps the own bind of the leader, and may take over the copy he  *)
(* is in.                                                                  *)
CreateGroup(w, l) ==
    LET i == w.at[l]
        own == [w EXCEPT !.leader = l]
        bound == IF w.bind[l] = NoId THEN own ELSE BindGroup(own, w.bind[l])
        unbound == /\ i # NoId
                   /\ bound.save[i].known
                   /\ bound.save[i].groups = 0 /\ bound.save[i].players = {}
    IN AddMember(IF unbound THEN BindGroup(bound, i) ELSE bound, l)

(* Whoever is inside without his party has a minute to leave.              *)
HomebindIfInstance(w, ps) ==
    [w EXCEPT !.valid =
        [p \in Players |-> @[p] /\ ~(p \in ps \cap w.online /\ w.at[p] # NoId)]]

Disband(w) ==
    GroupResetInstances(
        [HomebindIfInstance(w, w.party) EXCEPT !.party = {}, !.leader = None],
        TRUE)

(* The first connected member leads next; nobody, when there is none.      *)
Heirs(w, p) ==
    LET connected == (w.party \cap w.online) \ {p}
    IN IF w.leader # p \/ connected = {} THEN {w.leader} ELSE connected

RemoveMember(w, p, heir) ==
    LET out == [HomebindIfInstance(w, {p}) EXCEPT !.party = @ \ {p}]
    IN IF Cardinality(w.party) <= 2 THEN Disband(w)
       ELSE IF heir = w.leader THEN out
       ELSE ChangeLeader(out, heir)

-----------------------------------------------------------------------------
(* The packets of the sessions.                                            *)

Becomes(w) ==
    /\ \A i \in Ids : w.events[i] <= MaxEvents
    /\ world' = w

(* HandleMoveWorldportAck into the dungeon.                                *)
Enter(p) ==
    /\ p \in world.online
    /\ world.at[p] = NoId
    /\ LET to == CreateInstanceForPlayer(world, p, NoId)
           in == AddPlayerToMap(to.world, p, to.id)
       IN /\ to.id # NoId
          /\ Becomes(IF in.at[p] = to.id THEN Validate(in, p) ELSE in)

(* HandleMoveWorldportAck out of it.                                       *)
Exit(p) ==
    /\ p \in world.online
    /\ world.at[p] # NoId
    /\ Becomes(Leave(world, p))

LoadBoundInstances(w, p) ==
    LET i == w.row[p]
    IN IF i = NoId THEN w
       ELSE IF p \in w.party \/ i \notin w.stored THEN [w EXCEPT !.row[p] = NoId]
       ELSE BindPlayer(AddInstanceSave(w, i, TRUE), p, i)

(* Player::GetInstanceSave.                                                *)
SaveOf(w, p) ==
    IF p \in w.party /\ w.gbind # NoId THEN w.gbind ELSE w.bind[p]

\* A mutant: the copy he was saved in is taken for his.
LoginRouteAsSaved(w, p) ==
    CreateInstanceForPlayer(
        LoadBoundInstances([w EXCEPT !.online = @ \cup {p}, !.at[p] = NoId,
                                     !.valid[p] = TRUE], p), p, w.at[p])

(* LoadFromDB: where a player who was saved in a copy logs in.             *)
LoginRoute(w, p) ==
    LET loaded == LoadBoundInstances([w EXCEPT !.online = @ \cup {p},
                        !.at[p] = NoId, !.valid[p] = TRUE], p)
        save == SaveOf(loaded, p)
    IN IF w.at[p] = NoId THEN [world |-> loaded, id |-> NoId]
       ELSE CreateInstanceForPlayer(loaded, p,
                IF save \in {NoId, w.at[p]} THEN w.at[p] ELSE NoId)

(* HandlePlayerLogin.  Whether he may be in the copy is asked before he is *)
(* added to it.                                                            *)
Login(p) ==
    /\ p \notin world.online
    /\ LET to == LoginRoute(world, p)
           in == AddPlayerToMap(to.world, p, to.id)
       IN Becomes(IF to.id = NoId THEN to.world
                  ELSE IF in.at[p] # to.id THEN in
                  ELSE [in EXCEPT !.valid[p] = CheckInstanceValidity(to.world,
                            p, to.id, Inside(to.world, to.id))])

(* LogoutPlayer.  Who is not valid leaves first; who is disconnected stays *)
(* in his party; the player is unbound before he is taken from his copy.   *)
Logout(p, normal) ==
    /\ p \in world.online
    /\ LET home == IF world.valid[p] THEN world ELSE Leave(world, p)
       IN \E heir \in Heirs(home, p) :
            LET alone == IF normal /\ p \in home.party
                         THEN RemoveMember(home, p, heir) ELSE home
                i == alone.bind[p]
                clean == IF i = NoId THEN alone
                         ELSE RemovePlayer([alone EXCEPT !.bind[p] = NoId], i, p)
                gone == [clean EXCEPT !.online = @ \ {p}, !.valid[p] = TRUE]
            IN Becomes(IF clean.at[p] = NoId THEN gone
                       ELSE RemovePlayerFromMap(clean, p, gone))

(* HandlePartyInviteResponse.                                              *)
Accept(l, p) ==
    /\ p \in world.online
    /\ l # p /\ p \notin world.party
    /\ \/ /\ world.party = {}
          /\ l \in world.online
          /\ Becomes(AddMember(CreateGroup(world, l), p))
       \/ /\ l = world.leader
          /\ Becomes(AddMember(world, p))

(* HandleLeaveGroup, or HandlePartyUninvite by the leader.                 *)
Remove(p) ==
    /\ p \in world.party
    /\ p \in world.online \/ world.leader \in world.online
    /\ \E heir \in Heirs(world, p) : Becomes(RemoveMember(world, p, heir))

(* HandleSetPartyLeader.                                                   *)
SetLeader(q) ==
    /\ q \in world.online
    /\ world.leader \in world.online
    /\ q \in world.party \ {world.leader}
    /\ Becomes(ChangeLeader(world, q))

(* HandleResetInstances.                                                   *)
RequestReset(p) ==
    /\ p \in world.online
    /\ \/ /\ p \notin world.party
          /\ Becomes(PlayerResetInstances(world, p))
       \/ /\ p \in world.party
          /\ p = world.leader
          /\ Becomes(GroupResetInstances(world, FALSE))

-----------------------------------------------------------------------------
(* The rest of the world update.                                           *)

(* MapInstanced::Update and DestroyInstance.                               *)
Unload(i) ==
    /\ world.copy[i] = "unloading"
    /\ Inside(world, i) = {}
    /\ Becomes([world EXCEPT !.copy[i] = "none"])

(* UpdateHomebindTime, when the minute is over.                            *)
Expel(p) ==
    /\ p \in world.online
    /\ ~world.valid[p]
    /\ Becomes(Leave(world, p))

(* _ResetInstance, of an event that is due.                                *)
ResetSave(w, i) ==
    IF ~w.save[i].known THEN w
    ELSE [w EXCEPT
            !.bind = [p \in Players |->
                        IF p \in w.save[i].players THEN NoId ELSE @[p]],
            !.gbind = IF w.save[i].groups > 0 THEN NoId ELSE @,
            !.save[i] = NoSave]

ResetInstance(i) ==
    /\ world.events[i] > 0
    /\ Becomes([Reset(DeleteInstanceFromDB(ResetSave(world, i), i), i)
            EXCEPT !.used = @ \ {i}, !.events[i] = @ - 1])

Next ==
    \/ \E p \in Players :
        \/ Enter(p)
        \/ Exit(p)
        \/ Login(p)
        \/ \E normal \in BOOLEAN : Logout(p, normal)
        \/ \E l \in Players : Accept(l, p)
        \/ Remove(p)
        \/ SetLeader(p)
        \/ RequestReset(p)
        \/ Expel(p)
    \/ \E i \in Ids : Unload(i) \/ ResetInstance(i)

Spec == Init /\ [][Next]_world

(* A timer of a map runs out if it is not stopped.                         *)
FairSpec ==
    /\ Spec
    /\ \A i \in Ids : SF_world(Unload(i))

-----------------------------------------------------------------------------
(* Type invariant. *)
TypeOK == world \in World

(* The binds of players and parties and the lists of the saves are one     *)
(* relation, kept twice: ~InstanceSave asserts that nobody is left in the  *)
(* lists, and every bind points to a save that is still there.             *)
BindsMatch ==
    /\ \A i \in Ids :
        /\ world.save[i].players = {p \in Players : world.bind[p] = i}
        /\ world.save[i].groups = IF world.gbind = i THEN 1 ELSE 0
        /\ world.save[i].players # {} \/ world.save[i].groups > 0
              => world.save[i].known
    /\ \A p \in Players : world.bind[p] # NoId => p \in world.online
    /\ world.gbind # NoId => world.party # {}

(* No id is lost: when nobody is in its copy, an event is queued that will *)
(* free it, whether the save and the copy are still there or not.          *)
NoIdLeak ==
    \A i \in world.used : Inside(world, i) # {} \/ world.events[i] > 0

(* Whoever is sent to a copy is let in: the save he is bound to, that of   *)
(* his party and that of the copy are the same, also when he logs in.      *)
EntryAccepted ==
    \A p \in Players :
        LET to == IF p \in world.online
                  THEN CreateInstanceForPlayer(world, p, NoId)
                  ELSE LoginRoute(world, p)
        IN to.id # NoId /\ (p \in world.online => world.at[p] = NoId)
            => Accepts(to.world, p, to.id)

(* A copy without players is unloaded unless somebody enters it.           *)
EmptyCopyUnloads ==
    \A i \in Ids :
        (world.copy[i] # "none" /\ Inside(world, i) = {})
            ~> (world.copy[i] = "none" \/ Inside(world, i) # {})

(* The reset is only scheduled while there are no players inside.          *)
NoResetInside ==
    [][\A i \in Ids : ResetInstance(i) => Inside(world, i) = {}]_world

(* An instance is not valid for players of different parties.              *)
NoStrangers ==
    \A p, q \in world.online :
        p # q /\ world.at[p] = world.at[q] /\ world.at[p] # NoId
            /\ world.valid[p] /\ world.valid[q]
        => {p, q} \subseteq world.party

(* An instance that is created for the first time has no copy yet.         *)
FreshCopy ==
    [][\A i \in world'.used \ world.used : world.copy[i] = "none"]_world
=============================================================================
