---------------------------- MODULE PartyGroups ----------------------------
(***************************************************************************)
(* The party groups of the world thread (game/Groups/Group.cpp), as far as *)
(* membership goes.  A group is known in three places that the code keeps  *)
(* in step by hand:                                                        *)
(*                                                                         *)
(*   slots     Group::m_memberSlots, the list that survives disconnections *)
(*             and is what GetMembersCount and IsFull look at,             *)
(*   of        Player::m_group, the group a connected player points at,    *)
(*   original  Player::m_originalGroup, where AddMember puts a player that *)
(*             already points at a group,                                  *)
(*   row       the group_member row of the character (its primary key is   *)
(*             the character: a second INSERT fails), read at the login.   *)
(*                                                                         *)
(* The operators are functions from a party, the record of these fields,   *)
(* to a party.  Raids, battleground and dungeon finder groups, subgroups,  *)
(* loot and instance bindings are left out.                                *)
(***************************************************************************)
EXTENDS Naturals, Sequences, SequencesExt

CONSTANTS
    Players,    \* the characters
    Groups,     \* the groups that may exist at a time
    GroupSize,  \* MAX_GROUP_SIZE, the slots of a group that is not a raid
    NoGroup,    \* the null Group pointer
    Nobody      \* the leader of a group that does not exist

ASSUME GroupsAssumption ==
    /\ Groups \subseteq Nat /\ GroupSize \in Nat
    /\ NoGroup \notin Groups /\ Nobody \notin Players

Party ==
    [slots : [Groups -> Seq(Players)],
     leader : [Groups -> Players \cup {Nobody}],
     of : [Players -> Groups \cup {NoGroup}],
     original : [Players -> Groups \cup {NoGroup}],
     row : [Players -> Groups \cup {NoGroup}]]

NoParty ==
    [slots |-> [g \in Groups |-> <<>>],
     leader |-> [g \in Groups |-> Nobody],
     of |-> [m \in Players |-> NoGroup],
     original |-> [m \in Players |-> NoGroup],
     row |-> [m \in Players |-> NoGroup]]

Exists(p, g) == p.slots[g] # <<>>
MembersCount(p, g) == Len(p.slots[g])
IsFull(p, g) == Len(p.slots[g]) >= GroupSize
IsMember(p, g, m) == Contains(p.slots[g], m)

\* GroupMgr::GenerateNewGroupDbStoreId: the lowest id that is free, if any.
FreeGroup(p) ==
    {g \in Groups : ~Exists(p, g) /\ \A h \in Groups : h < g => Exists(p, h)}

\* Group::AddMember does not look whether the player is in a group: the slot
\* is pushed, and the pointer goes to the free one of the two.
AddMember(p, g, m) ==
    [p EXCEPT !.slots[g] = Append(@, m),
              !.of[m] = IF @ = NoGroup THEN g ELSE @,
              !.original[m] = IF p.of[m] = NoGroup THEN @ ELSE g,
              !.row[m] = IF @ = NoGroup THEN g ELSE @]

Create(p, g, m) == AddMember([p EXCEPT !.leader[g] = m], g, m)

\* What a player that leaves g points at: SetOriginalGroup(NULL) when g is its
\* original group, else SetGroup(NULL) whatever group it points at.
Unlinked(p, g, m) ==
    [p EXCEPT !.original[m] = IF @ = g THEN NoGroup ELSE @,
              !.of[m] = IF p.original[m] # g \/ @ = g THEN NoGroup ELSE @]

\* The leader after m left: the first connected member, nobody new when there
\* is none.
NextLeader(p, g, m, online) ==
    LET rest == RemoveFirst(p.slots[g], m)
        connected == {i \in DOMAIN rest : rest[i] \in online}
    IN  IF p.leader[g] = m /\ connected # {} THEN rest[Min(connected)] ELSE p.leader[g]

\* Group::RemoveMember of a group of more than two, past its hook.
Leave(p, g, m, online) ==
    LET q == IF m \in online THEN Unlinked(p, g, m) ELSE p
    IN  [q EXCEPT !.slots[g] = RemoveFirst(@, m),
                  !.leader[g] = NextLeader(p, g, m, online),
                  !.row[m] = NoGroup]

\* Group::Disband past its hook: every connected member is unlinked, the rows
\* of the group are deleted, and the destructor drops what still points at it.
Disband(p, g, online) ==
    LET q == FoldLeft(LAMBDA r, m : IF m \in online THEN Unlinked(r, g, m) ELSE r,
                      p, p.slots[g])
        Drop(f) == [m \in Players |-> IF f[m] = g THEN NoGroup ELSE f[m]]
    IN  [slots |-> [q.slots EXCEPT ![g] = <<>>],
         leader |-> [q.leader EXCEPT ![g] = Nobody],
         of |-> Drop(q.of),
         original |-> Drop(q.original),
         row |-> Drop(q.row)]

\* Player::_LoadGroup at the login, and the player deleted at the logout.
Load(p, m) == [p EXCEPT !.of[m] = p.row[m]]
Unload(p, m) == [p EXCEPT !.of[m] = NoGroup, !.original[m] = NoGroup]
=============================================================================
