------------------------- MODULE MercenaryContracts -------------------------
(***************************************************************************)
(* The mercenary contracts (game/Mercenary/MercenaryMgr.cpp): a player     *)
(* pays at the portal, or a scenario offers, the company of a bot; the bot *)
(* logs in, is made ready, enters the group of its employer, and leaves    *)
(* when the contract ends.                                                 *)
(*                                                                         *)
(* Everything here runs in the world thread, one handler at a time: the    *)
(* gossip and group packets, the sessions of the bots, and Update, which   *)
(* goes once a second over the list of contracts.  What makes it hard is   *)
(* not preemption but nesting and staleness: a handler calls the group     *)
(* code, which calls the hooks of this module back before it has finished; *)
(* and a bot found free when it was hired may be anything when it arrives. *)
(* The handlers are operators on the record World, so that nested calls    *)
(* compose; a pass of Update is one step per contract, and nothing else    *)
(* moves between its steps.                                                *)
(*                                                                         *)
(* Abstracted: gold is counted in recruitments (m_cost is 1), every bot    *)
(* account has one character, the recall of an arrived mercenary to the    *)
(* portal (summonPending) only sends orders and is left out, and so are    *)
(* the messages to the player.  An invitation and its answer are one step, *)
(* and the limit of three minutes on a schedule is left out, a summoning   *)
(* being over before.  An account always has a session (those of bots are  *)
(* never removed, WorldSession.cpp:547), so the branch of Update for a     *)
(* missing session is not modelled.                                        *)
(***************************************************************************)
EXTENDS Integers, FiniteSets, PartyGroups

CONSTANTS
    Owners,        \* the real players
    Accounts,      \* the bot accounts, each standing for its character too
    MaxPerPlayer,  \* m_maxPerPlayer
    Timeout,       \* MERCENARY_SUMMON_TIMEOUT, in passes of Update
    Grace,         \* MERCENARY_ABSENCE_GRACE, in passes of Update
    Purse,         \* what an owner starts with, in recruitments
    Offers,        \* how many recruitments the scenarios offer each of them
    MaxDrops       \* the bound on how often a bot drops out of the world

ASSUME ContractsAssumption ==
    /\ Players = Owners \cup Accounts
    /\ Owners \cap Accounts = {}
    /\ MaxPerPlayer \in Nat /\ Timeout \in Nat /\ Grace \in Nat
    /\ Purse \in Nat /\ Offers \in Nat /\ MaxDrops \in Nat

VARIABLES
    contracts,  \* m_contracts, in the order of hire
    gold,       \* what each owner has
    offers,     \* what each owner may still be offered
    place,      \* of an owner: "out", "away" (loading a map) or "world"
    sessions,   \* of an account: its player, and its queue of schedules
    party,      \* the groups, see PartyGroups
    freed,      \* TRUE when a group was used after its deletion
    cursor,     \* the contract that Update is at, 0 when it is not running
    drops       \* how often a bot has dropped out so far, for its bound

vars == <<contracts, gold, offers, place, sessions, party, freed, cursor, drops>>

Contract ==
    [account : Accounts, owner : Owners, stage : {"summoning", "active"},
     wait : 0 .. Timeout, absence : 0 .. Grace, pending : BOOLEAN,
     free : BOOLEAN]

Session ==
    [player : {"none", "loading", "away", "world"},
     schedule : {"none", "online", "setting"}]

World ==
    [contracts |-> contracts, sessions |-> sessions, party |-> party,
     freed |-> freed]

Becomes(w) ==
    /\ contracts' = w.contracts
    /\ sessions' = w.sessions
    /\ party' = w.party
    /\ freed' = w.freed

\* ObjectAccessor::FindConnectedPlayer, and FindPlayer for those in the world.
Playing(w, a) == w.sessions[a].player \in {"away", "world"}
Online(w) ==
    {o \in Owners : place[o] # "out"} \cup {a \in Accounts : Playing(w, a)}
InWorld(w, m) ==
    IF m \in Owners THEN place[m] = "world" ELSE w.sessions[m].player = "world"

ContractsOf(w, o) == {i \in DOMAIN w.contracts : w.contracts[i].owner = o}
IsAccountHired(w, a) == \E i \in DOMAIN w.contracts : w.contracts[i].account = a

Init ==
    /\ contracts = <<>>
    /\ gold = [o \in Owners |-> Purse]
    /\ offers = [o \in Owners |-> Offers]
    /\ place \in [Owners -> {"out", "world"}]
    /\ sessions \in [Accounts -> [player : {"none", "world"}, schedule : {"none"}]]
    /\ party = NoParty
    /\ freed = FALSE
    /\ cursor = 0
    /\ drops = 0

-----------------------------------------------------------------------------
(* Leaving a group, the hooks, and the end of a contract.                   *)

\* The rest of Group::RemoveMember once its hook has returned, when the hook
\* of the disbanding has nothing to do.
RemoveUnhooked(w, g, m) ==
    [w EXCEPT !.party = IF MembersCount(@, g) > 2
                        THEN Leave(@, g, m, Online(w))
                        ELSE Disband(@, g, Online(w))]

\* WorldSession::LogoutPlayer of a bot: it has no socket, so that it keeps its
\* slot, and its queue is cleared unless a login is still at its head.
LogoutBot(w, a) ==
    [w EXCEPT !.party = Unload(@, a),
              !.sessions[a] = [player |-> "none",
                               schedule |-> IF @.schedule = "online"
                                            THEN "online" ELSE "none"]]

\* A contract once the members have left, as a bot or as an employer.
Marked(c, members) ==
    [c EXCEPT !.pending = \/ @
                          \/ c.owner \in members
                          \/ c.stage = "active" /\ c.account \in members]

Mark(w, members) ==
    [w EXCEPT !.contracts = [i \in DOMAIN @ |-> Marked(@[i], members)]]

\* A mutant: only the mercenary that leaves is looked for, not its employer.
LeftGroupBotOnly(w, m) == IF m \in Accounts THEN Mark(w, {m}) ELSE w

\* A mutant: the hook dismisses at once, as it did before the marking.
LeftGroupDismisses(w, m) ==
    LET kept == [w EXCEPT !.contracts = SelectSeq(@, LAMBDA c : c.account # m)]
        g == w.party.of[m]
    IN  IF m \in Accounts /\ IsAccountHired(w, m) /\ Playing(w, m)
        THEN LogoutBot(IF g # NoGroup THEN RemoveUnhooked(kept, g, m) ELSE kept, m)
        ELSE w

OnPlayerLeftGroup(w, m) == Mark(w, {m})
OnGroupDisband(w, g) == Mark(w, ToSet(w.party.slots[g]))

\* Group::Disband: its hook, then the demolition of the group, which must
\* still be there.
DisbandGroup(w, g) ==
    LET h == OnGroupDisband(w, g)
    IN  IF Exists(h.party, g)
        THEN [h EXCEPT !.party = Disband(@, g, Online(h))]
        ELSE [h EXCEPT !.freed = TRUE]

\* Group::RemoveMember: its hook first, then the group, which must still be
\* there, loses a member or is disbanded.
RemoveMember(w, g, m) ==
    LET h == OnPlayerLeftGroup(w, m)
    IN  IF ~Exists(h.party, g)
        THEN [h EXCEPT !.freed = TRUE]
        ELSE IF MembersCount(h.party, g) > 2
             THEN [h EXCEPT !.party = Leave(@, g, m, Online(h))]
             ELSE DisbandGroup(h, g)

\* The contract is out of the list; m_releasing silences the hooks meanwhile.
ReleaseBot(w, c) ==
    LET a == c.account
        g == w.party.of[a]
        left == IF InWorld(w, a) /\ g # NoGroup
                THEN RemoveUnhooked(w, g, a) ELSE w
    IN  IF Playing(w, a)
        THEN LogoutBot(left, a)
        ELSE [w EXCEPT !.sessions[a].schedule = "none"]

\* The list without the chosen contracts.
Kept(q, chosen) ==
    FoldLeft(LAMBDA kept, c : IF c \in chosen THEN kept ELSE Append(kept, c), <<>>, q)

\* DismissAll and DismissFreeEscort: the chosen contracts leave the list
\* first, then their bots are released one after the other.
Dismiss(w, chosen) ==
    FoldLeft(LAMBDA v, c : IF c \in chosen THEN ReleaseBot(v, c) ELSE v,
             [w EXCEPT !.contracts = Kept(@, chosen)],
             w.contracts)

DismissAll(w, o) == Dismiss(w, {c \in ToSet(w.contracts) : c.owner = o})

-----------------------------------------------------------------------------
(* Hiring.                                                                  *)

\* FindCandidate: among the accounts whose character fits the role, one that
\* is idle in the world and in no group, else one that is not connected.
IdleOrHired(w, a) ==  \* a mutant: contracts under way are not looked at
    /\ w.sessions[a] = [player |-> "world", schedule |-> "none"]
    /\ w.party.of[a] = NoGroup

Idle(w, a) ==
    /\ w.sessions[a] = [player |-> "world", schedule |-> "none"]
    /\ w.party.of[a] = NoGroup
    /\ ~IsAccountHired(w, a)

Offline(w, a) ==
    /\ w.sessions[a] = [player |-> "none", schedule |-> "none"]
    /\ ~IsAccountHired(w, a)

Candidates(w, fitting) ==
    LET idle == {a \in fitting : Idle(w, a)}
    IN  IF idle # {} THEN idle ELSE {a \in fitting : Offline(w, a)}

\* The invocations under way already hold the place to come.
HasRoom(o) ==
    LET g == party.of[o]
        pending == {i \in ContractsOf(World, o) : contracts[i].stage = "summoning"}
    IN  g # NoGroup =>
            /\ party.leader[g] = o
            /\ MembersCount(party, g) + Cardinality(pending) < GroupSize

\* A paid recruitment is asked for at the portal; one offered by a scenario
\* comes from the timer of its script, wherever the player is by then.
Summon(o, free) ==
    /\ cursor = 0
    /\ IF free THEN offers[o] > 0 /\ place[o] # "out"
               ELSE gold[o] > 0 /\ place[o] = "world"
    /\ Cardinality(ContractsOf(World, o)) < MaxPerPlayer
    /\ HasRoom(o)
    /\ \E fitting \in SUBSET Accounts : \E a \in Candidates(World, fitting) :
        /\ gold' = [gold EXCEPT ![o] = IF free THEN @ ELSE @ - 1]
        /\ offers' = [offers EXCEPT ![o] = IF free THEN @ - 1 ELSE @]
        /\ sessions' = [sessions EXCEPT ![a].schedule =
                           IF sessions[a].player = "none" THEN "online" ELSE "setting"]
        /\ contracts' = Append(contracts,
                           [account |-> a, owner |-> o, stage |-> "summoning",
                            wait |-> 0, absence |-> 0, pending |-> FALSE,
                            free |-> free])
    /\ UNCHANGED <<place, party, freed, cursor, drops>>

\* The portal's "Congedier mes mercenaires".
DismissCompany(o) ==
    /\ cursor = 0 /\ place[o] = "world" /\ ContractsOf(World, o) # {}
    /\ Becomes(DismissAll(World, o))
    /\ UNCHANGED <<offers, gold, place, cursor, drops>>

\* The end of the scenario takes back the escort it offered.
DismissFreeEscort(o) ==
    /\ cursor = 0 /\ place[o] # "out"
    /\ \E i \in ContractsOf(World, o) : contracts[i].free
    /\ Becomes(Dismiss(World, {c \in ToSet(contracts) : c.owner = o /\ c.free}))
    /\ UNCHANGED <<offers, gold, place, cursor, drops>>

-----------------------------------------------------------------------------
(* The players.                                                             *)

Login(o) ==
    /\ cursor = 0 /\ place[o] = "out"
    /\ place' = [place EXCEPT ![o] = "world"]
    /\ party' = Load(party, o)
    /\ UNCHANGED <<offers, contracts, gold, sessions, freed, cursor, drops>>

\* A change of map takes the player out of the world for a while.
Teleport(o) ==
    /\ cursor = 0 /\ place[o] # "out"
    /\ place' = [place EXCEPT ![o] = IF @ = "world" THEN "away" ELSE "world"]
    /\ UNCHANGED <<offers, contracts, gold, sessions, party, freed, cursor, drops>>

\* LogoutPlayer of a real player: it leaves its group if its socket is still
\* open, then the hook dismisses its company, then the player is deleted.  The
\* bots of its group are not logged out here: LogoutAllGroupPlayerBot returns
\* at once, the player that leaves being still connected.
Logout(o, socket) ==
    /\ cursor = 0 /\ place[o] # "out"
    /\ LET g == party.of[o]
           left == IF socket /\ g # NoGroup THEN RemoveMember(World, g, o) ELSE World
           done == DismissAll(left, o)
       IN  Becomes([done EXCEPT !.party = Unload(@, o)])
    /\ place' = [place EXCEPT ![o] = "out"]
    /\ UNCHANGED <<offers, gold, cursor, drops>>

\* m is invited by o and accepts, into the group that o leads or a new one.  A
\* bot accepts whatever it is invited to once its queue is empty.
AcceptInvite(o, m) ==
    /\ cursor = 0 /\ o # m /\ place[o] = "world" /\ InWorld(World, m)
    /\ m \in Accounts => sessions[m].schedule = "none"
    /\ party.of[m] = NoGroup
    /\ \/ \E g \in Groups :
            /\ party.of[o] = g /\ party.leader[g] = o /\ ~IsFull(party, g)
            /\ party' = AddMember(party, g, m)
       \/ \E g \in FreeGroup(party) :
            /\ party.of[o] = NoGroup
            /\ party' = AddMember(Create(party, g, o), g, m)
    /\ UNCHANGED <<offers, contracts, gold, place, sessions, freed, cursor, drops>>

LeaveGroup(o) ==
    /\ cursor = 0 /\ place[o] = "world" /\ party.of[o] # NoGroup
    /\ Becomes(RemoveMember(World, party.of[o], o))
    /\ UNCHANGED <<offers, gold, place, cursor, drops>>

Uninvite(o, m) ==
    /\ cursor = 0 /\ o # m /\ place[o] = "world"
    /\ \E g \in Groups :
        /\ party.of[o] = g /\ party.leader[g] = o /\ IsMember(party, g, m)
        /\ Becomes(RemoveMember(World, g, m))
    /\ UNCHANGED <<offers, gold, place, cursor, drops>>

-----------------------------------------------------------------------------
(* The sessions of the bots.                                                *)

\* PlayerBotSession::CastSchedule, at the head of the queue: the login is
\* started, then seen to be done; the setting is done in the world, or finds
\* no player and clears the queue.
CastSchedule(a) ==
    /\ cursor = 0
    /\ LET s == sessions[a] IN
        \/ /\ s = [player |-> "none", schedule |-> "online"]
           /\ sessions' = [sessions EXCEPT ![a].player = "loading"]
        \/ /\ s.schedule = "online" /\ Playing(World, a)
           /\ sessions' = [sessions EXCEPT ![a].schedule = "setting"]
        \/ /\ s.schedule = "setting" /\ s.player \in {"none", "world"}
           /\ sessions' = [sessions EXCEPT ![a].schedule = "none"]
    /\ UNCHANGED <<offers, contracts, gold, place, party, freed, cursor, drops>>

\* The rest of the server logs an idle bot in.
StartLogin(a) ==
    /\ cursor = 0
    /\ sessions[a] = [player |-> "none", schedule |-> "none"]
    /\ sessions' = [sessions EXCEPT ![a].player = "loading"]
    /\ UNCHANGED <<offers, contracts, gold, place, party, freed, cursor, drops>>

\* The login fails, or the bot enters the world and OnPlayerBotLogin makes it
\* leave a group without any connected real player.
EndLogin(a) ==
    /\ cursor = 0 /\ sessions[a].player = "loading"
    /\ \/ /\ sessions' = [sessions EXCEPT ![a].player = "none"]
          /\ UNCHANGED <<contracts, party, freed>>
       \/ LET loaded == [World EXCEPT !.sessions[a].player = "world",
                                      !.party = Load(@, a)]
              g == loaded.party.of[a]
          IN  Becomes(IF g # NoGroup
                         /\ \A o \in Owners : IsMember(party, g, o) => place[o] = "out"
                      THEN RemoveMember(loaded, g, a)
                      ELSE loaded)
    /\ UNCHANGED <<offers, gold, place, cursor, drops>>

Drop == drops < MaxDrops /\ drops' = drops + 1

BotTeleport(a) ==
    /\ cursor = 0
    /\ \/ sessions[a].player = "world" /\ Drop
       \/ sessions[a].player = "away" /\ UNCHANGED drops
    /\ sessions' = [sessions EXCEPT ![a].player = IF @ = "world" THEN "away" ELSE "world"]
    /\ UNCHANGED <<offers, contracts, gold, place, party, freed, cursor>>

\* UpdateIdleBotLogout: an idle bot is logged out, never one under contract.
IdleLogout(a) ==
    /\ cursor = 0 /\ ~IsAccountHired(World, a)
    /\ sessions[a] = [player |-> "world", schedule |-> "none"]
    /\ Drop
    /\ Becomes(LogoutBot(World, a))
    /\ UNCHANGED <<offers, gold, place, cursor>>

-----------------------------------------------------------------------------
(* Update: one pass over the contracts, one step for each of them.          *)

Current == contracts[cursor]

StartUpdate ==
    /\ cursor = 0 /\ contracts # <<>>
    /\ cursor' = 1
    /\ UNCHANGED <<offers, contracts, gold, place, sessions, party, freed, drops>>

\* ++it, the contract being now c.
Keep(c) ==
    /\ contracts' = [contracts EXCEPT ![cursor] = c]
    /\ cursor' = IF cursor = Len(contracts) THEN 0 ELSE cursor + 1

\* it = m_contracts.erase(it), then the bot is released in the world w.
End(w) ==
    /\ Becomes(ReleaseBot([w EXCEPT !.contracts = RemoveAt(@, cursor)], Current))
    /\ cursor' = IF cursor = Len(contracts) THEN 0 ELSE cursor

\* The same with the money back, the employer being connected.
Refund == gold' = [gold EXCEPT ![Current.owner] = @ + 1]
EndAndRefund(w) == End(w) /\ Refund

\* A hook has marked the contract.
Broken ==
    /\ cursor > 0 /\ Current.pending
    /\ End(World)
    /\ UNCHANGED <<offers, gold, place, drops>>

\* The employer, or its mercenary once active, is out of the world: a grace.
Absent ==
    \/ ~InWorld(World, Current.owner)
    \/ Current.stage = "active" /\ ~InWorld(World, Current.account)

\* A mutant: no grace, and the money back, as before the delay was added.
AbsenceRefunded ==
    /\ cursor > 0 /\ ~Current.pending /\ Absent
    /\ EndAndRefund(World)
    /\ UNCHANGED <<offers, place, drops>>

Absence ==
    /\ cursor > 0 /\ ~Current.pending /\ Absent
    /\ IF Current.absence + 1 < Grace
       THEN /\ Keep([Current EXCEPT !.absence = @ + 1])
            /\ UNCHANGED <<gold, sessions, party, freed>>
       ELSE /\ End(World)
            /\ UNCHANGED gold
    /\ UNCHANGED <<offers, place, drops>>

Together ==
    /\ party.of[Current.owner] # NoGroup
    /\ party.of[Current.account] = party.of[Current.owner]

\* An active contract with both in the world: it lasts as long as the group.
Serve ==
    /\ cursor > 0 /\ ~Current.pending /\ ~Absent /\ Current.stage = "active"
    /\ IF Together
       THEN /\ Keep([Current EXCEPT !.absence = 0])
            /\ UNCHANGED <<sessions, party, freed>>
       ELSE End(World)
    /\ UNCHANGED <<offers, gold, place, drops>>

Ready(a) == sessions[a] = [player |-> "world", schedule |-> "none"]

Summoned ==
    /\ cursor > 0 /\ ~Current.pending /\ ~Absent /\ Current.stage = "summoning"

\* A mutant: the wait is counted only once the mercenary is in the world.
ExpectPatiently ==
    /\ Summoned /\ ~Ready(Current.account)
    /\ IF Current.wait + 1 > Timeout
       THEN EndAndRefund(World)
       ELSE /\ Keep([Current EXCEPT !.wait =
                         IF InWorld(World, Current.account) THEN @ + 1 ELSE @])
            /\ UNCHANGED <<gold, sessions, party, freed>>
    /\ UNCHANGED <<offers, place, drops>>

\* The mercenary is not there yet.
Expect ==
    /\ Summoned /\ ~Ready(Current.account)
    /\ IF Current.wait + 1 > Timeout
       THEN EndAndRefund(World)
       ELSE /\ Keep([Current EXCEPT !.wait = @ + 1])
            /\ UNCHANGED <<gold, sessions, party, freed>>
    /\ UNCHANGED <<offers, place, drops>>

\* It is: the group is created if need be, and the bot enters it if there is
\* room.  The counters that are not read again go back to 0.
Arrive ==
    /\ Summoned /\ Ready(Current.account)
    /\ LET o == Current.owner
           alone == party.of[o] = NoGroup
       IN  \E g \in IF alone THEN FreeGroup(party) ELSE {party.of[o]} :
            LET p == IF alone THEN Create(party, g, o) ELSE party
            IN IF IsFull(p, g)
               THEN EndAndRefund([World EXCEPT !.party = p])
               ELSE /\ Keep([Current EXCEPT !.stage = "active", !.wait = 0])
                    /\ party' = AddMember(p, g, Current.account)
                    /\ UNCHANGED <<gold, sessions, freed>>
    /\ UNCHANGED <<offers, place, drops>>

Update == StartUpdate \/ Broken \/ Absence \/ Serve \/ Expect \/ Arrive

-----------------------------------------------------------------------------

OwnerStep(o) ==
    \/ \E free \in BOOLEAN : Summon(o, free)
    \/ DismissCompany(o)
    \/ DismissFreeEscort(o)
    \/ Login(o)
    \/ Teleport(o)
    \/ \E socket \in BOOLEAN : Logout(o, socket)
    \/ LeaveGroup(o)
    \/ \E m \in Players : AcceptInvite(o, m) \/ Uninvite(o, m)

BotStep(a) ==
    \/ CastSchedule(a)
    \/ StartLogin(a)
    \/ EndLogin(a)
    \/ BotTeleport(a)
    \/ IdleLogout(a)

Next ==
    \/ \E o \in Owners : OwnerStep(o)
    \/ \E a \in Accounts : BotStep(a)
    \/ Update

Spec == Init /\ [][Next]_vars

\* The world thread calls Update again and again and a pass that has begun
\* goes on; no player and no bot has to do anything.
FairSpec == Spec /\ WF_vars(Update)

-----------------------------------------------------------------------------
(* What the contracts promise.                                              *)

TypeOK ==
    /\ contracts \in Seq(Contract)
    /\ gold \in [Owners -> 0 .. Purse + Offers]
    /\ offers \in [Owners -> 0 .. Offers]
    /\ place \in [Owners -> {"out", "away", "world"}]
    /\ sessions \in [Accounts -> Session]
    /\ party \in Party
    /\ freed \in BOOLEAN
    /\ cursor \in 0 .. Len(contracts)
    /\ drops \in 0 .. MaxDrops

\* A bot serves one employer: no account is under two contracts.
OneContractPerBot ==
    \A i, j \in DOMAIN contracts :
        contracts[i].account = contracts[j].account => i = j

\* An active contract that no hook has marked is backed by a group that lists
\* both parties: whoever leaves, by whatever path, is seen by a hook.
Linked ==
    \A i \in DOMAIN contracts :
        LET c == contracts[i] IN
            c.stage = "active" /\ ~c.pending =>
                \E g \in Groups : IsMember(party, g, c.owner) /\ IsMember(party, g, c.account)

\* Group::RemoveMember and Disband never go on with a group that a hook has
\* made disappear under them (the double free told at MercenaryMgr.cpp:590).
NoUseAfterDelete == ~freed

\* Money comes back once for a recruitment that never was served: a refund
\* ends the summoning contract it is for, and a broken contract has none.
RefundEndsContract ==
    [][\A o \in Owners : gold'[o] > gold[o] =>
          /\ cursor > 0 /\ Current.owner = o /\ gold'[o] = gold[o] + 1
          /\ Current.stage = "summoning" /\ ~Current.pending
          /\ \A j \in DOMAIN contracts' : contracts'[j].account # Current.account]_vars

Waiting(a) ==
    \E i \in DOMAIN contracts :
        /\ contracts[i].account = a
        /\ contracts[i].pending \/ contracts[i].stage = "summoning"

\* No employer waits for ever: a summoning ends, with a mercenary at its side
\* or the contract gone, and a broken contract is closed.
WaitingEnds == \A a \in Accounts : Waiting(a) ~> ~Waiting(a)

\* What a dismissal says: the mercenary leaves the group and disconnects.
\* Violated: one that is between two maps keeps its slot.
DismissedLeaves ==
    [][\A i \in DOMAIN contracts :
          LET a == contracts[i].account IN
          contracts[i].stage = "active" /\ ~(\E j \in DOMAIN contracts' : contracts'[j].account = a)
          => \A g \in Groups : ~IsMember(party', g, a)]_vars

\* What a refund says: gold is given back, never given.  Violated: so is the
\* price of a recruitment that was offered.
GoldIsReturned == \A o \in Owners : gold[o] <= Purse
=============================================================================
