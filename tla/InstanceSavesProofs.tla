------------------------ MODULE InstanceSavesProofs ------------------------
(***************************************************************************)
(* Proofs about the copies of a dungeon, for any number of players, of ids *)
(* and of queued events: the binds and the lists of the saves are one      *)
(* relation, no id is lost, and whoever is sent to a copy is let in.       *)
(*                                                                         *)
(* A handler is a composition of methods, each of which takes a world and  *)
(* returns one.  There is a lemma for each method, which says what it      *)
(* preserves and what it leaves alone; a handler is then a chain of them.  *)
(***************************************************************************)
EXTENDS InstanceSaves, FiniteSetTheorems, WellFoundedInduction, TLAPS

(* World, without the bound on the events that are queued.                 *)
Worlds ==
    [online : SUBSET Players,
     at : [Players -> IdOrNone],
     valid : [Players -> BOOLEAN],
     bind : [Players -> IdOrNone],
     row : [Players -> IdOrNone],
     party : SUBSET Players,
     leader : Players \cup {None},
     gbind : IdOrNone,
     save : [Ids -> Save],
     stored : SUBSET Ids,
     copy : [Ids -> {"none", "loaded", "unloading"}],
     used : SUBSET Ids,
     events : [Ids -> Nat]]

(* The lists of the saves are those of the binds, and what is listed is    *)
(* known.                                                                  *)
Lists(w) ==
    \A i \in Ids :
        /\ w.save[i].players = {p \in Players : w.bind[p] = i}
        /\ w.save[i].groups = IF w.gbind = i THEN 1 ELSE 0
        /\ w.save[i].players # {} \/ w.save[i].groups > 0 => w.save[i].known

(* Only who is connected is bound, only a party is.                        *)
Homes(w) == \A p \in Players : w.bind[p] # NoId => p \in w.online
Joined(w) == w.gbind # NoId => w.party # {}

(* An id that is taken, by MapManager, a save or the table, has an event,  *)
(* unless its save is known and somebody is in its copy: when he leaves an *)
(* event is queued.                                                        *)
Taken(w, i) == i \in w.used \/ i \in w.stored \/ w.save[i].known
Kept(w, i) == w.events[i] > 0 \/ (w.save[i].known /\ Inside(w, i) # {})
AllKept(w) == \A i \in Ids : Taken(w, i) => Kept(w, i)

(* Who has to leave is in a copy.                                          *)
Placed(w) == \A p \in Players : ~w.valid[p] => w.at[p] # NoId

(* A world between two methods of a handler.                               *)
Sound(w) == w \in Worlds /\ Lists(w) /\ Homes(w) /\ AllKept(w) /\ Placed(w)

(* The inductive invariant.                                                *)
SavesInv == Sound(world) /\ Joined(world) /\ world \in World

-----------------------------------------------------------------------------
(* Worlds that differ in some fields only.                                 *)

OnlySave(w, n) ==
    /\ n.save \in [Ids -> Save]
    /\ n = [w EXCEPT !.save = n.save]

(* What only changes the saves leaves the rest of the world alone.         *)
LEMMA OnlySaveFacts ==
    ASSUME NEW w \in Worlds, NEW n, OnlySave(w, n)
    PROVE  /\ n \in Worlds
           /\ n.online = w.online /\ n.at = w.at /\ n.valid = w.valid
           /\ n.bind = w.bind /\ n.row = w.row /\ n.party = w.party
           /\ n.leader = w.leader /\ n.gbind = w.gbind /\ n.stored = w.stored
           /\ n.copy = w.copy /\ n.used = w.used /\ n.events = w.events
    BY DEF OnlySave, Worlds

(* One save is written.                                                    *)
SetSave(w, i, s) == [w EXCEPT !.save = [w.save EXCEPT ![i] = s]]

(* One save is replaced.                                                   *)
LEMMA SetSaveFacts ==
    ASSUME NEW w \in Worlds, NEW i \in Ids, NEW s \in Save
    PROVE  /\ OnlySave(w, SetSave(w, i, s))
           /\ \A j \in Ids : SetSave(w, i, s).save[j] = IF j = i THEN s ELSE w.save[j]
<1> DEFINE n == SetSave(w, i, s)
<1>1. n.save = [w.save EXCEPT ![i] = s] /\ w.save \in [Ids -> Save]
    BY DEF SetSave, Worlds
<1>2. n = [w EXCEPT !.save = n.save]
    BY <1>1 DEF SetSave
<1> HIDE DEF n
<1> QED
    BY <1>1, <1>2 DEF OnlySave, n

(* The save is dropped when it is empty, and nothing else changes.         *)
Empty(w, i) == /\ w.save[i].players = {}
               /\ w.save[i].groups = 0
               /\ Inside(w, i) = {}

(* UnloadIfEmpty leaves the lists of every save alone.                     *)
LEMMA UnloadFacts ==
    ASSUME NEW w \in Worlds, NEW i \in Ids
    PROVE  /\ OnlySave(w, UnloadIfEmpty(w, i))
           /\ \A j \in Ids :
                /\ UnloadIfEmpty(w, i).save[j].players = w.save[j].players
                /\ UnloadIfEmpty(w, i).save[j].groups = w.save[j].groups
                /\ UnloadIfEmpty(w, i).save[j].known <=>
                        w.save[j].known /\ ~(j = i /\ Empty(w, i))
<1>1. CASE Empty(w, i)
  <2> DEFINE s == [w.save[i] EXCEPT !.known = FALSE]
  <2>1. UnloadIfEmpty(w, i) = SetSave(w, i, s)
    BY <1>1 DEF UnloadIfEmpty, Empty, SetSave
  <2>2. /\ s \in Save /\ s.known = FALSE
        /\ s.players = w.save[i].players /\ s.groups = w.save[i].groups
    BY DEF Worlds, Save
  <2> HIDE DEF s
  <2>3. /\ OnlySave(w, UnloadIfEmpty(w, i))
        /\ \A j \in Ids : UnloadIfEmpty(w, i).save[j] = IF j = i THEN s ELSE w.save[j]
    BY <2>1, <2>2, SetSaveFacts
  <2> QED
    BY <1>1, <2>2, <2>3
<1>2. CASE ~Empty(w, i)
  <2>1. UnloadIfEmpty(w, i) = w
    BY <1>2 DEF UnloadIfEmpty, Empty
  <2>2. \A j \in Ids : w.save[j].known \in BOOLEAN
    BY DEF Worlds, Save
  <2> QED
    BY <1>2, <2>1, <2>2 DEF OnlySave, Worlds
<1> QED
    BY <1>1, <1>2

(* What is dropped is neither listed nor needed to free an id.             *)
LEMMA UnloadKeeps ==
    ASSUME NEW w \in Worlds, NEW i \in Ids
    PROVE  /\ Lists(w) => Lists(UnloadIfEmpty(w, i))
           /\ AllKept(w) => AllKept(UnloadIfEmpty(w, i))
<1> DEFINE n == UnloadIfEmpty(w, i)
<1>1. /\ n.bind = w.bind /\ n.gbind = w.gbind /\ n.online = w.online
      /\ n.at = w.at /\ n.used = w.used /\ n.events = w.events
      /\ n.stored = w.stored
      /\ \A j \in Ids :
            /\ n.save[j].players = w.save[j].players
            /\ n.save[j].groups = w.save[j].groups
            /\ n.save[j].known <=> w.save[j].known /\ ~(j = i /\ Empty(w, i))
    BY UnloadFacts, OnlySaveFacts
<1> HIDE DEF n
<1>2. ASSUME Lists(w)
      PROVE  Lists(n)
  <2> SUFFICES ASSUME NEW j \in Ids
               PROVE  /\ n.save[j].players = {q \in Players : n.bind[q] = j}
                      /\ n.save[j].groups = IF n.gbind = j THEN 1 ELSE 0
                      /\ n.save[j].players # {} \/ n.save[j].groups > 0
                            => n.save[j].known
    BY DEF Lists
  <2>1. /\ w.save[j].players = {q \in Players : w.bind[q] = j}
        /\ w.save[j].groups = IF w.gbind = j THEN 1 ELSE 0
        /\ w.save[j].players # {} \/ w.save[j].groups > 0 => w.save[j].known
    BY <1>2 DEF Lists
  <2> QED
    BY <1>1, <2>1 DEF Empty
<1>3. ASSUME AllKept(w), NEW j \in Ids, Taken(n, j)
      PROVE  Kept(n, j)
  <2>1. Kept(w, j) /\ Inside(n, j) = Inside(w, j)
    BY <1>1, <1>3 DEF AllKept, Taken, Inside
  <2> QED
    BY <1>1, <2>1 DEF Kept, Empty
<1> QED
    BY <1>2, <1>3 DEF AllKept, n

(* A player who has lost his bind is taken from the list.                  *)
LEMMA Unbound ==
    ASSUME NEW w \in Worlds, Lists(w), AllKept(w), NEW p \in Players,
           NEW i \in Ids, w.bind[p] = i,
           NEW v \in Worlds,
           v.bind = [w.bind EXCEPT ![p] = NoId],
           v.gbind = w.gbind, v.save = w.save, v.used = w.used,
           v.stored \subseteq w.stored,
           v.events = w.events, v.online = w.online, v.at = w.at
    PROVE  /\ OnlySave(v, RemovePlayer(v, i, p))
           /\ Lists(RemovePlayer(v, i, p))
           /\ AllKept(RemovePlayer(v, i, p))
<1> DEFINE s == [v.save[i] EXCEPT !.players = @ \ {p}]
           u == SetSave(v, i, s)
<1>1. RemovePlayer(v, i, p) = UnloadIfEmpty(u, i)
    BY DEF RemovePlayer, SetSave
<1>0. /\ s \in Save /\ s.players = w.save[i].players \ {p}
      /\ s.groups = w.save[i].groups /\ s.known = w.save[i].known
    BY DEF Worlds, Save
<1> HIDE DEF s
<1>2. OnlySave(v, u)
    BY <1>0, SetSaveFacts
<1>9. \A j \in Ids : u.save[j] = IF j = i THEN s ELSE w.save[j]
    BY <1>0, SetSaveFacts
<1>3. \A j \in Ids : /\ u.save[j].players = IF j = i THEN w.save[j].players \ {p}
                                             ELSE w.save[j].players
                     /\ u.save[j].groups = w.save[j].groups
                     /\ u.save[j].known = w.save[j].known
    BY <1>0, <1>9
<1> HIDE DEF u
<1>4. /\ u \in Worlds
      /\ u.bind = v.bind /\ u.gbind = w.gbind /\ u.used = w.used
      /\ u.stored = v.stored /\ u.events = w.events /\ u.online = w.online /\ u.at = w.at
    BY <1>2, OnlySaveFacts
<1>5. \A q \in Players : u.bind[q] = IF q = p THEN NoId ELSE w.bind[q]
    BY <1>4 DEF Worlds
<1>6. Lists(u)
  <2> SUFFICES ASSUME NEW j \in Ids
               PROVE  /\ u.save[j].players = {q \in Players : u.bind[q] = j}
                      /\ u.save[j].groups = IF u.gbind = j THEN 1 ELSE 0
                      /\ u.save[j].players # {} \/ u.save[j].groups > 0
                            => u.save[j].known
    BY DEF Lists
  <2>1. j # NoId
    BY SavesAssumption DEF Ids, NoId
  <2>2. /\ w.save[j].players = {q \in Players : w.bind[q] = j}
        /\ w.save[j].groups = IF w.gbind = j THEN 1 ELSE 0
        /\ w.save[j].players # {} \/ w.save[j].groups > 0 => w.save[j].known
    BY DEF Lists
  <2>3. u.save[j].players = {q \in Players : u.bind[q] = j}
    <3>1. CASE j = i
      BY <1>3, <1>5, <2>1, <2>2, <3>1
    <3>2. CASE j # i
      <4>1. \A q \in Players : u.bind[q] = j <=> w.bind[q] = j
        BY <1>5, <2>1, <3>2
      <4> QED
        BY <1>3, <2>2, <3>2, <4>1
    <3> QED
      BY <3>1, <3>2
  <2> QED
    BY <1>3, <1>4, <2>2, <2>3
<1>7. AllKept(u)
  <2>1. \A j \in Ids : Inside(u, j) = Inside(w, j)
    BY <1>4 DEF Inside
  <2> QED
    BY <1>3, <1>4, <2>1 DEF AllKept, Taken, Kept, Worlds
<1>8. OnlySave(v, UnloadIfEmpty(u, i))
    BY <1>2, <1>4, UnloadFacts DEF OnlySave
<1> QED
    BY <1>1, <1>4, <1>6, <1>7, <1>8, UnloadKeeps

(* A party that has lost its bind is taken from the list.                  *)
LEMMA GroupUnbound ==
    ASSUME NEW w \in Worlds, Lists(w), AllKept(w), NEW i \in Ids, w.gbind = i,
           NEW v \in Worlds, v.gbind = NoId,
           v.bind = w.bind, v.save = w.save, v.used = w.used,
           v.stored \subseteq w.stored,
           v.events = w.events, v.online = w.online, v.at = w.at
    PROVE  /\ OnlySave(v, RemoveGroup(v, i))
           /\ Lists(RemoveGroup(v, i))
           /\ AllKept(RemoveGroup(v, i))
<1> DEFINE s == [v.save[i] EXCEPT !.groups = @ - 1]
           u == SetSave(v, i, s)
<1>0. /\ w.save[i].groups = 1
      /\ \A j \in Ids : j # NoId
    BY SavesAssumption DEF Lists, Ids, NoId
<1>1. RemoveGroup(v, i) = UnloadIfEmpty(u, i)
    BY DEF RemoveGroup, SetSave
<1>2. /\ s \in Save /\ s.players = w.save[i].players
      /\ s.groups = 0 /\ s.known = w.save[i].known
    BY <1>0 DEF Worlds, Save
<1> HIDE DEF s
<1>8. OnlySave(v, u)
    BY <1>2, SetSaveFacts
<1>3. \A j \in Ids : /\ u.save[j].groups = IF j = i THEN 0 ELSE w.save[j].groups
                     /\ u.save[j].players = w.save[j].players
                     /\ u.save[j].known = w.save[j].known
    BY <1>2, SetSaveFacts
<1> HIDE DEF u
<1>4. /\ u \in Worlds
      /\ u.bind = w.bind /\ u.gbind = NoId /\ u.used = w.used
      /\ u.stored = v.stored /\ u.events = w.events /\ u.online = w.online /\ u.at = w.at
    BY <1>8, OnlySaveFacts
<1>5. Lists(u)
    BY <1>0, <1>3, <1>4 DEF Lists
<1>6. AllKept(u)
  <2>1. \A j \in Ids : Inside(u, j) = Inside(w, j)
    BY <1>4 DEF Inside
  <2> QED
    BY <1>3, <1>4, <2>1 DEF AllKept, Taken, Kept, Worlds
<1>7. OnlySave(v, UnloadIfEmpty(u, i))
    BY <1>8, <1>4, UnloadFacts DEF OnlySave
<1> QED
    BY <1>1, <1>4, <1>5, <1>6, <1>7, UnloadKeeps

-----------------------------------------------------------------------------
(* Binds.                                                                  *)

(* A player gives up his bind.                                             *)
LEMMA UnbindFacts ==
    ASSUME NEW w \in Worlds, Lists(w), AllKept(w), NEW p \in Players
    PROVE  LET n == UnbindInstance(w, p) IN
           /\ n \in Worlds /\ Lists(n) /\ AllKept(n)
           /\ n.bind = [w.bind EXCEPT ![p] = NoId]
           /\ n.online = w.online /\ n.at = w.at /\ n.valid = w.valid
           /\ n.party = w.party /\ n.leader = w.leader /\ n.gbind = w.gbind
           /\ n.copy = w.copy /\ n.used = w.used
<1> DEFINE i == w.bind[p]
           v == [w EXCEPT !.bind[p] = NoId, !.row[p] = IF @ = i THEN NoId ELSE @]
<1>0. i \in Ids \cup {NoId} /\ NoId \in IdOrNone
    BY DEF Worlds, IdOrNone
<1>1. CASE i = NoId
  <2>1. UnbindInstance(w, p) = w /\ w.bind = [w.bind EXCEPT ![p] = NoId]
    BY <1>1 DEF UnbindInstance, Worlds
  <2> QED
    BY <2>1
<1>2. CASE i \in Ids
  <2>0. i # NoId
    BY <1>2 DEF Ids, NoId
  <2>1. UnbindInstance(w, p) = RemovePlayer(v, i, p)
    BY <2>0 DEF UnbindInstance
  <2>2. /\ v \in Worlds
        /\ v.bind = [w.bind EXCEPT ![p] = NoId]
        /\ v.online = w.online /\ v.at = w.at /\ v.valid = w.valid
        /\ v.party = w.party /\ v.leader = w.leader /\ v.gbind = w.gbind
        /\ v.copy = w.copy /\ v.used = w.used /\ v.events = w.events
        /\ v.save = w.save /\ v.stored = w.stored
    BY <1>0 DEF Worlds
  <2> HIDE DEF v, i
  <2>3. w.bind[p] = i
    BY DEF i
  <2>4. /\ OnlySave(v, RemovePlayer(v, i, p))
        /\ Lists(RemovePlayer(v, i, p)) /\ AllKept(RemovePlayer(v, i, p))
    BY <1>2, <2>2, <2>3, Unbound
  <2> QED
    BY <2>1, <2>2, <2>4, OnlySaveFacts
<1> QED
    BY <1>0, <1>1, <1>2

(* A player who has none is bound to a known save.                         *)
LEMMA BindPlayerFacts ==
    ASSUME NEW w \in Worlds, Lists(w), AllKept(w), NEW p \in Players, NEW i \in Ids,
           w.bind[p] = NoId, w.save[i].known
    PROVE  LET n == BindPlayer(w, p, i) IN
           /\ n \in Worlds /\ Lists(n) /\ AllKept(n)
           /\ n.bind = [w.bind EXCEPT ![p] = i]
           /\ \A j \in Ids : n.save[j].known <=> w.save[j].known
           /\ n.online = w.online /\ n.at = w.at /\ n.valid = w.valid
           /\ n.row = w.row /\ n.party = w.party /\ n.leader = w.leader
           /\ n.gbind = w.gbind /\ n.stored = w.stored /\ n.copy = w.copy
           /\ n.used = w.used /\ n.events = w.events
<1> DEFINE n == BindPlayer(w, p, i)
           s == [w.save[i] EXCEPT !.players = @ \cup {p}]
           v == [w EXCEPT !.bind = [w.bind EXCEPT ![p] = i]]
<1>0. i # NoId /\ i \in IdOrNone /\ \A j \in Ids : j # NoId
    BY DEF Ids, NoId, IdOrNone
<1>1. /\ s \in Save /\ s.players = w.save[i].players \cup {p}
      /\ s.groups = w.save[i].groups /\ s.known = w.save[i].known
    BY DEF Worlds, Save
<1>2. /\ v \in Worlds /\ v.bind = [w.bind EXCEPT ![p] = i] /\ v.save = w.save
      /\ v.online = w.online /\ v.at = w.at /\ v.valid = w.valid
      /\ v.row = w.row /\ v.party = w.party /\ v.leader = w.leader
      /\ v.gbind = w.gbind /\ v.stored = w.stored /\ v.copy = w.copy
      /\ v.used = w.used /\ v.events = w.events
    BY <1>0 DEF Worlds
<1>3. n = SetSave(v, i, s)
    BY <1>2 DEF BindPlayer, SetSave
<1> HIDE DEF n, s, v
<1>4. /\ OnlySave(v, n)
      /\ \A j \in Ids : n.save[j] = IF j = i THEN s ELSE w.save[j]
    BY <1>1, <1>2, <1>3, SetSaveFacts
<1>5. /\ n \in Worlds /\ n.bind = [w.bind EXCEPT ![p] = i]
      /\ n.online = w.online /\ n.at = w.at /\ n.valid = w.valid
      /\ n.row = w.row /\ n.party = w.party /\ n.leader = w.leader
      /\ n.gbind = w.gbind /\ n.stored = w.stored /\ n.copy = w.copy
      /\ n.used = w.used /\ n.events = w.events
    BY <1>2, <1>4, OnlySaveFacts
<1>6. \A q \in Players : n.bind[q] = IF q = p THEN i ELSE w.bind[q]
    BY <1>5 DEF Worlds
<1>7. Lists(n)
  <2> SUFFICES ASSUME NEW j \in Ids
               PROVE  /\ n.save[j].players = {q \in Players : n.bind[q] = j}
                      /\ n.save[j].groups = IF n.gbind = j THEN 1 ELSE 0
                      /\ n.save[j].players # {} \/ n.save[j].groups > 0
                            => n.save[j].known
    BY DEF Lists
  <2>1. /\ w.save[j].players = {q \in Players : w.bind[q] = j}
        /\ w.save[j].groups = IF w.gbind = j THEN 1 ELSE 0
        /\ w.save[j].players # {} \/ w.save[j].groups > 0 => w.save[j].known
    BY DEF Lists
  <2>2. CASE j = i
    <3>1. n.save[j].players = w.save[j].players \cup {p}
      BY <1>1, <1>4, <2>2
    <3>2. \A q \in Players : n.bind[q] = j <=> w.bind[q] = j \/ q = p
      BY <1>6, <2>2
    <3>3. n.save[j].groups = w.save[j].groups /\ n.save[j].known
      BY <1>1, <1>4, <2>2
    <3> QED
      BY <1>5, <2>1, <3>1, <3>2, <3>3
  <2>3. CASE j # i
    <3>1. \A q \in Players : n.bind[q] = j <=> w.bind[q] = j
      BY <1>0, <1>6, <2>3
    <3> QED
      BY <1>4, <1>5, <2>1, <2>3, <3>1
  <2> QED
    BY <2>2, <2>3
<1>8. \A j \in Ids : n.save[j].known <=> w.save[j].known
    BY <1>1, <1>4
<1>9. AllKept(n)
  <2>1. \A j \in Ids : Inside(n, j) = Inside(w, j)
    BY <1>5 DEF Inside
  <2> QED
    BY <1>5, <1>8, <2>1 DEF AllKept, Taken, Kept, Worlds
<1> QED
    BY <1>5, <1>7, <1>8, <1>9 DEF n

(* A party gives up its bind, if it has another one, for a known save.     *)
LEMMA BindGroupFacts ==
    ASSUME NEW w \in Worlds, Lists(w), AllKept(w), NEW i \in Ids, w.save[i].known
    PROVE  LET n == BindGroup(w, i) IN
           /\ n \in Worlds /\ Lists(n) /\ AllKept(n)
           /\ n.gbind = i
           /\ n.save[i].known
           /\ n.online = w.online /\ n.at = w.at /\ n.valid = w.valid
           /\ n.bind = w.bind /\ n.row = w.row
           /\ n.party = w.party /\ n.leader = w.leader
           /\ n.stored = w.stored /\ n.copy = w.copy
           /\ n.used = w.used /\ n.events = w.events
<1> DEFINE g == w.gbind
           n == BindGroup(w, i)
           out == IF g \in {NoId, i} THEN w ELSE RemoveGroup(w, g)
           s == [out.save[i] EXCEPT !.groups = IF g = i THEN @ ELSE @ + 1]
           v == [out EXCEPT !.gbind = i]
<1>0. /\ i # NoId /\ i \in IdOrNone /\ \A j \in Ids : j # NoId
      /\ g \in Ids \cup {NoId}
    BY DEF Ids, NoId, IdOrNone, Worlds
<1>1. /\ OnlySave(w, out)
      /\ AllKept(out)
      /\ \A j \in Ids :
            /\ out.save[j].players = w.save[j].players
            /\ out.save[j].groups = IF j = i /\ g = i THEN 1 ELSE 0
            /\ out.save[j].known \/ (~w.save[j].known) \/ out.save[j].players = {}
      /\ out.save[i].known
  <2>1. CASE g \in {NoId, i}
    <3>1. out = w
      BY <2>1
    <3> QED
      BY <1>0, <2>1, <3>1 DEF OnlySave, Worlds, Lists
  <2>2. CASE g \notin {NoId, i}
    <3> DEFINE r == [w.save[g] EXCEPT !.groups = @ - 1]
               u == SetSave(w, g, r)
    <3>1. g \in Ids /\ out = UnloadIfEmpty(u, g)
      BY <1>0, <2>2 DEF RemoveGroup, SetSave
    <3>2. w.save[g].groups = 1
      BY <3>1 DEF Lists
    <3> HIDE DEF out, g
    <3>14. w.save[g] \in Save
      BY <3>1 DEF Worlds
    <3>3. /\ r \in Save /\ r.players = w.save[g].players /\ r.groups = 0
          /\ r.known = w.save[g].known
      BY <3>2, <3>14 DEF Save
    <3> HIDE DEF r
    <3>4. /\ OnlySave(w, u)
          /\ \A j \in Ids : u.save[j] = IF j = g THEN r ELSE w.save[j]
      BY <3>1, <3>3, SetSaveFacts
    <3> HIDE DEF u
    <3>5. /\ u \in Worlds /\ u.online = w.online /\ u.at = w.at
          /\ u.used = w.used /\ u.events = w.events /\ u.stored = w.stored
      BY <3>4, OnlySaveFacts
    <3>6. AllKept(u)
      <4>1. \A j \in Ids : Inside(u, j) = Inside(w, j)
        BY <3>5 DEF Inside
      <4>2. \A j \in Ids : u.save[j].known <=> w.save[j].known
        BY <3>3, <3>4
      <4> QED
        BY <3>5, <4>1, <4>2 DEF AllKept, Taken, Kept
    <3>7. AllKept(out)
      BY <3>1, <3>5, <3>6, UnloadKeeps
    <3>8. /\ OnlySave(u, out)
          /\ \A j \in Ids :
                /\ out.save[j].players = u.save[j].players
                /\ out.save[j].groups = u.save[j].groups
                /\ out.save[j].known <=> u.save[j].known /\ ~(j = g /\ Empty(u, g))
      BY <3>1, <3>5, UnloadFacts
    <3>9. OnlySave(w, out)
      BY <3>4, <3>8 DEF OnlySave
    <3>10. \A j \in Ids : w.save[j].groups = IF g = j THEN 1 ELSE 0
      BY DEF Lists, g
    <3>11. \A j \in Ids : out.save[j].groups = 0
      BY <3>3, <3>4, <3>8, <3>10
    <3>12. \A j \in Ids : /\ out.save[j].players = w.save[j].players
                          /\ \/ out.save[j].known
                             \/ ~w.save[j].known
                             \/ out.save[j].players = {}
      BY <3>3, <3>4, <3>8 DEF Empty
    <3>13. out.save[i].known
      BY <2>2, <3>4, <3>8
    <3> QED
      BY <2>2, <3>7, <3>9, <3>11, <3>12, <3>13
  <2> QED
    BY <2>1, <2>2
<1>2. n = SetSave(v, i, s)
    BY DEF BindGroup, SetSave
<1> HIDE DEF n, out, s
<1>3. /\ out \in Worlds
      /\ out.online = w.online /\ out.at = w.at /\ out.valid = w.valid
      /\ out.bind = w.bind /\ out.row = w.row
      /\ out.party = w.party /\ out.leader = w.leader
      /\ out.stored = w.stored /\ out.copy = w.copy
      /\ out.used = w.used /\ out.events = w.events
    BY <1>1, OnlySaveFacts
<1>4. /\ v \in Worlds /\ v.gbind = i /\ v.save = out.save
      /\ v.online = w.online /\ v.at = w.at /\ v.valid = w.valid
      /\ v.bind = w.bind /\ v.row = w.row
      /\ v.party = w.party /\ v.leader = w.leader
      /\ v.stored = w.stored /\ v.copy = w.copy
      /\ v.used = w.used /\ v.events = w.events
    BY <1>0, <1>3 DEF Worlds
<1>5. /\ s \in Save /\ s.players = w.save[i].players /\ s.groups = 1
      /\ s.known
  <2>1. out.save[i] \in Save
    BY <1>3 DEF Worlds
  <2> QED
    BY <1>1, <2>1 DEF Save, s
<1> HIDE DEF v
<1>6. /\ OnlySave(v, n)
      /\ \A j \in Ids : n.save[j] = IF j = i THEN s ELSE out.save[j]
    BY <1>2, <1>4, <1>5, SetSaveFacts
<1>7. /\ n \in Worlds /\ n.gbind = i
      /\ n.online = w.online /\ n.at = w.at /\ n.valid = w.valid
      /\ n.bind = w.bind /\ n.row = w.row
      /\ n.party = w.party /\ n.leader = w.leader
      /\ n.stored = w.stored /\ n.copy = w.copy
      /\ n.used = w.used /\ n.events = w.events
    BY <1>4, <1>6, OnlySaveFacts
<1>8. Lists(n)
  <2> SUFFICES ASSUME NEW j \in Ids
               PROVE  /\ n.save[j].players = {q \in Players : n.bind[q] = j}
                      /\ n.save[j].groups = IF n.gbind = j THEN 1 ELSE 0
                      /\ n.save[j].players # {} \/ n.save[j].groups > 0
                            => n.save[j].known
    BY DEF Lists
  <2>1. /\ w.save[j].players = {q \in Players : w.bind[q] = j}
        /\ w.save[j].players # {} => w.save[j].known
    BY DEF Lists
  <2>2. CASE j = i
    BY <1>5, <1>6, <1>7, <2>1, <2>2
  <2>3. CASE j # i
    BY <1>1, <1>6, <1>7, <2>1, <2>3
  <2> QED
    BY <2>2, <2>3
<1>9. AllKept(n)
  <2>1. \A j \in Ids : Inside(n, j) = Inside(out, j)
    BY <1>3, <1>7 DEF Inside
  <2>2. \A j \in Ids : out.save[j].known <=> n.save[j].known
    BY <1>1, <1>5, <1>6
  <2>3. ASSUME NEW j \in Ids, Taken(n, j)
        PROVE  Kept(n, j)
    <3>1. Kept(out, j)
      BY <1>1, <1>3, <1>7, <2>2, <2>3 DEF AllKept, Taken
    <3> QED
      BY <1>3, <1>7, <2>1, <2>2, <3>1 DEF Kept
  <2> QED
    BY <2>3 DEF AllKept
<1> QED
    BY <1>5, <1>6, <1>7, <1>8, <1>9 DEF n

-----------------------------------------------------------------------------
(* Schedules.                                                              *)

(* A counter that stops at 0.                                              *)
LEMMA MaxFacts ==
    ASSUME NEW m \in Nat
    PROVE  Max({m - 1, 0}) \in Nat
<1>1. CASE m = 0
  <2>1. 0 \in {m - 1, 0} /\ \A y \in {m - 1, 0} : 0 >= y
    BY <1>1
  <2>2. /\ Max({m - 1, 0}) \in {m - 1, 0}
        /\ \A y \in {m - 1, 0} : Max({m - 1, 0}) >= y
    BY <2>1 DEF Max
  <2> QED
    BY <1>1, <2>2
<1>2. CASE m # 0
  <2>1. m - 1 \in {m - 1, 0} /\ \A y \in {m - 1, 0} : m - 1 >= y
    BY <1>2
  <2>2. Max({m - 1, 0}) \in {m - 1, 0}
    BY <2>1 DEF Max
  <2> QED
    BY <1>2, <2>2
<1> QED
    BY <1>1, <1>2

(* The events of one id change, and there is one after its copy was left.  *)
LEMMA ScheduleFacts ==
    ASSUME NEW w \in Worlds, NEW i \in Ids, NEW on \in BOOLEAN
    PROVE  LET n == SetResetSchedule(w, i, on) IN
           /\ n \in Worlds
           /\ n.online = w.online /\ n.at = w.at /\ n.valid = w.valid
           /\ n.bind = w.bind /\ n.row = w.row /\ n.party = w.party
           /\ n.leader = w.leader /\ n.gbind = w.gbind /\ n.save = w.save
           /\ n.stored = w.stored /\ n.copy = w.copy /\ n.used = w.used
           /\ \A j \in Ids : j # i => n.events[j] = w.events[j]
           /\ on => /\ n.events[i] >= w.events[i]
                    /\ w.save[i].known /\ Inside(w, i) = {} => n.events[i] > 0
<1> DEFINE n == SetResetSchedule(w, i, on)
           e == IF on THEN w.events[i] + 1 ELSE Max({w.events[i] - 1, 0})
<1>0. w.events \in [Ids -> Nat]
    BY DEF Worlds
<1>1. e \in Nat /\ (on => e = w.events[i] + 1)
    BY <1>0, MaxFacts
<1>2. CASE Inside(w, i) # {} \/ ~w.save[i].known
  <2>1. n = w
    BY <1>2 DEF SetResetSchedule
  <2> QED
    BY <1>0, <1>2, <2>1
<1>3. CASE ~(Inside(w, i) # {} \/ ~w.save[i].known)
  <2>1. n = [w EXCEPT !.events = [w.events EXCEPT ![i] = e]]
    BY <1>3 DEF SetResetSchedule
  <2> HIDE DEF e, n
  <2>2. /\ n \in Worlds
        /\ n.online = w.online /\ n.at = w.at /\ n.valid = w.valid
        /\ n.bind = w.bind /\ n.row = w.row /\ n.party = w.party
        /\ n.leader = w.leader /\ n.gbind = w.gbind /\ n.save = w.save
        /\ n.stored = w.stored /\ n.copy = w.copy /\ n.used = w.used
        /\ n.events = [w.events EXCEPT ![i] = e]
    BY <1>1, <2>1 DEF Worlds
  <2>3. \A j \in Ids : n.events[j] = IF j = i THEN e ELSE w.events[j]
    BY <1>0, <2>2
  <2> QED
    BY <1>0, <1>1, <2>2, <2>3 DEF n
<1> QED
    BY <1>2, <1>3

(* A save becomes known; a new one has an event.                           *)
LEMMA AddInstanceSaveFacts ==
    ASSUME NEW w \in Worlds, NEW i \in Ids, NEW load \in BOOLEAN
    PROVE  LET n == AddInstanceSave(w, i, load) IN
           /\ n \in Worlds /\ (Lists(w) => Lists(n))
           /\ n.save[i].known
           /\ \A j \in Ids : j # i => (n.save[j].known <=> w.save[j].known)
           /\ \A j \in Ids : j # i => n.events[j] = w.events[j]
           /\ n.events[i] >= w.events[i]
           /\ ~load /\ ~w.save[i].known => n.events[i] > 0
           /\ n.stored \subseteq w.stored \cup {i}
           /\ n.online = w.online /\ n.at = w.at /\ n.valid = w.valid
           /\ n.bind = w.bind /\ n.row = w.row /\ n.party = w.party
           /\ n.leader = w.leader /\ n.gbind = w.gbind /\ n.copy = w.copy
           /\ n.used = w.used
<1> DEFINE n == AddInstanceSave(w, i, load)
           s == [w.save[i] EXCEPT !.known = TRUE]
           u == SetSave(w, i, s)
<1>0. w.events \in [Ids -> Nat] /\ w.save[i] \in Save
    BY DEF Worlds
<1>1. CASE w.save[i].known
  <2>1. n = w
    BY <1>1 DEF AddInstanceSave
  <2> QED
    BY <1>0, <1>1, <2>1
<1>2. CASE ~w.save[i].known
  <2>1. /\ s \in Save /\ s.known
        /\ s.players = w.save[i].players /\ s.groups = w.save[i].groups
    BY <1>0 DEF Save
  <2> HIDE DEF s
  <2>2. /\ OnlySave(w, u)
        /\ \A j \in Ids : u.save[j] = IF j = i THEN s ELSE w.save[j]
    BY <2>1, SetSaveFacts
  <2>3. /\ u \in Worlds
        /\ u.online = w.online /\ u.at = w.at /\ u.valid = w.valid
        /\ u.bind = w.bind /\ u.row = w.row /\ u.party = w.party
        /\ u.leader = w.leader /\ u.gbind = w.gbind /\ u.stored = w.stored
        /\ u.copy = w.copy /\ u.used = w.used /\ u.events = w.events
    BY <2>2, OnlySaveFacts
  <2>4. n = IF load THEN u
            ELSE [u EXCEPT !.stored = @ \cup {i},
                           !.events = [u.events EXCEPT ![i] = @ + 1]]
    BY <1>2 DEF AddInstanceSave, SetSave, u, s
  <2> HIDE DEF n, u
  <2>5. /\ n \in Worlds /\ n.save = u.save
        /\ n.online = w.online /\ n.at = w.at /\ n.valid = w.valid
        /\ n.bind = w.bind /\ n.row = w.row /\ n.party = w.party
        /\ n.leader = w.leader /\ n.gbind = w.gbind /\ n.copy = w.copy
        /\ n.used = w.used /\ n.stored \subseteq w.stored \cup {i}
        /\ n.events \in {u.events, [u.events EXCEPT ![i] = @ + 1]}
        /\ ~load => n.events = [u.events EXCEPT ![i] = @ + 1]
    <3>1. CASE load
      BY <2>3, <2>4, <3>1
    <3>2. CASE ~load
      <4> DEFINE more == [u.events EXCEPT ![i] = @ + 1]
      <4>1. more \in [Ids -> Nat] /\ u.stored \cup {i} \in SUBSET Ids
        BY <2>3 DEF Worlds
      <4>2. n = [u EXCEPT !.stored = @ \cup {i}, !.events = more]
        BY <2>4, <3>2
      <4> HIDE DEF more
      <4>3. /\ n \in Worlds /\ n.save = u.save /\ n.events = more
            /\ n.online = u.online /\ n.at = u.at /\ n.valid = u.valid
            /\ n.bind = u.bind /\ n.row = u.row /\ n.party = u.party
            /\ n.leader = u.leader /\ n.gbind = u.gbind /\ n.copy = u.copy
            /\ n.used = u.used /\ n.stored = u.stored \cup {i}
        BY <2>3, <4>1, <4>2 DEF Worlds
      <4> QED
        BY <2>3, <4>3 DEF more
    <3> QED
      BY <3>1, <3>2
  <2>6. /\ \A j \in Ids : j # i => n.events[j] = w.events[j]
        /\ n.events[i] >= w.events[i]
        /\ ~load => n.events[i] > 0
    BY <1>0, <2>3, <2>5
  <2>7. Lists(w) => Lists(n)
    BY <2>1, <2>2, <2>5 DEF Lists
  <2>8. /\ n.save[i].known
        /\ \A j \in Ids : j # i => (n.save[j].known <=> w.save[j].known)
    BY <2>1, <2>2, <2>5
  <2> QED
    BY <2>5, <2>6, <2>7, <2>8 DEF n
<1> QED
    BY <1>1, <1>2

(* A player has left a copy: its reset is scheduled before its save may be *)
(* dropped.  out is w without him.                                         *)
LEMMA RemoveFromMapFacts ==
    ASSUME NEW w \in Worlds, AllKept(w), NEW p \in Players,
           w.at[p] \in Ids,
           NEW out \in Worlds, Lists(out),
           out.used = w.used, out.events = w.events,
           out.save = w.save, out.stored = w.stored,
           \A j \in Ids : j # w.at[p] => Inside(out, j) = Inside(w, j)
    PROVE  LET n == RemovePlayerFromMap(w, p, out) IN
           /\ n \in Worlds /\ Lists(n) /\ AllKept(n)
           /\ n.online = out.online /\ n.at = out.at /\ n.valid = out.valid
           /\ n.bind = out.bind /\ n.row = out.row /\ n.party = out.party
           /\ n.leader = out.leader /\ n.gbind = out.gbind
           /\ n.used = out.used
<1> DEFINE i == w.at[p]
           t == StartTimer(w, i, p)
           u == [out EXCEPT !.copy = [out.copy EXCEPT ![i] = t]]
           v == SetResetSchedule(u, i, TRUE)
           n == RemovePlayerFromMap(w, p, out)
<1>1. n = UnloadIfEmpty(v, i)
    BY DEF RemovePlayerFromMap
<1>2. t \in {"none", "loaded", "unloading"}
    BY DEF StartTimer, Worlds
<1> HIDE DEF t, i
<1>0. i \in Ids
    BY DEF i
<1>3. /\ u \in Worlds /\ u.save = out.save /\ u.events = out.events
      /\ u.online = out.online /\ u.at = out.at /\ u.valid = out.valid
      /\ u.bind = out.bind /\ u.row = out.row /\ u.party = out.party
      /\ u.leader = out.leader /\ u.gbind = out.gbind
      /\ u.used = out.used /\ u.stored = out.stored
    BY <1>0, <1>2 DEF Worlds
<1> HIDE DEF u, n
<1> HIDE DEF v
<1>11. TRUE \in BOOLEAN
    OBVIOUS
<1>12. /\ \A j \in Ids : j # i => v.events[j] = u.events[j]
       /\ v.events[i] >= u.events[i]
       /\ u.save[i].known /\ Inside(u, i) = {} => v.events[i] > 0
    BY <1>0, <1>3, <1>11, ScheduleFacts DEF v
<1>13. /\ v \in Worlds /\ v.save = u.save
       /\ v.online = u.online /\ v.at = u.at /\ v.valid = u.valid
       /\ v.bind = u.bind /\ v.row = u.row /\ v.party = u.party
       /\ v.leader = u.leader /\ v.gbind = u.gbind
       /\ v.used = u.used /\ v.stored = u.stored
    BY <1>0, <1>3, <1>11, ScheduleFacts DEF v
<1>4. /\ v \in Worlds /\ v.save = out.save
      /\ v.online = out.online /\ v.at = out.at /\ v.valid = out.valid
      /\ v.bind = out.bind /\ v.row = out.row /\ v.party = out.party
      /\ v.leader = out.leader /\ v.gbind = out.gbind
      /\ v.used = out.used /\ v.stored = out.stored
      /\ \A j \in Ids : j # i => v.events[j] = out.events[j]
      /\ v.events[i] >= out.events[i]
      /\ out.save[i].known /\ Inside(u, i) = {} => v.events[i] > 0
    BY <1>3, <1>12, <1>13
<1>5. Lists(v)
    BY <1>4 DEF Lists
<1>6. \A j \in Ids : Inside(v, j) = Inside(out, j) /\ Inside(u, j) = Inside(out, j)
    BY <1>3, <1>4 DEF Inside
<1>7. /\ out.events \in [Ids -> Nat] /\ v.events \in [Ids -> Nat]
    BY <1>4 DEF Worlds
<1>8. ASSUME NEW j \in Ids, Taken(v, j)
      PROVE  Kept(v, j)
  <2>1. Kept(w, j)
    BY <1>4, <1>8 DEF AllKept, Taken
  <2>2. CASE w.events[j] > 0
    BY <1>4, <1>7, <2>1, <2>2 DEF Kept
  <2>3. CASE w.save[j].known /\ Inside(w, j) # {}
    <3>1. out.save[j].known
      BY <2>1, <2>3
    <3>2. CASE j = i
      BY <1>4, <1>6, <2>1, <3>1, <3>2 DEF Kept
    <3>3. CASE j # i
      BY <1>4, <1>6, <2>1, <2>3, <3>1, <3>3 DEF Kept, i
    <3> QED
      BY <3>2, <3>3
  <2> QED
    BY <2>1, <2>2, <2>3 DEF Kept
<1>9. AllKept(v)
    BY <1>8 DEF AllKept
<1>10. Lists(n) /\ AllKept(n) /\ OnlySave(v, n)
    BY <1>0, <1>1, <1>4, <1>5, <1>9, UnloadKeeps, UnloadFacts
<1> QED
    BY <1>4, <1>10, OnlySaveFacts DEF n

-----------------------------------------------------------------------------
(* Worlds in which the binds, the saves and who is inside are the same.    *)

(* A save that is not known yet will get its event when it is added.       *)
KeptBut(w, i) ==
    \A j \in Ids : Taken(w, j) /\ (j # i \/ w.save[j].known) => Kept(w, j)

(* What depends on these fields only stays as it was.                      *)
LEMMA Frame ==
    ASSUME NEW w \in Worlds, NEW n,
           n.bind = w.bind, n.gbind = w.gbind, n.save = w.save,
           n.online = w.online, n.at = w.at, n.events = w.events,
           n.stored \subseteq w.stored
    PROVE  /\ \A j : Inside(n, j) = Inside(w, j)
           /\ Lists(w) => Lists(n)
           /\ Homes(w) => Homes(n)
           /\ AllKept(w) /\ n.used \subseteq w.used => AllKept(n)
           /\ \A i \in Ids : AllKept(w) /\ n.used \subseteq w.used \cup {i}
                            => KeptBut(n, i)
<1>1. \A j : Inside(n, j) = Inside(w, j)
    BY DEF Inside
<1>2. Lists(w) => Lists(n)
    BY DEF Lists
<1>3. Homes(w) => Homes(n)
    BY DEF Homes
<1>4. AllKept(w) /\ n.used \subseteq w.used => AllKept(n)
    BY <1>1 DEF AllKept, Taken, Kept
<1>5. ASSUME NEW i \in Ids, AllKept(w), n.used \subseteq w.used \cup {i}
      PROVE  KeptBut(n, i)
  <2> SUFFICES ASSUME NEW j \in Ids, Taken(n, j), j # i \/ n.save[j].known
               PROVE  Kept(n, j)
    BY DEF KeptBut
  <2>1. Taken(w, j)
    BY <1>5 DEF Taken
  <2> QED
    BY <1>1, <1>5, <2>1 DEF AllKept, Kept
<1> QED
    BY <1>1, <1>2, <1>3, <1>4, <1>5

(* The copy of an instance exists, or its unload timer starts.             *)
SetCopy(w, i, c) == [w EXCEPT !.copy = [w.copy EXCEPT ![i] = c]]

(* A copy is loaded or unloaded, and nothing else changes.                 *)
LEMMA SetCopyFacts ==
    ASSUME NEW w \in Worlds, NEW i \in Ids,
           NEW c \in {"none", "loaded", "unloading"}
    PROVE  LET n == SetCopy(w, i, c) IN
           /\ n \in Worlds
           /\ n.online = w.online /\ n.at = w.at /\ n.valid = w.valid
           /\ n.bind = w.bind /\ n.row = w.row /\ n.party = w.party
           /\ n.leader = w.leader /\ n.gbind = w.gbind /\ n.save = w.save
           /\ n.stored = w.stored /\ n.used = w.used /\ n.events = w.events
    BY DEF SetCopy, Worlds

(* InstanceMap::Reset leaves all but the copies alone.                     *)
LEMMA ResetFacts ==
    ASSUME NEW w \in Worlds, NEW i \in Ids
    PROVE  LET n == Reset(w, i) IN
           /\ n \in Worlds
           /\ n.online = w.online /\ n.at = w.at /\ n.valid = w.valid
           /\ n.bind = w.bind /\ n.row = w.row /\ n.party = w.party
           /\ n.leader = w.leader /\ n.gbind = w.gbind /\ n.save = w.save
           /\ n.stored = w.stored /\ n.used = w.used /\ n.events = w.events
<1>1. Reset(w, i) \in {w, SetCopy(w, i, "unloading")}
    BY DEF Reset, SetCopy
<1> QED
    BY <1>1, SetCopyFacts

(* MapInstanced::CreateInstance leaves all but the copies alone.           *)
LEMMA CreateInstanceFacts ==
    ASSUME NEW w \in Worlds, NEW i \in Ids
    PROVE  LET n == CreateInstance(w, i) IN
           /\ n \in Worlds
           /\ n.online = w.online /\ n.at = w.at /\ n.valid = w.valid
           /\ n.bind = w.bind /\ n.row = w.row /\ n.party = w.party
           /\ n.leader = w.leader /\ n.gbind = w.gbind /\ n.save = w.save
           /\ n.stored = w.stored /\ n.used = w.used /\ n.events = w.events
<1>1. CreateInstance(w, i) \in {w, SetCopy(w, i, "unloading")}
    BY DEF CreateInstance, SetCopy
<1> QED
    BY <1>1, SetCopyFacts

(* The rows of an instance are deleted.                                    *)
LEMMA DeleteFacts ==
    ASSUME NEW w \in Worlds, NEW i \in Ids
    PROVE  LET n == DeleteInstanceFromDB(w, i) IN
           /\ n \in Worlds
           /\ n.online = w.online /\ n.at = w.at /\ n.valid = w.valid
           /\ n.bind = w.bind /\ n.party = w.party /\ n.leader = w.leader
           /\ n.gbind = w.gbind /\ n.save = w.save /\ n.copy = w.copy
           /\ n.used = w.used /\ n.events = w.events
           /\ n.stored = w.stored \ {i}
<1> DEFINE r == [p \in Players |-> IF w.row[p] = i THEN NoId ELSE w.row[p]]
<1>1. r \in [Players -> IdOrNone]
    BY DEF Worlds, IdOrNone
<1>2. DeleteInstanceFromDB(w, i) = [w EXCEPT !.stored = @ \ {i}, !.row = r]
    BY DEF DeleteInstanceFromDB
<1> HIDE DEF r
<1> QED
    BY <1>1, <1>2 DEF Worlds

(* Min of a set of numbers that is not empty.                              *)
LEMMA MinFacts ==
    ASSUME NEW S \in SUBSET Nat, S # {}
    PROVE  Min(S) \in S
<1>1. PICK x \in S : \A y \in S : <<y, x>> \notin OpToRel(<, Nat)
    BY NatLessThanWellFounded, WFMin
<1>2. \A y \in S : ~(y < x)
    BY <1>1 DEF OpToRel
<1>3. \A y \in S : x =< y
    BY <1>2
<1> QED
    BY <1>3 DEF Min
-----------------------------------------------------------------------------
(* In and out of copies.                                                   *)

(* Sound, with the save of i still to be added.                            *)
SoundBut(w, i) ==
    w \in Worlds /\ Lists(w) /\ Homes(w) /\ KeptBut(w, i) /\ Placed(w)

(* A new save has an event; a loaded one has it already.                   *)
LEMMA AddKept ==
    ASSUME NEW w \in Worlds, NEW i \in Ids, NEW load \in BOOLEAN,
           IF load THEN AllKept(w) /\ i \in w.stored ELSE KeptBut(w, i)
    PROVE  AllKept(AddInstanceSave(w, i, load))
<1> DEFINE n == AddInstanceSave(w, i, load)
<1>0. w.events \in [Ids -> Nat]
    BY DEF Worlds
<1>1. /\ n \in Worlds /\ n.used = w.used
      /\ \A j \in Ids : j # i => n.events[j] = w.events[j]
      /\ n.events[i] >= w.events[i]
      /\ ~load /\ ~w.save[i].known => n.events[i] > 0
      /\ n.stored \subseteq w.stored \cup {i}
      /\ n.save[i].known
      /\ \A j \in Ids : j # i => (n.save[j].known <=> w.save[j].known)
      /\ n.online = w.online /\ n.at = w.at
    BY AddInstanceSaveFacts
<1> HIDE DEF n
<1>2. \A j \in Ids : Inside(n, j) = Inside(w, j)
    BY <1>1 DEF Inside
<1>3. n.events \in [Ids -> Nat]
    BY <1>1 DEF Worlds
<1> SUFFICES ASSUME NEW j \in Ids, Taken(n, j)
             PROVE  Kept(n, j)
    BY DEF AllKept, n
<1>4. CASE j # i
  <2>1. Taken(w, j)
    BY <1>1, <1>4 DEF Taken
  <2>2. Kept(w, j)
    BY <1>4, <2>1 DEF AllKept, KeptBut
  <2> QED
    BY <1>1, <1>2, <1>4, <2>2 DEF Kept
<1>5. CASE j = i /\ ~load /\ ~w.save[i].known
    BY <1>1, <1>5 DEF Kept
<1>6. CASE j = i /\ (load \/ w.save[i].known)
  <2>1. Kept(w, i)
    BY <1>6 DEF AllKept, KeptBut, Taken
  <2> QED
    BY <1>0, <1>1, <1>2, <1>3, <1>6, <2>1 DEF Kept
<1> QED
    BY <1>4, <1>5, <1>6

(* A player is taken out of his copy.                                      *)
LEMMA LeaveFacts ==
    ASSUME NEW w, Sound(w), NEW p \in Players, w.at[p] # NoId
    PROVE  LET n == Leave(w, p) IN
           /\ Sound(n)
           /\ n.at = [w.at EXCEPT ![p] = NoId]
           /\ n.online = w.online /\ n.bind = w.bind
           /\ n.party = w.party /\ n.leader = w.leader /\ n.gbind = w.gbind
<1> DEFINE out == [w EXCEPT !.at[p] = NoId, !.valid[p] = TRUE]
           n == RemovePlayerFromMap(w, p, out)
<1>0. w \in Worlds /\ Lists(w) /\ Homes(w) /\ AllKept(w) /\ Placed(w)
    BY DEF Sound
<1>1. w.at[p] \in Ids /\ NoId \in IdOrNone
    BY <1>0 DEF Worlds, IdOrNone
<1>2. /\ out \in Worlds
      /\ out.at = [w.at EXCEPT ![p] = NoId]
      /\ out.valid = [w.valid EXCEPT ![p] = TRUE]
      /\ out.online = w.online /\ out.bind = w.bind /\ out.save = w.save
      /\ out.stored = w.stored /\ out.used = w.used /\ out.events = w.events
      /\ out.party = w.party /\ out.leader = w.leader /\ out.gbind = w.gbind
    BY <1>0, <1>1 DEF Worlds
<1> HIDE DEF out
<1>3. \A q \in Players : out.at[q] = IF q = p THEN NoId ELSE w.at[q]
    BY <1>0, <1>2 DEF Worlds
<1>9. \A q \in Players : out.valid[q] = IF q = p THEN TRUE ELSE w.valid[q]
    BY <1>0, <1>2 DEF Worlds
<1>4. \A j \in Ids : j # w.at[p] => Inside(out, j) = Inside(w, j)
  <2> SUFFICES ASSUME NEW j \in Ids, j # w.at[p]
               PROVE  Inside(out, j) = Inside(w, j)
    OBVIOUS
  <2>1. j # NoId
    BY DEF Ids, NoId
  <2>2. w.online \subseteq Players
    BY <1>0 DEF Worlds
  <2> QED
    BY <1>2, <1>3, <2>1, <2>2 DEF Inside
<1>5. Lists(out)
    BY <1>0, <1>2 DEF Lists
<1> HIDE DEF n
<1>6. /\ n \in Worlds /\ Lists(n) /\ AllKept(n)
      /\ n.online = out.online /\ n.at = out.at /\ n.valid = out.valid
      /\ n.bind = out.bind /\ n.party = out.party
      /\ n.leader = out.leader /\ n.gbind = out.gbind
    BY <1>0, <1>1, <1>2, <1>4, <1>5, RemoveFromMapFacts DEF n
<1>7. Homes(n)
    BY <1>0, <1>2, <1>6 DEF Homes
<1>10. Placed(n)
    BY <1>0, <1>3, <1>6, <1>9 DEF Placed
<1>8. Leave(w, p) = n
    BY DEF Leave, n, out
<1> QED
    BY <1>2, <1>6, <1>7, <1>8, <1>10 DEF Sound

(* Who may stay in his copy, or is in none, is valid.                      *)
LEMMA ValidateFacts ==
    ASSUME NEW w, Sound(w), NEW p \in Players
    PROVE  LET n == Validate(w, p) IN
           /\ Sound(n)
           /\ n.online = w.online /\ n.at = w.at /\ n.bind = w.bind
           /\ n.party = w.party /\ n.leader = w.leader /\ n.gbind = w.gbind
<1> DEFINE c == CheckInstanceValidity(w, p, w.at[p], Inside(w, w.at[p]))
           n == Validate(w, p)
<1>0. w \in Worlds /\ Lists(w) /\ Homes(w) /\ AllKept(w) /\ Placed(w)
    BY DEF Sound
<1>1. c \in BOOLEAN /\ (w.at[p] = NoId => c)
    BY DEF CheckInstanceValidity
<1>2. n = [w EXCEPT !.valid = [w.valid EXCEPT ![p] = c]]
    BY DEF Validate
<1> HIDE DEF c, n
<1>3. /\ n \in Worlds
      /\ n.valid = [w.valid EXCEPT ![p] = c]
      /\ n.online = w.online /\ n.at = w.at /\ n.bind = w.bind
      /\ n.party = w.party /\ n.leader = w.leader /\ n.gbind = w.gbind
      /\ n.save = w.save /\ n.events = w.events /\ n.stored = w.stored
      /\ n.used = w.used
    BY <1>0, <1>1, <1>2 DEF Worlds
<1>4. \A q \in Players : n.valid[q] <=> IF q = p THEN c ELSE w.valid[q]
    BY <1>0, <1>3 DEF Worlds
<1>5. Placed(n)
    BY <1>0, <1>1, <1>3, <1>4 DEF Placed
<1>6. Lists(n) /\ Homes(n) /\ AllKept(n)
    BY <1>0, <1>3, Frame
<1> QED
    BY <1>3, <1>5, <1>6 DEF Sound, n

(* A player enters a copy, with the save of which he or his party is bound *)
(* then; or he is refused.                                                 *)
LEMMA AddPlayerFacts ==
    ASSUME NEW i \in Ids, NEW w, SoundBut(w, i), NEW p \in w.online,
           w.at[p] = NoId
    PROVE  LET n == AddPlayerToMap(w, p, i) IN
           /\ Sound(n)
           /\ n.online = w.online /\ n.party = w.party
           /\ n.valid = w.valid
           /\ n.at \in {w.at, [w.at EXCEPT ![p] = i]}
           /\ n.gbind = w.gbind \/ p \in w.party
<1> DEFINE a == AddInstanceSave(w, i, FALSE)
           b == IF p \in w.party THEN BindGroup(a, i)
                ELSE IF w.bind[p] # NoId THEN a
                ELSE [BindPlayer(a, p, i) EXCEPT !.row[p] = i]
           c == SetResetSchedule(b, i, FALSE)
           m == SetCopy([c EXCEPT !.at[p] = i], i, "loaded")
           n == AddPlayerToMap(w, p, i)
<1>0. /\ w \in Worlds /\ Lists(w) /\ Homes(w) /\ KeptBut(w, i) /\ Placed(w)
      /\ p \in Players /\ FALSE \in BOOLEAN /\ i \in IdOrNone
    BY DEF SoundBut, Worlds, IdOrNone
<1>1. n = IF ~Accepts(w, p, i) THEN a ELSE m
    BY DEF AddPlayerToMap, SetCopy
<1> HIDE DEF n, m, c
<1>2. /\ a \in Worlds /\ Lists(a) /\ a.save[i].known
      /\ a.online = w.online /\ a.at = w.at /\ a.valid = w.valid
      /\ a.bind = w.bind /\ a.party = w.party /\ a.gbind = w.gbind
    BY <1>0, AddInstanceSaveFacts
<1>3. AllKept(a)
    BY <1>0, AddKept
<1> HIDE DEF a
<1>4. Homes(a) /\ Placed(a)
    BY <1>0, <1>2 DEF Homes, Placed
<1>5. /\ b \in Worlds /\ Lists(b) /\ AllKept(b) /\ b.save[i].known
      /\ b.online = w.online /\ b.at = w.at /\ b.valid = w.valid
      /\ b.party = w.party
      /\ b.bind \in {w.bind, [w.bind EXCEPT ![p] = i]}
      /\ b.gbind = w.gbind \/ p \in w.party
  <2>1. CASE p \in w.party
    <3>1. b = BindGroup(a, i)
      BY <2>1
    <3> QED
      BY <1>2, <1>3, <2>1, <3>1, BindGroupFacts
  <2>2. CASE p \notin w.party /\ w.bind[p] # NoId
    <3>1. b = a
      BY <2>2
    <3> QED
      BY <1>2, <1>3, <3>1
  <2>3. CASE p \notin w.party /\ w.bind[p] = NoId
    <3> DEFINE d == BindPlayer(a, p, i)
    <3>1. b = [d EXCEPT !.row = [d.row EXCEPT ![p] = i]]
      BY <2>3
    <3>2. a.bind[p] = NoId
      BY <1>2, <2>3
    <3>3. /\ d \in Worlds /\ Lists(d) /\ AllKept(d)
          /\ d.bind = [w.bind EXCEPT ![p] = i]
          /\ d.save[i].known
          /\ d.online = w.online /\ d.at = w.at /\ d.valid = w.valid
          /\ d.party = w.party /\ d.gbind = w.gbind
      BY <1>0, <1>2, <1>3, <3>2, BindPlayerFacts
    <3> HIDE DEF d, b
    <3>4. /\ b \in Worlds
          /\ b.online = d.online /\ b.at = d.at /\ b.valid = d.valid
          /\ b.party = d.party /\ b.bind = d.bind /\ b.gbind = d.gbind
          /\ b.save = d.save /\ b.stored = d.stored /\ b.used = d.used
          /\ b.events = d.events
      BY <1>0, <3>1, <3>3 DEF Worlds
    <3>5. Lists(b) /\ AllKept(b)
      BY <3>3, <3>4, Frame
    <3> QED
      BY <3>3, <3>4, <3>5
  <2> QED
    BY <2>1, <2>2, <2>3
<1> HIDE DEF b
<1>6. /\ c \in Worlds
      /\ c.online = b.online /\ c.at = b.at /\ c.valid = b.valid
      /\ c.bind = b.bind /\ c.party = b.party /\ c.gbind = b.gbind
      /\ c.save = b.save /\ c.stored = b.stored /\ c.used = b.used
      /\ \A j \in Ids : j # i => c.events[j] = b.events[j]
    BY <1>0, <1>5, ScheduleFacts DEF c
<1> DEFINE e == [c EXCEPT !.at = [c.at EXCEPT ![p] = i]]
<1>7. /\ e \in Worlds /\ e.at = [w.at EXCEPT ![p] = i]
      /\ e.online = c.online /\ e.valid = c.valid
      /\ e.bind = c.bind /\ e.party = c.party /\ e.gbind = c.gbind
      /\ e.save = c.save /\ e.stored = c.stored /\ e.used = c.used
      /\ e.events = c.events
    BY <1>0, <1>5, <1>6 DEF Worlds
<1>8. m = SetCopy(e, i, "loaded")
    BY DEF m
<1> HIDE DEF e
<1>17. /\ m \in Worlds
       /\ m.at = e.at /\ m.online = e.online /\ m.valid = e.valid
       /\ m.bind = e.bind /\ m.party = e.party /\ m.gbind = e.gbind
       /\ m.save = e.save /\ m.stored = e.stored /\ m.used = e.used
       /\ m.events = e.events
    BY <1>7, <1>8, SetCopyFacts
<1>9. /\ m \in Worlds
      /\ m.at = [w.at EXCEPT ![p] = i]
      /\ m.online = w.online /\ m.valid = w.valid
      /\ m.bind = b.bind /\ m.party = w.party /\ m.gbind = b.gbind
      /\ m.save = b.save /\ m.stored = b.stored /\ m.used = b.used
      /\ \A j \in Ids : j # i => m.events[j] = b.events[j]
    BY <1>5, <1>6, <1>7, <1>17
<1>10. \A q \in Players : m.at[q] = IF q = p THEN i ELSE w.at[q]
    BY <1>0, <1>9 DEF Worlds
<1>11. Lists(m)
    BY <1>5, <1>9 DEF Lists
<1>12. Homes(m)
  <2>1. \A q \in Players : m.bind[q] = w.bind[q] \/ q = p
    BY <1>0, <1>5, <1>9 DEF Worlds
  <2> QED
    BY <1>0, <1>9, <2>1 DEF Homes
<1>13. Placed(m)
  <2>1. i # NoId
    BY DEF Ids, NoId
  <2> QED
    BY <1>0, <1>9, <1>10, <2>1 DEF Placed
<1>14. AllKept(m)
  <2> SUFFICES ASSUME NEW j \in Ids, Taken(m, j)
               PROVE  Kept(m, j)
    BY DEF AllKept
  <2>1. CASE j = i
    <3>1. p \in Inside(m, i)
      BY <1>0, <1>9, <1>10 DEF Inside
    <3> QED
      BY <1>5, <1>9, <2>1, <3>1 DEF Kept
  <2>2. CASE j # i
    <3>1. Kept(b, j)
      BY <1>5, <1>9 DEF AllKept, Taken
    <3>2. j # NoId
      BY DEF Ids, NoId
    <3>3. Inside(m, j) = Inside(b, j)
      <4>1. w.online \subseteq Players
        BY <1>0 DEF Worlds
      <4> QED
        BY <1>5, <1>9, <1>10, <2>2, <3>2, <4>1 DEF Inside
    <3> QED
      BY <1>9, <2>2, <3>1, <3>3 DEF Kept
  <2> QED
    BY <2>1, <2>2
<1>15. CASE ~Accepts(w, p, i)
    BY <1>1, <1>2, <1>3, <1>4, <1>15 DEF Sound, n
<1>16. CASE Accepts(w, p, i)
    BY <1>1, <1>5, <1>9, <1>11, <1>12, <1>13, <1>14, <1>16 DEF Sound, n
<1> QED
    BY <1>15, <1>16
-----------------------------------------------------------------------------
(* The way to a copy.                                                      *)

(* Where a player who is in no copy is sent: the save of his party or his  *)
(* own, or an id nobody has.                                               *)
LEMMA CreateFacts ==
    ASSUME NEW w, Sound(w), NEW p \in Players, NEW login \in IdOrNone,
           login # NoId => SaveOf(w, p) \in {NoId, login},
           p \in w.party /\ w.gbind # NoId /\ login # NoId => w.bind[p] = NoId
    PROVE  LET to == CreateInstanceForPlayer(w, p, login) IN
           /\ to.world.online = w.online /\ to.world.at = w.at
           /\ to.world.valid = w.valid /\ to.world.party = w.party
           /\ to.world.gbind = w.gbind
           /\ to.id = NoId => Sound(to.world)
           /\ to.id # NoId => /\ to.id \in Ids
                              /\ SoundBut(to.world, to.id)
                              /\ Accepts(to.world, p, to.id)
<1> DEFINE grouped == p \in w.party /\ w.gbind # NoId
           own == IF grouped THEN UnbindInstance(w, p) ELSE w
           known == IF grouped THEN w.gbind ELSE w.bind[p]
           id == IF known # NoId THEN known ELSE Min(Ids \ w.used)
           made == CreateInstance(own, id)
           used == IF known = NoId THEN made.used \cup {id} ELSE made.used
           n == [made EXCEPT !.used = used]
           to == CreateInstanceForPlayer(w, p, login)
<1>0. /\ w \in Worlds /\ Lists(w) /\ Homes(w) /\ AllKept(w) /\ Placed(w)
      /\ \A i \in IdOrNone : i # NoId => i \in Ids
      /\ \A i \in Ids : i # NoId
    BY DEF Sound, IdOrNone, Ids, NoId
<1>1. CASE login # NoId
  <2>1. to = [world |-> w, id |-> IF w.copy[login] = "none" THEN NoId ELSE login]
    BY <1>1 DEF CreateInstanceForPlayer
  <2> HIDE DEF to
  <2>2. to.world = w /\ to.id \in {NoId, login}
    BY <2>1
  <2>3. KeptBut(w, login)
    BY <1>0, <1>1 DEF AllKept, KeptBut
  <2>4. Accepts(w, p, login)
    BY <1>1 DEF Accepts, SaveOf
  <2> QED
    BY <1>0, <1>1, <2>2, <2>3, <2>4 DEF SoundBut, to
<1>2. CASE login = NoId /\ known = NoId /\ w.used = Ids
  <2>1. to = [world |-> w, id |-> NoId]
    BY <1>2 DEF CreateInstanceForPlayer
  <2> HIDE DEF to
  <2> QED
    BY <2>1 DEF to
<1>3. CASE login = NoId /\ ~(known = NoId /\ w.used = Ids)
  <2>1. to = [world |-> n, id |-> id]
    BY <1>3 DEF CreateInstanceForPlayer
  <2>2. id \in Ids
    <3>1. CASE known # NoId
      BY <1>0, <3>1 DEF Worlds
    <3>2. CASE known = NoId
      <4>1. Ids \ w.used \in SUBSET Nat
        BY DEF Ids
      <4>3. Ids \ w.used # {}
        <5>1. w.used \subseteq Ids /\ w.used # Ids
          BY <1>0, <1>3, <3>2 DEF Worlds
        <5> QED
          BY <5>1
      <4>2. Min(Ids \ w.used) \in Ids \ w.used
        BY <4>1, <4>3, MinFacts
      <4> QED
        BY <3>2, <4>2
    <3> QED
      BY <3>1, <3>2
  <2> HIDE DEF to, n, id, made, own
  <2>3. /\ own \in Worlds /\ Lists(own) /\ AllKept(own) /\ own.used = w.used
        /\ own.bind = IF grouped THEN [w.bind EXCEPT ![p] = NoId] ELSE w.bind
        /\ own.online = w.online /\ own.at = w.at /\ own.valid = w.valid
        /\ own.party = w.party /\ own.gbind = w.gbind
    <3>1. CASE grouped
      BY <1>0, <3>1, UnbindFacts DEF own
    <3>2. CASE ~grouped
      BY <1>0, <3>2 DEF own
    <3> QED
      BY <3>1, <3>2
  <2>4. /\ made \in Worlds
        /\ made.online = own.online /\ made.at = own.at /\ made.valid = own.valid
        /\ made.bind = own.bind /\ made.party = own.party
        /\ made.gbind = own.gbind /\ made.save = own.save
        /\ made.stored = own.stored /\ made.used = own.used
        /\ made.events = own.events
    BY <2>2, <2>3, CreateInstanceFacts DEF made
  <2>5. used \in SUBSET Ids /\ used \subseteq w.used \cup {id}
    BY <1>0, <2>2, <2>3, <2>4 DEF Worlds
  <2>6. /\ n \in Worlds /\ n.used = used
        /\ n.online = made.online /\ n.at = made.at /\ n.valid = made.valid
        /\ n.bind = made.bind /\ n.party = made.party
        /\ n.gbind = made.gbind /\ n.save = made.save
        /\ n.stored = made.stored /\ n.events = made.events
    BY <2>4, <2>5 DEF Worlds, n
  <2>7. /\ n.online = own.online /\ n.at = own.at /\ n.valid = own.valid
        /\ n.bind = own.bind /\ n.gbind = own.gbind /\ n.save = own.save
        /\ n.stored = own.stored /\ n.events = own.events
        /\ n.party = own.party
        /\ n.used \subseteq own.used \cup {id}
    BY <2>3, <2>4, <2>5, <2>6
  <2>8. Lists(n) /\ KeptBut(n, id)
    BY <2>2, <2>3, <2>7, Frame
  <2>9. \A q \in Players : n.bind[q] = IF grouped /\ q = p THEN NoId ELSE w.bind[q]
    BY <1>0, <2>3, <2>7 DEF Worlds
  <2>10. Homes(n)
    BY <1>0, <2>3, <2>7, <2>9 DEF Homes
  <2>11. Placed(n)
    BY <1>0, <2>3, <2>7 DEF Placed
  <2>12. Accepts(n, p, id)
    BY <2>3, <2>7, <2>9 DEF Accepts, id
  <2>13. to.world = n /\ to.id = id
    BY <2>1
  <2> QED
    BY <1>0, <2>2, <2>3, <2>6, <2>7, <2>8, <2>10, <2>11, <2>12, <2>13
    DEF SoundBut, to
<1> HIDE DEF to, grouped, known
<1> QED
    BY <1>1, <1>2, <1>3

(* A player who logs in gets the bind that is in the tables, unless he is  *)
(* in a party.                                                             *)
LEMMA LoadFacts ==
    ASSUME NEW w, Sound(w), NEW p \in w.online, w.bind[p] = NoId
    PROVE  LET n == LoadBoundInstances(w, p) IN
           /\ Sound(n)
           /\ n.online = w.online /\ n.at = w.at /\ n.valid = w.valid
           /\ n.party = w.party /\ n.gbind = w.gbind
           /\ p \in w.party => n.bind[p] = NoId
<1> DEFINE i == w.row[p]
           n == LoadBoundInstances(w, p)
<1>0. /\ w \in Worlds /\ Lists(w) /\ Homes(w) /\ AllKept(w) /\ Placed(w)
      /\ p \in Players /\ i \in IdOrNone /\ NoId \in IdOrNone
      /\ TRUE \in BOOLEAN
    BY DEF Sound, Worlds, IdOrNone
<1>1. CASE i = NoId
    BY <1>1 DEF LoadBoundInstances
<1>2. CASE i # NoId /\ (p \in w.party \/ i \notin w.stored)
  <2>1. n = [w EXCEPT !.row = [w.row EXCEPT ![p] = NoId]]
    BY <1>2 DEF LoadBoundInstances
  <2> HIDE DEF n
  <2>2. /\ n \in Worlds
        /\ n.online = w.online /\ n.at = w.at /\ n.valid = w.valid
        /\ n.party = w.party /\ n.gbind = w.gbind /\ n.bind = w.bind
        /\ n.save = w.save /\ n.stored = w.stored /\ n.used = w.used
        /\ n.events = w.events
    BY <1>0, <2>1 DEF Worlds
  <2>3. Lists(n) /\ Homes(n) /\ AllKept(n)
    BY <1>0, <2>2, Frame
  <2>4. Placed(n)
    BY <1>0, <2>2 DEF Placed
  <2> QED
    BY <2>2, <2>3, <2>4 DEF Sound, n
<1>3. CASE i # NoId /\ p \notin w.party /\ i \in w.stored
  <2> DEFINE a == AddInstanceSave(w, i, TRUE)
  <2>1. n = BindPlayer(a, p, i)
    BY <1>3 DEF LoadBoundInstances
  <2>2. i \in Ids
    BY <1>0, <1>3 DEF IdOrNone
  <2> HIDE DEF n, i, a
  <2>3. /\ a \in Worlds /\ Lists(a) /\ a.save[i].known
        /\ a.online = w.online /\ a.at = w.at /\ a.valid = w.valid
        /\ a.bind = w.bind /\ a.party = w.party /\ a.gbind = w.gbind
    BY <1>0, <2>2, AddInstanceSaveFacts DEF a
  <2>4. AllKept(a)
    BY <1>0, <1>3, <2>2, AddKept DEF a
  <2>5. a.bind[p] = NoId
    BY <2>3
  <2>6. /\ n \in Worlds /\ Lists(n) /\ AllKept(n)
        /\ n.bind = [a.bind EXCEPT ![p] = i]
        /\ n.online = a.online /\ n.at = a.at /\ n.valid = a.valid
        /\ n.party = a.party /\ n.gbind = a.gbind
    BY <1>0, <2>1, <2>2, <2>3, <2>4, <2>5, BindPlayerFacts
  <2>7. \A q \in Players : n.bind[q] = IF q = p THEN i ELSE w.bind[q]
    BY <1>0, <2>3, <2>6 DEF Worlds
  <2>8. Homes(n)
    BY <1>0, <2>3, <2>6, <2>7 DEF Homes
  <2>9. Placed(n)
    BY <1>0, <2>3, <2>6 DEF Placed
  <2> QED
    BY <1>3, <2>3, <2>6, <2>8, <2>9 DEF Sound, n
<1> QED
    BY <1>1, <1>2, <1>3

(* A player logs in, and is sent to the copy he was saved in when it is    *)
(* that of his save.                                                       *)
LEMMA RouteFacts ==
    ASSUME NEW w, Sound(w), NEW p \in Players, p \notin w.online
    PROVE  LET to == LoginRoute(w, p) IN
           /\ to.world.online = w.online \cup {p}
           /\ to.world.at[p] = NoId
           /\ to.world.party = w.party /\ to.world.gbind = w.gbind
           /\ to.id = NoId => Sound(to.world)
           /\ to.id # NoId => /\ to.id \in Ids
                              /\ SoundBut(to.world, to.id)
                              /\ Accepts(to.world, p, to.id)
<1> DEFINE v == [w EXCEPT !.online = @ \cup {p}, !.at[p] = NoId, !.valid[p] = TRUE]
           n == LoadBoundInstances(v, p)
           login == IF SaveOf(n, p) \in {NoId, w.at[p]} THEN w.at[p] ELSE NoId
           to == LoginRoute(w, p)
<1>0. /\ w \in Worlds /\ Lists(w) /\ Homes(w) /\ AllKept(w) /\ Placed(w)
      /\ NoId \in IdOrNone
    BY DEF Sound, IdOrNone
<1>1. to = IF w.at[p] = NoId THEN [world |-> n, id |-> NoId]
           ELSE CreateInstanceForPlayer(n, p, login)
    BY DEF LoginRoute
<1>2. /\ v \in Worlds
      /\ v.online = w.online \cup {p}
      /\ v.at = [w.at EXCEPT ![p] = NoId]
      /\ v.valid = [w.valid EXCEPT ![p] = TRUE]
      /\ v.party = w.party /\ v.gbind = w.gbind /\ v.bind = w.bind
      /\ v.save = w.save /\ v.stored = w.stored /\ v.used = w.used
      /\ v.events = w.events
    BY <1>0 DEF Worlds
<1> HIDE DEF v, n, to
<1>3. \A q \in Players : v.at[q] = IF q = p THEN NoId ELSE w.at[q]
    BY <1>0, <1>2 DEF Worlds
<1>4. \A q \in Players : v.valid[q] <=> IF q = p THEN TRUE ELSE w.valid[q]
    BY <1>0, <1>2 DEF Worlds
<1>5. \A j \in Ids : Inside(v, j) = Inside(w, j)
  <2> SUFFICES ASSUME NEW j \in Ids
               PROVE  Inside(v, j) = Inside(w, j)
    OBVIOUS
  <2>1. j # NoId /\ w.online \subseteq Players
    BY <1>0 DEF Ids, NoId, Worlds
  <2> QED
    BY <1>2, <1>3, <2>1 DEF Inside
<1>6. Lists(v)
    BY <1>0, <1>2 DEF Lists
<1>7. Homes(v)
    BY <1>0, <1>2 DEF Homes
<1>8. AllKept(v)
    BY <1>0, <1>2, <1>5 DEF AllKept, Taken, Kept
<1>9. Placed(v)
    BY <1>0, <1>3, <1>4 DEF Placed
<1>10. Sound(v) /\ p \in v.online /\ v.bind[p] = NoId
    BY <1>0, <1>2, <1>6, <1>7, <1>8, <1>9 DEF Sound, Homes
<1>11. /\ Sound(n)
       /\ n.online = w.online \cup {p} /\ n.at = v.at
       /\ n.party = w.party /\ n.gbind = w.gbind
       /\ p \in n.party => n.bind[p] = NoId
    BY <1>2, <1>10, LoadFacts DEF n
<1>12. n.at[p] = NoId
    BY <1>3, <1>11
<1>13. CASE w.at[p] = NoId
  <2>1. to.world = n /\ to.id = NoId
    BY <1>1, <1>13
  <2> QED
    BY <1>11, <1>12, <2>1 DEF to
<1>14. CASE w.at[p] # NoId
  <2>1. /\ to = CreateInstanceForPlayer(n, p, login)
        /\ login \in IdOrNone
        /\ login # NoId => SaveOf(n, p) \in {NoId, login}
    BY <1>0, <1>1, <1>14 DEF Worlds
  <2> HIDE DEF login
  <2>2. /\ to.world.online = n.online /\ to.world.at = n.at
        /\ to.world.party = n.party /\ to.world.gbind = n.gbind
        /\ to.id = NoId => Sound(to.world)
        /\ to.id # NoId => /\ to.id \in Ids
                           /\ SoundBut(to.world, to.id)
                           /\ Accepts(to.world, p, to.id)
    BY <1>11, <2>1, CreateFacts
  <2> QED
    BY <1>11, <1>12, <2>2 DEF to
<1> QED
    BY <1>13, <1>14
-----------------------------------------------------------------------------
(* Resets on request.                                                      *)

(* Player::ResetInstances keeps the world sound, and the party.            *)
LEMMA PlayerResetFacts ==
    ASSUME NEW w, Sound(w), NEW p \in Players
    PROVE  LET n == PlayerResetInstances(w, p) IN
           /\ Sound(n)
           /\ n.online = w.online /\ n.at = w.at /\ n.valid = w.valid
           /\ n.party = w.party /\ n.leader = w.leader /\ n.gbind = w.gbind
<1> DEFINE i == w.bind[p]
           r == Reset(w, i)
           d == DeleteInstanceFromDB(r, i)
           v == [d EXCEPT !.bind[p] = NoId]
           n == PlayerResetInstances(w, p)
<1>0. /\ w \in Worlds /\ Lists(w) /\ Homes(w) /\ AllKept(w) /\ Placed(w)
      /\ i \in IdOrNone /\ NoId \in IdOrNone
    BY DEF Sound, Worlds, IdOrNone
<1>1. CASE i = NoId \/ Inside(w, i) # {}
    BY <1>1 DEF PlayerResetInstances
<1>2. CASE i # NoId /\ Inside(w, i) = {}
  <2>1. n = RemovePlayer(v, i, p) /\ i \in Ids
    BY <1>0, <1>2 DEF PlayerResetInstances, IdOrNone
  <2> HIDE DEF n, v, d, r, i
  <2>2. /\ r \in Worlds
        /\ r.online = w.online /\ r.at = w.at /\ r.valid = w.valid
        /\ r.bind = w.bind /\ r.party = w.party
        /\ r.leader = w.leader /\ r.gbind = w.gbind /\ r.save = w.save
        /\ r.stored = w.stored /\ r.used = w.used /\ r.events = w.events
    BY <1>0, <2>1, ResetFacts DEF r
  <2>3. /\ d \in Worlds
        /\ d.online = r.online /\ d.at = r.at /\ d.valid = r.valid
        /\ d.bind = r.bind /\ d.party = r.party /\ d.leader = r.leader
        /\ d.gbind = r.gbind /\ d.save = r.save
        /\ d.used = r.used /\ d.events = r.events
        /\ d.stored = r.stored \ {i}
    BY <2>1, <2>2, DeleteFacts DEF d
  <2>4. /\ v \in Worlds
        /\ v.bind = [w.bind EXCEPT ![p] = NoId]
        /\ v.online = w.online /\ v.at = w.at /\ v.valid = w.valid
        /\ v.party = w.party /\ v.leader = w.leader
        /\ v.gbind = w.gbind /\ v.save = w.save
        /\ v.used = w.used /\ v.events = w.events
        /\ v.stored \subseteq w.stored
    BY <1>0, <2>2, <2>3 DEF Worlds, v
  <2>5. w.bind[p] = i
    BY DEF i
  <2>6. OnlySave(v, n) /\ Lists(n) /\ AllKept(n)
    BY <1>0, <2>1, <2>4, <2>5, Unbound
  <2>7. /\ n \in Worlds /\ n.bind = v.bind
        /\ n.online = w.online /\ n.at = w.at /\ n.valid = w.valid
        /\ n.party = w.party /\ n.leader = w.leader /\ n.gbind = w.gbind
    BY <2>4, <2>6, OnlySaveFacts
  <2>8. \A q \in Players : n.bind[q] = IF q = p THEN NoId ELSE w.bind[q]
    BY <1>0, <2>4, <2>7 DEF Worlds
  <2>9. Homes(n)
    BY <1>0, <2>7, <2>8 DEF Homes
  <2>10. Placed(n)
    BY <1>0, <2>7 DEF Placed
  <2> QED
    BY <2>6, <2>7, <2>9, <2>10 DEF Sound, n
<1> QED
    BY <1>1, <1>2

(* Group::ResetInstances keeps the world sound.                            *)
LEMMA GroupResetFacts ==
    ASSUME NEW w, Sound(w), NEW disband \in BOOLEAN
    PROVE  LET n == GroupResetInstances(w, disband) IN
           /\ Sound(n)
           /\ n.online = w.online /\ n.at = w.at /\ n.valid = w.valid
           /\ n.bind = w.bind
           /\ n.party = w.party /\ n.leader = w.leader
           /\ n.gbind \in {w.gbind, NoId} /\ (disband => n.gbind = NoId)
<1> DEFINE i == w.gbind
           empty == Inside(w, i) = {}
           r == Reset(w, i)
           d == DeleteInstanceFromDB(r, i)
           reset == IF empty THEN d ELSE w
           v == [reset EXCEPT !.gbind = NoId]
           n == GroupResetInstances(w, disband)
<1>0. /\ w \in Worlds /\ Lists(w) /\ Homes(w) /\ AllKept(w) /\ Placed(w)
      /\ i \in IdOrNone /\ NoId \in IdOrNone
    BY DEF Sound, Worlds, IdOrNone
<1>1. CASE ~(i # NoId /\ (empty \/ disband))
  <2>1. n = w
    BY <1>1 DEF GroupResetInstances
  <2> QED
    BY <1>1, <2>1
<1>2. CASE i # NoId /\ (empty \/ disband)
  <2>1. n = RemoveGroup(v, i) /\ i \in Ids
    BY <1>0, <1>2 DEF GroupResetInstances, IdOrNone
  <2> HIDE DEF n, v, d, r, i, reset, empty
  <2>2. /\ r \in Worlds
        /\ r.online = w.online /\ r.at = w.at /\ r.valid = w.valid
        /\ r.bind = w.bind /\ r.party = w.party
        /\ r.leader = w.leader /\ r.gbind = w.gbind /\ r.save = w.save
        /\ r.stored = w.stored /\ r.used = w.used /\ r.events = w.events
    BY <1>0, <2>1, ResetFacts DEF r
  <2>3. /\ d \in Worlds
        /\ d.online = r.online /\ d.at = r.at /\ d.valid = r.valid
        /\ d.bind = r.bind /\ d.party = r.party /\ d.leader = r.leader
        /\ d.gbind = r.gbind /\ d.save = r.save
        /\ d.used = r.used /\ d.events = r.events
        /\ d.stored = r.stored \ {i}
    BY <2>1, <2>2, DeleteFacts DEF d
  <2>11. /\ reset \in Worlds
         /\ reset.online = w.online /\ reset.at = w.at /\ reset.valid = w.valid
         /\ reset.bind = w.bind /\ reset.party = w.party
         /\ reset.leader = w.leader /\ reset.save = w.save
         /\ reset.used = w.used /\ reset.events = w.events
         /\ reset.stored \subseteq w.stored
    BY <1>0, <2>2, <2>3 DEF reset
  <2>4. /\ v \in Worlds /\ v.gbind = NoId
        /\ v.online = w.online /\ v.at = w.at /\ v.valid = w.valid
        /\ v.bind = w.bind /\ v.party = w.party /\ v.leader = w.leader
        /\ v.save = w.save /\ v.used = w.used /\ v.events = w.events
        /\ v.stored \subseteq w.stored
    BY <1>0, <2>11 DEF Worlds, v
  <2>5. w.gbind = i
    BY DEF i
  <2>6. OnlySave(v, n) /\ Lists(n) /\ AllKept(n)
    BY <1>0, <2>1, <2>4, <2>5, GroupUnbound
  <2>7. /\ n \in Worlds /\ n.bind = w.bind /\ n.gbind = NoId
        /\ n.online = w.online /\ n.at = w.at /\ n.valid = w.valid
        /\ n.party = w.party /\ n.leader = w.leader
    BY <2>4, <2>6, OnlySaveFacts
  <2>8. Homes(n) /\ Placed(n)
    BY <1>0, <2>7 DEF Homes, Placed
  <2> QED
    BY <2>6, <2>7, <2>8 DEF Sound, n
<1> QED
    BY <1>1, <1>2

-----------------------------------------------------------------------------
(* Parties.                                                                *)

(* Worlds that differ in who belongs to the party.                         *)
SetGroup(w, ps, l) == [w EXCEPT !.party = ps, !.leader = l]

(* Whatever the members and the leader are, the world stays sound.         *)
LEMMA PartyFacts ==
    ASSUME NEW w, Sound(w), NEW ps \in SUBSET Players,
           NEW l \in Players \cup {None}
    PROVE  LET n == SetGroup(w, ps, l) IN
           /\ Sound(n)
           /\ n.party = ps /\ n.leader = l
           /\ n.online = w.online /\ n.at = w.at /\ n.valid = w.valid
           /\ n.bind = w.bind /\ n.gbind = w.gbind /\ n.save = w.save
<1> DEFINE n == SetGroup(w, ps, l)
<1>0. w \in Worlds /\ Lists(w) /\ Homes(w) /\ AllKept(w) /\ Placed(w)
    BY DEF Sound
<1>1. /\ n \in Worlds /\ n.party = ps /\ n.leader = l
      /\ n.online = w.online /\ n.at = w.at /\ n.valid = w.valid
      /\ n.bind = w.bind /\ n.gbind = w.gbind /\ n.save = w.save
      /\ n.stored = w.stored /\ n.used = w.used /\ n.events = w.events
    BY <1>0 DEF Worlds, SetGroup
<1> HIDE DEF n
<1>2. Lists(n) /\ Homes(n) /\ AllKept(n)
    BY <1>0, <1>1, Frame
<1>3. Placed(n)
    BY <1>0, <1>1 DEF Placed
<1> QED
    BY <1>1, <1>2, <1>3 DEF Sound, n

(* The writes of one field.                                                *)
LEMMA SetParty ==
    ASSUME NEW w, Sound(w), NEW ps \in SUBSET Players
    PROVE  [w EXCEPT !.party = ps] = SetGroup(w, ps, w.leader)
    BY DEF Sound, Worlds, SetGroup

(* A new leader of the same party.                                         *)
LEMMA SetTheLeader ==
    ASSUME NEW w, Sound(w), NEW l
    PROVE  [w EXCEPT !.leader = l] = SetGroup(w, w.party, l)
    BY DEF Sound, Worlds, SetGroup

(* Group::ChangeLeader keeps the world sound, and the members.             *)
LEMMA ChangeLeaderFacts ==
    ASSUME NEW w, Sound(w), NEW q \in Players
    PROVE  LET n == ChangeLeader(w, q) IN
           /\ Sound(n)
           /\ n.online = w.online /\ n.at = w.at /\ n.party = w.party
<1> DEFINE i == w.bind[q]
           b == IF i # NoId /\ w.gbind = NoId THEN BindGroup(w, i) ELSE w
           u == UnbindInstance(b, q)
           n == ChangeLeader(w, q)
<1>0. /\ w \in Worlds /\ Lists(w) /\ Homes(w) /\ AllKept(w) /\ Placed(w)
      /\ i \in IdOrNone
    BY DEF Sound, Worlds
<1>1. /\ b \in Worlds /\ Lists(b) /\ AllKept(b)
      /\ b.online = w.online /\ b.at = w.at /\ b.valid = w.valid
      /\ b.bind = w.bind /\ b.party = w.party /\ b.leader = w.leader
  <2>1. CASE i # NoId /\ w.gbind = NoId
    <3>1. i \in Ids
      BY <1>0, <2>1 DEF IdOrNone
    <3>2. q \in w.save[i].players
      BY <1>0, <3>1 DEF Lists
    <3>3. w.save[i].known
      BY <1>0, <3>1, <3>2 DEF Lists
    <3>4. b = BindGroup(w, i)
      BY <2>1
    <3> HIDE DEF b, i
    <3> QED
      BY <1>0, <3>1, <3>3, <3>4, BindGroupFacts
  <2>2. CASE ~(i # NoId /\ w.gbind = NoId)
    <3>1. b = w
      BY <2>2
    <3> QED
      BY <1>0, <3>1
  <2> QED
    BY <2>1, <2>2
<1> HIDE DEF b
<1>2. /\ u \in Worlds /\ Lists(u) /\ AllKept(u)
      /\ u.bind = [b.bind EXCEPT ![q] = NoId]
      /\ u.online = b.online /\ u.at = b.at /\ u.valid = b.valid
      /\ u.party = b.party
    BY <1>1, UnbindFacts
<1>3. n = [u EXCEPT !.leader = q]
    BY DEF ChangeLeader, b
<1> HIDE DEF u, n
<1>4. \A p \in Players : u.bind[p] = IF p = q THEN NoId ELSE w.bind[p]
    BY <1>0, <1>1, <1>2 DEF Worlds
<1>5. Homes(u)
    BY <1>0, <1>1, <1>2, <1>4 DEF Homes
<1>6. Placed(u)
    BY <1>0, <1>1, <1>2 DEF Placed
<1>7. Sound(u)
    BY <1>2, <1>5, <1>6 DEF Sound
<1>8. u.party \in SUBSET Players /\ q \in Players \cup {None}
    BY <1>2 DEF Worlds
<1>10. n = SetGroup(u, u.party, q)
    BY <1>3, <1>7, SetTheLeader
<1>9. /\ Sound(n)
      /\ n.online = u.online /\ n.at = u.at /\ n.party = u.party
    BY <1>7, <1>8, <1>10, PartyFacts
<1> QED
    BY <1>1, <1>2, <1>9 DEF n

(* Group::AddMember keeps the world sound, and lets the player in.         *)
LEMMA AddMemberFacts ==
    ASSUME NEW w, Sound(w), NEW p \in Players
    PROVE  LET n == AddMember(w, p) IN
           /\ Sound(n)
           /\ n.online = w.online /\ n.at = w.at
           /\ n.party = w.party \cup {p}
<1> DEFINE v == [w EXCEPT !.party = @ \cup {p}]
           m == Validate(v, p)
           n == AddMember(w, p)
<1>1. w.party \cup {p} \in SUBSET Players /\ w.leader \in Players \cup {None}
    BY DEF Sound, Worlds
<1>2. v = SetGroup(w, w.party \cup {p}, w.leader)
    BY <1>1, SetParty
<1> HIDE DEF v
<1>3. /\ Sound(v) /\ v.party = w.party \cup {p}
      /\ v.online = w.online /\ v.at = w.at
    BY <1>1, <1>2, PartyFacts
<1>4. /\ Sound(m) /\ m.party = v.party
      /\ m.online = v.online /\ m.at = v.at
    BY <1>3, ValidateFacts
<1>5. n \in {m, PlayerResetInstances(m, p)}
    BY DEF AddMember, v
<1> HIDE DEF m, n
<1> QED
    BY <1>3, <1>4, <1>5, PlayerResetFacts DEF n

(* Group::Create keeps the world sound.                                    *)
LEMMA CreateGroupFacts ==
    ASSUME NEW w, Sound(w), NEW l \in Players
    PROVE  LET n == CreateGroup(w, l) IN
           /\ Sound(n)
           /\ n.online = w.online /\ n.at = w.at
           /\ n.party = w.party \cup {l}
<1> DEFINE i == w.at[l]
           own == [w EXCEPT !.leader = l]
           bound == IF w.bind[l] = NoId THEN own ELSE BindGroup(own, w.bind[l])
           unbound == /\ i # NoId
                      /\ bound.save[i].known
                      /\ bound.save[i].groups = 0 /\ bound.save[i].players = {}
           both == IF unbound THEN BindGroup(bound, i) ELSE bound
           n == CreateGroup(w, l)
<1>0. /\ w \in Worlds /\ Lists(w)
      /\ i \in IdOrNone /\ w.bind[l] \in IdOrNone /\ w.party \in SUBSET Players
    BY DEF Sound, Worlds
<1>1. n = AddMember(both, l)
    BY DEF CreateGroup
<1>2. own = SetGroup(w, w.party, l)
    BY SetTheLeader
<1> HIDE DEF own, n
<1>3. /\ Sound(own) /\ own.party = w.party
      /\ own.online = w.online /\ own.at = w.at /\ own.bind = w.bind
    BY <1>0, <1>2, PartyFacts
<1>4. ASSUME NEW u, Sound(u), u.party = w.party, u.online = w.online,
             u.at = w.at, u.bind = w.bind,
             NEW g \in Ids, u.save[g].known
      PROVE  /\ Sound(BindGroup(u, g)) /\ BindGroup(u, g).party = w.party
             /\ BindGroup(u, g).online = w.online /\ BindGroup(u, g).at = w.at
             /\ BindGroup(u, g).bind = w.bind
  <2> DEFINE m == BindGroup(u, g)
  <2>0. u \in Worlds /\ Lists(u) /\ Homes(u) /\ AllKept(u) /\ Placed(u)
    BY <1>4 DEF Sound
  <2>1. /\ m \in Worlds /\ Lists(m) /\ AllKept(m)
        /\ m.online = u.online /\ m.at = u.at /\ m.valid = u.valid
        /\ m.bind = u.bind /\ m.party = u.party
    BY <1>4, <2>0, BindGroupFacts
  <2> HIDE DEF m
  <2>2. Homes(m) /\ Placed(m)
    BY <2>0, <2>1 DEF Homes, Placed
  <2> QED
    BY <1>4, <2>1, <2>2 DEF Sound, m
<1>5. /\ Sound(bound) /\ bound.party = w.party
      /\ bound.online = w.online /\ bound.at = w.at /\ bound.bind = w.bind
  <2>1. CASE w.bind[l] = NoId
    BY <1>3, <2>1
  <2>2. CASE w.bind[l] # NoId
    <3>1. w.bind[l] \in Ids
      BY <1>0, <2>2 DEF IdOrNone
    <3>2. Lists(own)
      BY <1>3 DEF Sound
    <3>3. l \in own.save[w.bind[l]].players
      BY <1>3, <3>1, <3>2 DEF Lists
    <3>4. own.save[w.bind[l]].known
      BY <3>1, <3>2, <3>3 DEF Lists
    <3>5. bound = BindGroup(own, w.bind[l])
      BY <2>2
    <3> QED
      BY <1>3, <1>4, <3>1, <3>4, <3>5
  <2> QED
    BY <2>1, <2>2
<1> HIDE DEF bound
<1>6. /\ Sound(both) /\ both.party = w.party
      /\ both.online = w.online /\ both.at = w.at
  <2>1. CASE unbound
    <3>1. i \in Ids /\ bound.save[i].known /\ both = BindGroup(bound, i)
      BY <1>0, <2>1 DEF IdOrNone
    <3> HIDE DEF both, i
    <3> QED
      BY <1>4, <1>5, <3>1
  <2>2. CASE ~unbound
    BY <1>5, <2>2
  <2> QED
    BY <2>1, <2>2
<1> HIDE DEF both
<1> QED
    BY <1>1, <1>6, AddMemberFacts DEF n

(* Who is inside without his party has to leave.                           *)
LEMMA HomebindFacts ==
    ASSUME NEW w, Sound(w), NEW ps
    PROVE  LET n == HomebindIfInstance(w, ps) IN
           /\ Sound(n)
           /\ n.online = w.online /\ n.at = w.at /\ n.bind = w.bind
           /\ n.party = w.party /\ n.leader = w.leader /\ n.gbind = w.gbind
<1> DEFINE v == [p \in Players |->
                    w.valid[p] /\ ~(p \in ps \cap w.online /\ w.at[p] # NoId)]
           n == HomebindIfInstance(w, ps)
<1>0. w \in Worlds /\ Lists(w) /\ Homes(w) /\ AllKept(w) /\ Placed(w)
    BY DEF Sound
<1>1. n = [w EXCEPT !.valid = v]
    BY DEF HomebindIfInstance
<1>2. v \in [Players -> BOOLEAN]
    OBVIOUS
<1>3. \A p \in Players : ~v[p] => ~w.valid[p] \/ w.at[p] # NoId
    OBVIOUS
<1> HIDE DEF v, n
<1>4. /\ n \in Worlds /\ n.valid = v
      /\ n.online = w.online /\ n.at = w.at /\ n.bind = w.bind
      /\ n.party = w.party /\ n.leader = w.leader /\ n.gbind = w.gbind
      /\ n.save = w.save /\ n.events = w.events /\ n.stored = w.stored
      /\ n.used = w.used
    BY <1>0, <1>1, <1>2 DEF Worlds
<1>5. Placed(n)
    BY <1>0, <1>3, <1>4 DEF Placed
<1>6. Lists(n) /\ Homes(n) /\ AllKept(n)
    BY <1>0, <1>4, Frame
<1> QED
    BY <1>4, <1>5, <1>6 DEF Sound, n

(* Group::Disband keeps the world sound, whoever is inside.                *)
LEMMA DisbandFacts ==
    ASSUME NEW w, Sound(w)
    PROVE  LET n == Disband(w) IN
           /\ Sound(n) /\ Joined(n)
           /\ n.online = w.online /\ n.at = w.at
<1> DEFINE home == HomebindIfInstance(w, w.party)
           v == SetGroup(home, {}, None)
           n == Disband(w)
<1>1. n = GroupResetInstances(v, TRUE)
    BY DEF Disband, SetGroup
<1> HIDE DEF n
<1>2. /\ Sound(home)
      /\ home.online = w.online /\ home.at = w.at
    BY HomebindFacts
<1> HIDE DEF home
<1>3. Sound(v) /\ v.online = w.online /\ v.at = w.at
    BY <1>2, PartyFacts
<1> HIDE DEF v
<1>4. TRUE \in BOOLEAN
    OBVIOUS
<1>5. /\ Sound(n)
      /\ n.online = v.online /\ n.at = v.at /\ n.gbind = NoId
    BY <1>1, <1>3, <1>4, GroupResetFacts
<1> QED
    BY <1>3, <1>5 DEF Joined, n

(* A party of more than two is not empty when one has left.                *)
LEMMA RemoveMemberFacts ==
    ASSUME NEW w, Sound(w), NEW p \in Players, NEW heir \in Heirs(w, p)
    PROVE  LET n == RemoveMember(w, p, heir) IN
           /\ Sound(n) /\ Joined(n)
           /\ n.online = w.online /\ n.at = w.at
<1> DEFINE home == HomebindIfInstance(w, {p})
           out == SetGroup(home, w.party \ {p}, w.leader)
           n == RemoveMember(w, p, heir)
<1>0. w \in Worlds /\ w.party \in SUBSET Players /\ w.leader \in Players \cup {None}
    BY DEF Sound, Worlds
<1>1. /\ Sound(home)
      /\ home.online = w.online /\ home.at = w.at
      /\ home.party = w.party /\ home.leader = w.leader
    BY HomebindFacts
<1>2. [home EXCEPT !.party = @ \ {p}] = out
    BY <1>1, SetParty, <1>0
<1>3. n = IF Cardinality(w.party) <= 2 THEN Disband(w)
          ELSE IF heir = w.leader THEN out
          ELSE ChangeLeader(out, heir)
    BY <1>2 DEF RemoveMember
<1> HIDE DEF home, n
<1>4. /\ Sound(out) /\ out.party = w.party \ {p}
      /\ out.online = w.online /\ out.at = w.at
    BY <1>0, <1>1, PartyFacts
<1> HIDE DEF out
<1>5. CASE Cardinality(w.party) <= 2
    BY <1>3, <1>5, DisbandFacts DEF n
<1>6. CASE ~(Cardinality(w.party) <= 2) /\ heir = w.leader
  <2>1. w.party \ {p} # {}
    <3> SUFFICES ASSUME w.party \subseteq {p}
                 PROVE  FALSE
      OBVIOUS
    <3>1. IsFiniteSet({p}) /\ Cardinality({p}) = 1
      BY FS_Singleton
    <3>2. IsFiniteSet(w.party) /\ Cardinality(w.party) <= 1
      BY <3>1, FS_Subset
    <3>3. Cardinality(w.party) \in Nat
      BY <3>2, FS_CardinalityType
    <3> QED
      BY <1>6, <3>2, <3>3
  <2>2. n = out
    BY <1>3, <1>6
  <2> QED
    BY <1>4, <2>1, <2>2 DEF Joined, n
<1>7. CASE ~(Cardinality(w.party) <= 2) /\ heir # w.leader
  <2>1. heir \in w.party \ {p}
    BY <1>7 DEF Heirs
  <2>2. heir \in Players /\ n = ChangeLeader(out, heir)
    BY <1>0, <1>3, <1>7, <2>1
  <2>3. /\ Sound(n)
        /\ n.online = out.online /\ n.at = out.at /\ n.party = out.party
    BY <1>4, <2>2, ChangeLeaderFacts
  <2>4. n.party # {}
    BY <1>4, <2>1, <2>3
  <2> QED
    BY <1>4, <2>3, <2>4 DEF Joined, n
<1> QED
    BY <1>5, <1>6, <1>7

-----------------------------------------------------------------------------
(* Resets that are due.                                                    *)

(* The save is dropped and nobody is bound any more: its id is free.       *)
LEMMA ResetSaveFacts ==
    ASSUME NEW w \in Worlds, Lists(w), NEW i \in Ids
    PROVE  LET n == ResetSave(w, i) IN
           /\ n \in Worlds /\ Lists(n)
           /\ ~n.save[i].known
           /\ \A j \in Ids : j # i => n.save[j] = w.save[j]
           /\ \A p \in Players : n.bind[p] \in {NoId, w.bind[p]}
           /\ n.gbind \in {NoId, w.gbind}
           /\ n.online = w.online /\ n.at = w.at /\ n.valid = w.valid
           /\ n.party = w.party /\ n.leader = w.leader
           /\ n.stored = w.stored /\ n.used = w.used /\ n.events = w.events
<1> DEFINE b == [p \in Players |->
                    IF p \in w.save[i].players THEN NoId ELSE w.bind[p]]
           g == IF w.save[i].groups > 0 THEN NoId ELSE w.gbind
           v == [w EXCEPT !.bind = b, !.gbind = g]
           n == ResetSave(w, i)
<1>0. /\ NoId \in IdOrNone /\ \A j \in Ids : j # NoId
    BY DEF IdOrNone, Ids, NoId
<1>3. w.gbind \in IdOrNone /\ w.bind \in [Players -> IdOrNone]
    BY DEF Worlds
<1>1. CASE ~w.save[i].known
  <2>1. n = w
    BY <1>1 DEF ResetSave
  <2> QED
    BY <1>1, <2>1
<1>2. CASE w.save[i].known
  <2>1. n = SetSave(v, i, NoSave)
    BY <1>2 DEF ResetSave, SetSave
  <2>2. b \in [Players -> IdOrNone] /\ g \in IdOrNone
    BY <1>0, <1>3
  <2>3. \A p \in Players : b[p] = IF w.bind[p] = i THEN NoId ELSE w.bind[p]
    BY DEF Lists
  <2>4. g = IF w.gbind = i THEN NoId ELSE w.gbind
    BY DEF Lists
  <2> HIDE DEF b, g, n
  <2>5. /\ v \in Worlds /\ v.bind = b /\ v.gbind = g /\ v.save = w.save
        /\ v.online = w.online /\ v.at = w.at /\ v.valid = w.valid
        /\ v.party = w.party /\ v.leader = w.leader
        /\ v.stored = w.stored /\ v.used = w.used /\ v.events = w.events
    BY <2>2 DEF Worlds
  <2> HIDE DEF v
  <2>6. NoSave \in Save /\ NoSave.players = {} /\ NoSave.groups = 0 /\ ~NoSave.known
    BY DEF NoSave, Save
  <2>7. /\ OnlySave(v, n)
        /\ \A j \in Ids : n.save[j] = IF j = i THEN NoSave ELSE w.save[j]
    BY <2>1, <2>5, <2>6, SetSaveFacts
  <2>8. /\ n \in Worlds /\ n.bind = b /\ n.gbind = g
        /\ n.online = w.online /\ n.at = w.at /\ n.valid = w.valid
        /\ n.party = w.party /\ n.leader = w.leader
        /\ n.stored = w.stored /\ n.used = w.used /\ n.events = w.events
    BY <2>5, <2>7, OnlySaveFacts
  <2>9. Lists(n)
    <3> SUFFICES ASSUME NEW j \in Ids
                 PROVE  /\ n.save[j].players = {q \in Players : n.bind[q] = j}
                        /\ n.save[j].groups = IF n.gbind = j THEN 1 ELSE 0
                        /\ n.save[j].players # {} \/ n.save[j].groups > 0
                              => n.save[j].known
      BY DEF Lists
    <3>1. /\ w.save[j].players = {q \in Players : w.bind[q] = j}
          /\ w.save[j].groups = IF w.gbind = j THEN 1 ELSE 0
          /\ w.save[j].players # {} \/ w.save[j].groups > 0 => w.save[j].known
      BY DEF Lists
    <3>2. CASE j = i
      <4>1. \A q \in Players : n.bind[q] # j
        BY <1>0, <2>3, <2>8, <3>2
      <4>2. n.gbind # j
        BY <1>0, <2>4, <2>8, <3>2
      <4> QED
        BY <2>6, <2>7, <3>2, <4>1, <4>2
    <3>3. CASE j # i
      <4>1. \A q \in Players : n.bind[q] = j <=> w.bind[q] = j
        BY <1>0, <2>3, <2>8, <3>3
      <4>2. n.gbind = j <=> w.gbind = j
        BY <1>0, <2>4, <2>8, <3>3
      <4> QED
        BY <2>7, <3>1, <3>3, <4>1, <4>2
    <3> QED
      BY <3>2, <3>3
  <2>10. /\ \A p \in Players : n.bind[p] \in {NoId, w.bind[p]}
         /\ n.gbind \in {NoId, w.gbind}
    BY <2>3, <2>4, <2>8
  <2> QED
    BY <2>6, <2>7, <2>8, <2>9, <2>10 DEF n
<1> QED
    BY <1>1, <1>2

-----------------------------------------------------------------------------
(* The inductive invariant.                                                *)

(* The invariant holds before anybody plays.                               *)
LEMMA InvInit == Init => SavesInv
<1> SUFFICES ASSUME Init
             PROVE  SavesInv
    OBVIOUS
<1>1. /\ world.online = {} /\ world.at = [p \in Players |-> NoId]
      /\ world.valid = [p \in Players |-> TRUE]
      /\ world.bind = [p \in Players |-> NoId]
      /\ world.gbind = NoId /\ world.save = [i \in Ids |-> NoSave]
      /\ world.stored = {} /\ world.used = {}
    BY DEF Init
<1>2. NoSave \in Save /\ NoSave.players = {} /\ NoSave.groups = 0 /\ ~NoSave.known
    BY DEF NoSave, Save
<1>3. \A i \in Ids : i # NoId
    BY DEF Ids, NoId
<1>4. world \in Worlds /\ world \in World
    BY SavesAssumption, <1>2 DEF Init, Worlds, World, IdOrNone
<1>5. Lists(world)
    BY <1>1, <1>2, <1>3 DEF Lists
<1>6. AllKept(world)
    BY <1>1, <1>2 DEF AllKept, Taken
<1>7. Homes(world) /\ Placed(world) /\ Joined(world)
    BY <1>1 DEF Homes, Placed, Joined
<1> QED
    BY <1>4, <1>5, <1>6, <1>7 DEF SavesInv, Sound

(* Where the bound on the events ends a run.                               *)
LEMMA BecomesFacts ==
    ASSUME NEW w, Sound(w), Joined(w), Becomes(w)
    PROVE  SavesInv'
<1>1. w \in Worlds /\ world' = w /\ \A i \in Ids : w.events[i] <= MaxEvents
    BY DEF Sound, Becomes
<1>2. w.events \in [Ids -> Nat]
    BY <1>1 DEF Worlds
<1>3. w.events \in [Ids -> 0 .. MaxEvents]
    BY <1>1, <1>2, SavesAssumption
<1>4. w \in World
    BY <1>1, <1>3 DEF Worlds, World
<1> QED
    BY <1>1, <1>4 DEF SavesInv

(* A player goes through the entrance.                                     *)
LEMMA InvEnter ==
    ASSUME SavesInv, NEW p \in Players, Enter(p)
    PROVE  SavesInv'
<1> DEFINE to == CreateInstanceForPlayer(world, p, NoId)
           in == AddPlayerToMap(to.world, p, to.id)
<1>0. Sound(world) /\ Joined(world)
    BY DEF SavesInv
<1>1. /\ p \in world.online /\ world.at[p] = NoId /\ to.id # NoId
      /\ Becomes(IF in.at[p] = to.id THEN Validate(in, p) ELSE in)
    BY DEF Enter
<1>2. NoId \in IdOrNone
    BY DEF IdOrNone
<1>3. /\ to.world.online = world.online /\ to.world.at = world.at
      /\ to.world.party = world.party /\ to.world.gbind = world.gbind
      /\ to.id \in Ids /\ SoundBut(to.world, to.id)
    BY <1>0, <1>1, <1>2, CreateFacts
<1> HIDE DEF to
<1>4. /\ Sound(in)
      /\ in.party = world.party
      /\ in.gbind = world.gbind \/ p \in world.party
    BY <1>1, <1>3, AddPlayerFacts
<1> HIDE DEF in
<1>5. Joined(in)
    BY <1>0, <1>4 DEF Joined
<1>6. /\ Sound(Validate(in, p))
      /\ Validate(in, p).party = in.party /\ Validate(in, p).gbind = in.gbind
    BY <1>4, ValidateFacts
<1>7. Joined(Validate(in, p))
    BY <1>5, <1>6 DEF Joined
<1> QED
    BY <1>1, <1>4, <1>5, <1>6, <1>7, BecomesFacts

(* A player leaves a copy, or is expelled.                                 *)
LEMMA InvLeave ==
    ASSUME SavesInv, NEW p \in Players, Exit(p) \/ Expel(p)
    PROVE  SavesInv'
<1>0. Sound(world) /\ Joined(world)
    BY DEF SavesInv
<1>1. world.at[p] # NoId
    BY <1>0 DEF Exit, Expel, Sound, Placed
<1>2. Becomes(Leave(world, p))
    BY DEF Exit, Expel
<1>3. /\ Sound(Leave(world, p))
      /\ Leave(world, p).party = world.party
      /\ Leave(world, p).gbind = world.gbind
    BY <1>0, <1>1, LeaveFacts
<1>4. Joined(Leave(world, p))
    BY <1>0, <1>3 DEF Joined
<1> QED
    BY <1>2, <1>3, <1>4, BecomesFacts

(* Whether a player may stay in the copy he logged in in.                  *)
LEMMA SetValidFacts ==
    ASSUME NEW w, Sound(w), NEW p \in Players, w.at[p] # NoId, NEW c \in BOOLEAN
    PROVE  LET n == [w EXCEPT !.valid[p] = c] IN
           /\ Sound(n)
           /\ n.party = w.party /\ n.gbind = w.gbind
<1> DEFINE n == [w EXCEPT !.valid[p] = c]
<1>0. w \in Worlds /\ Lists(w) /\ Homes(w) /\ AllKept(w) /\ Placed(w)
    BY DEF Sound
<1>1. /\ n \in Worlds
      /\ n.valid = [w.valid EXCEPT ![p] = c]
      /\ n.online = w.online /\ n.at = w.at /\ n.bind = w.bind
      /\ n.party = w.party /\ n.gbind = w.gbind
      /\ n.save = w.save /\ n.events = w.events /\ n.stored = w.stored
      /\ n.used = w.used
    BY <1>0 DEF Worlds
<1> HIDE DEF n
<1>2. \A q \in Players : q # p => (n.valid[q] <=> w.valid[q])
    BY <1>0, <1>1 DEF Worlds
<1>3. Placed(n)
    BY <1>0, <1>1, <1>2 DEF Placed
<1>4. Lists(n) /\ Homes(n) /\ AllKept(n)
    BY <1>0, <1>1, Frame
<1> QED
    BY <1>1, <1>3, <1>4 DEF Sound, n

(* A player comes back to where it was saved, or is sent elsewhere.        *)
LEMMA InvLogin ==
    ASSUME SavesInv, NEW p \in Players, Login(p)
    PROVE  SavesInv'
<1> DEFINE to == LoginRoute(world, p)
           in == AddPlayerToMap(to.world, p, to.id)
           c == CheckInstanceValidity(to.world, p, to.id, Inside(to.world, to.id))
           n == [in EXCEPT !.valid[p] = c]
<1>0. Sound(world) /\ Joined(world)
    BY DEF SavesInv
<1>1. /\ p \notin world.online
      /\ Becomes(IF to.id = NoId THEN to.world
                 ELSE IF in.at[p] # to.id THEN in
                 ELSE n)
    BY DEF Login
<1>2. /\ to.world.online = world.online \cup {p}
      /\ to.world.at[p] = NoId
      /\ to.world.party = world.party /\ to.world.gbind = world.gbind
      /\ to.id = NoId => Sound(to.world)
      /\ to.id # NoId => to.id \in Ids /\ SoundBut(to.world, to.id)
    BY <1>0, <1>1, RouteFacts
<1>3. c \in BOOLEAN
    BY DEF CheckInstanceValidity
<1> HIDE DEF to, c
<1>4. CASE to.id = NoId
  <2>1. Joined(to.world)
    BY <1>0, <1>2 DEF Joined
  <2> QED
    BY <1>1, <1>2, <1>4, <2>1, BecomesFacts
<1>5. CASE to.id # NoId
  <2>0. p \in to.world.online
    BY <1>2
  <2>1. /\ Sound(in)
        /\ in.party = world.party
        /\ in.gbind = world.gbind \/ p \in world.party
    BY <1>2, <1>5, <2>0, AddPlayerFacts
  <2> HIDE DEF in
  <2>2. Joined(in)
    BY <1>0, <2>1 DEF Joined
  <2>3. CASE in.at[p] # to.id
    BY <1>1, <1>5, <2>1, <2>2, <2>3, BecomesFacts
  <2>4. CASE in.at[p] = to.id
    <3>1. Sound(n) /\ n.party = in.party /\ n.gbind = in.gbind
      BY <1>3, <1>5, <2>1, <2>4, SetValidFacts
    <3> HIDE DEF n
    <3>2. Joined(n)
      BY <2>2, <3>1 DEF Joined
    <3> QED
      BY <1>1, <1>5, <2>4, <3>1, <3>2, BecomesFacts
  <2> QED
    BY <2>3, <2>4
<1> QED
    BY <1>4, <1>5

(* The bind goes before the player leaves his copy and the world.          *)
LEMMA LogoutFacts ==
    ASSUME NEW w, Sound(w), NEW p \in w.online
    PROVE  LET i == w.bind[p]
               clean == IF i = NoId THEN w
                        ELSE RemovePlayer([w EXCEPT !.bind[p] = NoId], i, p)
               gone == [clean EXCEPT !.online = @ \ {p}, !.valid[p] = TRUE]
               n == IF clean.at[p] = NoId THEN gone
                    ELSE RemovePlayerFromMap(clean, p, gone)
           IN  Sound(n) /\ n.party = w.party /\ n.gbind = w.gbind
<1> DEFINE i == w.bind[p]
           v == [w EXCEPT !.bind[p] = NoId]
           clean == IF i = NoId THEN w ELSE RemovePlayer(v, i, p)
           gone == [clean EXCEPT !.online = @ \ {p}, !.valid[p] = TRUE]
           n == IF clean.at[p] = NoId THEN gone
                ELSE RemovePlayerFromMap(clean, p, gone)
<1>0. /\ w \in Worlds /\ Lists(w) /\ Homes(w) /\ AllKept(w) /\ Placed(w)
      /\ p \in Players /\ NoId \in IdOrNone /\ i \in IdOrNone
    BY DEF Sound, Worlds, IdOrNone
<1>1. /\ clean \in Worlds /\ Lists(clean) /\ AllKept(clean)
      /\ \A q \in Players : clean.bind[q] = IF q = p THEN NoId ELSE w.bind[q]
      /\ clean.online = w.online /\ clean.at = w.at /\ clean.valid = w.valid
      /\ clean.party = w.party /\ clean.gbind = w.gbind
  <2>1. CASE i = NoId
    BY <1>0, <2>1
  <2>2. CASE i # NoId
    <3>1. /\ v \in Worlds
          /\ v.bind = [w.bind EXCEPT ![p] = NoId]
          /\ v.online = w.online /\ v.at = w.at /\ v.valid = w.valid
          /\ v.party = w.party /\ v.gbind = w.gbind /\ v.save = w.save
          /\ v.used = w.used /\ v.events = w.events
          /\ v.stored \subseteq w.stored
      BY <1>0 DEF Worlds
    <3>2. clean = RemovePlayer(v, i, p) /\ i \in Ids /\ w.bind[p] = i
      BY <1>0, <2>2 DEF IdOrNone
    <3> HIDE DEF clean, v, i
    <3>3. OnlySave(v, clean) /\ Lists(clean) /\ AllKept(clean)
      BY <1>0, <3>1, <3>2, Unbound
    <3>4. /\ clean \in Worlds /\ clean.bind = v.bind
          /\ clean.online = v.online /\ clean.at = v.at /\ clean.valid = v.valid
          /\ clean.party = v.party /\ clean.gbind = v.gbind
      BY <3>1, <3>3, OnlySaveFacts
    <3>5. \A q \in Players : clean.bind[q] = IF q = p THEN NoId ELSE w.bind[q]
      BY <1>0, <3>1, <3>4 DEF Worlds
    <3> QED
      BY <3>1, <3>3, <3>4, <3>5
  <2> QED
    BY <2>1, <2>2
<1> HIDE DEF clean
<1>2. /\ gone \in Worlds
      /\ gone.online = w.online \ {p}
      /\ gone.valid = [w.valid EXCEPT ![p] = TRUE]
      /\ gone.at = w.at /\ gone.bind = clean.bind
      /\ gone.party = w.party /\ gone.gbind = w.gbind
      /\ gone.save = clean.save /\ gone.stored = clean.stored
      /\ gone.used = clean.used /\ gone.events = clean.events
    BY <1>0, <1>1 DEF Worlds
<1> HIDE DEF gone
<1>3. Lists(gone)
    BY <1>1, <1>2 DEF Lists
<1>4. \A q \in Players : q # p => (gone.valid[q] <=> w.valid[q])
    BY <1>0, <1>2 DEF Worlds
<1>5. gone.valid[p]
    BY <1>0, <1>2 DEF Worlds
<1>6. Homes(gone)
    BY <1>0, <1>1, <1>2 DEF Homes
<1>7. Placed(gone)
    BY <1>0, <1>2, <1>4, <1>5 DEF Placed
<1>8. \A j : j # w.at[p] => Inside(gone, j) = Inside(clean, j)
    BY <1>1, <1>2 DEF Inside
<1>9. CASE w.at[p] = NoId
  <2>1. \A j \in Ids : j # NoId
    BY DEF Ids, NoId
  <2>2. AllKept(gone)
    BY <1>1, <1>2, <1>8, <1>9, <2>1 DEF AllKept, Taken, Kept
  <2>3. n = gone
    BY <1>1, <1>9
  <2> QED
    BY <1>2, <1>3, <1>6, <1>7, <2>2, <2>3 DEF Sound, clean, gone
<1>10. CASE w.at[p] # NoId
  <2>1. /\ n = RemovePlayerFromMap(clean, p, gone)
        /\ clean.at[p] \in Ids
    BY <1>0, <1>1, <1>10 DEF Worlds, IdOrNone
  <2>2. /\ n \in Worlds /\ Lists(n) /\ AllKept(n)
        /\ n.online = gone.online /\ n.at = gone.at /\ n.valid = gone.valid
        /\ n.bind = gone.bind /\ n.party = gone.party /\ n.gbind = gone.gbind
    <3> HIDE DEF n
    <3> QED
      BY <1>0, <1>1, <1>2, <1>3, <1>8, <2>1, RemoveFromMapFacts
  <2> HIDE DEF n
  <2>3. Homes(n) /\ Placed(n)
    BY <1>6, <1>7, <2>2 DEF Homes, Placed
  <2> QED
    BY <1>2, <2>2, <2>3 DEF Sound, n, clean, gone
<1> QED
    BY <1>9, <1>10

(* A player is saved and taken out of its copy.                            *)
LEMMA InvLogout ==
    ASSUME SavesInv, NEW p \in Players, NEW normal \in BOOLEAN, Logout(p, normal)
    PROVE  SavesInv'
<1> DEFINE home == IF world.valid[p] THEN world ELSE Leave(world, p)
<1>0. Sound(world) /\ Joined(world)
    BY DEF SavesInv
<1>1. PICK heir \in Heirs(home, p) :
        LET alone == IF normal /\ p \in home.party
                     THEN RemoveMember(home, p, heir) ELSE home
            i == alone.bind[p]
            clean == IF i = NoId THEN alone
                     ELSE RemovePlayer([alone EXCEPT !.bind[p] = NoId], i, p)
            gone == [clean EXCEPT !.online = @ \ {p}, !.valid[p] = TRUE]
        IN Becomes(IF clean.at[p] = NoId THEN gone
                   ELSE RemovePlayerFromMap(clean, p, gone))
    BY DEF Logout
<1>2. Sound(home) /\ Joined(home) /\ home.online = world.online
  <2>1. CASE world.valid[p]
    BY <1>0, <2>1
  <2>2. CASE ~world.valid[p]
    <3>1. world.at[p] # NoId
      BY <1>0, <2>2 DEF Sound, Placed
    <3>2. /\ Sound(Leave(world, p))
          /\ Leave(world, p).online = world.online
          /\ Leave(world, p).party = world.party
          /\ Leave(world, p).gbind = world.gbind
      BY <1>0, <3>1, LeaveFacts
    <3> QED
      BY <1>0, <2>2, <3>2 DEF Joined
  <2> QED
    BY <2>1, <2>2
<1> HIDE DEF home
<1> DEFINE alone == IF normal /\ p \in home.party
                    THEN RemoveMember(home, p, heir) ELSE home
<1>3. Sound(alone) /\ Joined(alone) /\ alone.online = world.online
    BY <1>2, RemoveMemberFacts
<1> HIDE DEF alone
<1>4. p \in alone.online
    BY <1>3 DEF Logout
<1> DEFINE i == alone.bind[p]
           clean == IF i = NoId THEN alone
                    ELSE RemovePlayer([alone EXCEPT !.bind[p] = NoId], i, p)
           gone == [clean EXCEPT !.online = @ \ {p}, !.valid[p] = TRUE]
           n == IF clean.at[p] = NoId THEN gone
                ELSE RemovePlayerFromMap(clean, p, gone)
<1>5. Sound(n) /\ n.party = alone.party /\ n.gbind = alone.gbind
    BY <1>3, <1>4, LogoutFacts
<1>6. Becomes(n)
    BY <1>1 DEF alone
<1> HIDE DEF n
<1>7. Joined(n)
    BY <1>3, <1>5 DEF Joined
<1> QED
    BY <1>5, <1>6, <1>7, BecomesFacts

(* An invitation is accepted.                                              *)
LEMMA InvAccept ==
    ASSUME SavesInv, NEW p \in Players, NEW l \in Players, Accept(l, p)
    PROVE  SavesInv'
<1>0. Sound(world)
    BY DEF SavesInv
<1>1. PICK w \in {world, CreateGroup(world, l)} : Becomes(AddMember(w, p))
    BY DEF Accept
<1>2. Sound(w)
    BY <1>0, CreateGroupFacts
<1>3. Sound(AddMember(w, p)) /\ p \in AddMember(w, p).party
    BY <1>2, AddMemberFacts
<1>4. Joined(AddMember(w, p))
    BY <1>3 DEF Joined
<1> QED
    BY <1>1, <1>3, <1>4, BecomesFacts

(* A member is removed, or another one becomes the leader.                 *)
LEMMA InvParty ==
    ASSUME SavesInv, NEW p \in Players, Remove(p) \/ SetLeader(p)
    PROVE  SavesInv'
<1>0. Sound(world)
    BY DEF SavesInv
<1>1. CASE Remove(p)
  <2>1. PICK heir \in Heirs(world, p) : Becomes(RemoveMember(world, p, heir))
    BY <1>1 DEF Remove
  <2> QED
    BY <1>0, <2>1, RemoveMemberFacts, BecomesFacts
<1>2. CASE SetLeader(p)
  <2>1. p \in world.party /\ Becomes(ChangeLeader(world, p))
    BY <1>2 DEF SetLeader
  <2>2. Sound(ChangeLeader(world, p)) /\ Joined(ChangeLeader(world, p))
    BY <1>0, <2>1, ChangeLeaderFacts DEF Joined
  <2> QED
    BY <2>1, <2>2, BecomesFacts
<1> QED
    BY <1>1, <1>2

(* The leader, or a player in no party, resets its instances.              *)
LEMMA InvRequestReset ==
    ASSUME SavesInv, NEW p \in Players, RequestReset(p)
    PROVE  SavesInv'
<1>0. Sound(world) /\ Joined(world) /\ FALSE \in BOOLEAN
    BY DEF SavesInv
<1>1. CASE Becomes(PlayerResetInstances(world, p))
  <2>1. /\ Sound(PlayerResetInstances(world, p))
        /\ PlayerResetInstances(world, p).party = world.party
        /\ PlayerResetInstances(world, p).gbind = world.gbind
    BY <1>0, PlayerResetFacts
  <2>2. Joined(PlayerResetInstances(world, p))
    BY <1>0, <2>1 DEF Joined
  <2> QED
    BY <1>1, <2>1, <2>2, BecomesFacts
<1>2. CASE Becomes(GroupResetInstances(world, FALSE))
  <2>1. /\ Sound(GroupResetInstances(world, FALSE))
        /\ GroupResetInstances(world, FALSE).party = world.party
        /\ GroupResetInstances(world, FALSE).gbind \in {world.gbind, NoId}
    BY <1>0, GroupResetFacts
  <2>2. Joined(GroupResetInstances(world, FALSE))
    BY <1>0, <2>1 DEF Joined
  <2> QED
    BY <1>2, <2>1, <2>2, BecomesFacts
<1> QED
    BY <1>1, <1>2 DEF RequestReset

(* The unload timer of a copy runs out.                                    *)
LEMMA InvUnload ==
    ASSUME SavesInv, NEW i \in Ids, Unload(i)
    PROVE  SavesInv'
<1> DEFINE n == SetCopy(world, i, "none")
<1>0. /\ world \in Worlds /\ Lists(world) /\ Homes(world) /\ AllKept(world)
      /\ Placed(world) /\ Joined(world)
    BY DEF SavesInv, Sound
<1>1. Becomes(n)
    BY DEF Unload, SetCopy
<1> HIDE DEF n
<1>2. /\ n \in Worlds
      /\ n.online = world.online /\ n.at = world.at /\ n.valid = world.valid
      /\ n.bind = world.bind /\ n.party = world.party /\ n.gbind = world.gbind
      /\ n.save = world.save /\ n.stored = world.stored /\ n.used = world.used
      /\ n.events = world.events
    BY <1>0, SetCopyFacts DEF n
<1>3. Lists(n) /\ Homes(n) /\ AllKept(n)
    BY <1>0, <1>2, Frame
<1>4. Placed(n) /\ Joined(n)
    BY <1>0, <1>2 DEF Placed, Joined
<1> QED
    BY <1>1, <1>2, <1>3, <1>4, BecomesFacts DEF Sound

(* The event is used up, and so is the id.                                 *)
LEMMA InvResetInstance ==
    ASSUME SavesInv, NEW i \in Ids, ResetInstance(i)
    PROVE  SavesInv'
<1> DEFINE s == ResetSave(world, i)
           d == DeleteInstanceFromDB(s, i)
           r == Reset(d, i)
           n == [r EXCEPT !.used = @ \ {i}, !.events = [r.events EXCEPT ![i] = @ - 1]]
<1>0. /\ world \in Worlds /\ Lists(world) /\ Homes(world) /\ AllKept(world)
      /\ Placed(world) /\ Joined(world)
    BY DEF SavesInv, Sound
<1>1. world.events[i] > 0 /\ Becomes(n)
    BY DEF ResetInstance
<1> HIDE DEF n
<1>2. /\ s \in Worlds /\ Lists(s)
      /\ ~s.save[i].known
      /\ \A j \in Ids : j # i => s.save[j] = world.save[j]
      /\ \A p \in Players : s.bind[p] \in {NoId, world.bind[p]}
      /\ s.gbind \in {NoId, world.gbind}
      /\ s.online = world.online /\ s.at = world.at /\ s.valid = world.valid
      /\ s.party = world.party
      /\ s.stored = world.stored /\ s.used = world.used
      /\ s.events = world.events
    BY <1>0, ResetSaveFacts
<1> HIDE DEF s
<1>3. /\ d \in Worlds
      /\ d.online = s.online /\ d.at = s.at /\ d.valid = s.valid
      /\ d.bind = s.bind /\ d.party = s.party
      /\ d.gbind = s.gbind /\ d.save = s.save
      /\ d.used = s.used /\ d.events = s.events
      /\ d.stored = s.stored \ {i}
    BY <1>2, DeleteFacts
<1> HIDE DEF d
<1>4. /\ r \in Worlds
      /\ r.online = d.online /\ r.at = d.at /\ r.valid = d.valid
      /\ r.bind = d.bind /\ r.party = d.party
      /\ r.gbind = d.gbind /\ r.save = d.save
      /\ r.stored = d.stored /\ r.used = d.used /\ r.events = d.events
    BY <1>3, ResetFacts
<1> HIDE DEF r
<1>5. r.events \in [Ids -> Nat] /\ r.events[i] - 1 \in Nat
    BY <1>1, <1>2, <1>3, <1>4 DEF Worlds
<1>6. /\ n \in Worlds
      /\ n.online = r.online /\ n.at = r.at /\ n.valid = r.valid
      /\ n.bind = r.bind /\ n.party = r.party
      /\ n.gbind = r.gbind /\ n.save = r.save /\ n.stored = r.stored
      /\ n.used = r.used \ {i}
      /\ n.events = [r.events EXCEPT ![i] = @ - 1]
    <2> DEFINE more == [r.events EXCEPT ![i] = @ - 1]
    <2>1. more \in [Ids -> Nat]
      BY <1>5
    <2>2. n = [r EXCEPT !.used = @ \ {i}, !.events = more]
      BY DEF n
    <2> HIDE DEF more
    <2>3. /\ n \in Worlds /\ n.events = more
          /\ n.online = r.online /\ n.at = r.at /\ n.valid = r.valid
          /\ n.bind = r.bind /\ n.party = r.party
          /\ n.gbind = r.gbind /\ n.save = r.save /\ n.stored = r.stored
          /\ n.used = r.used \ {i}
      BY <1>4, <2>1, <2>2 DEF Worlds
    <2> QED
      BY <2>3 DEF more
<1>7. /\ n.online = world.online /\ n.at = world.at /\ n.valid = world.valid
      /\ n.party = world.party
      /\ n.bind = s.bind /\ n.gbind = s.gbind /\ n.save = s.save
      /\ n.stored = world.stored \ {i} /\ n.used = world.used \ {i}
      /\ \A j \in Ids : j # i => n.events[j] = world.events[j]
    BY <1>2, <1>3, <1>4, <1>5, <1>6
<1>8. Lists(n)
    BY <1>2, <1>7 DEF Lists
<1>9. Homes(n)
    BY <1>0, <1>2, <1>7 DEF Homes
<1>10. Placed(n) /\ Joined(n)
    BY <1>0, <1>2, <1>7 DEF Placed, Joined
<1>11. \A j : Inside(n, j) = Inside(world, j)
    BY <1>7 DEF Inside
<1>12. AllKept(n)
  <2> SUFFICES ASSUME NEW j \in Ids, Taken(n, j)
               PROVE  Kept(n, j)
    BY DEF AllKept
  <2>1. j # i
    BY <1>2, <1>7 DEF Taken
  <2>2. Kept(world, j)
    BY <1>0, <1>2, <1>7, <2>1 DEF AllKept, Taken
  <2> QED
    BY <1>2, <1>7, <1>11, <2>1, <2>2 DEF Kept
<1> QED
    BY <1>1, <1>6, <1>8, <1>9, <1>10, <1>12, BecomesFacts DEF Sound

(* Every step keeps the invariant.                                         *)
LEMMA InvNext ==
    SavesInv /\ [Next]_world => SavesInv'
<1> SUFFICES ASSUME SavesInv, [Next]_world
             PROVE  SavesInv'
    OBVIOUS
<1>1. ASSUME NEW p \in Players, Enter(p)
      PROVE  SavesInv'
    BY <1>1, InvEnter
<1>2. ASSUME NEW p \in Players, Exit(p) \/ Expel(p)
      PROVE  SavesInv'
    BY <1>2, InvLeave
<1>3. ASSUME NEW p \in Players, Login(p)
      PROVE  SavesInv'
    BY <1>3, InvLogin
<1>4. ASSUME NEW p \in Players, NEW normal \in BOOLEAN, Logout(p, normal)
      PROVE  SavesInv'
    BY <1>4, InvLogout
<1>5. ASSUME NEW p \in Players, NEW l \in Players, Accept(l, p)
      PROVE  SavesInv'
    BY <1>5, InvAccept
<1>6. ASSUME NEW p \in Players, Remove(p) \/ SetLeader(p)
      PROVE  SavesInv'
    BY <1>6, InvParty
<1>7. ASSUME NEW p \in Players, RequestReset(p)
      PROVE  SavesInv'
    BY <1>7, InvRequestReset
<1>8. ASSUME NEW i \in Ids, Unload(i)
      PROVE  SavesInv'
    BY <1>8, InvUnload
<1>9. ASSUME NEW i \in Ids, ResetInstance(i)
      PROVE  SavesInv'
    BY <1>9, InvResetInstance
<1>10. CASE UNCHANGED world
    BY <1>10 DEF SavesInv
<1> QED
    BY <1>1, <1>2, <1>3, <1>4, <1>5, <1>6, <1>7, <1>8, <1>9, <1>10 DEF Next

-----------------------------------------------------------------------------
(* The results.                                                            *)

(* The inductive invariant holds for ever.                                 *)
LEMMA InvCorrect == Spec => []SavesInv
<1>1. SavesInv /\ [Next]_world => SavesInv'
    BY InvNext
<1>2. Init => SavesInv
    BY InvInit
<1> HIDE DEF SavesInv, Init, Next
<1> QED
    BY <1>1, <1>2, PTL DEF Spec

(* Whatever players, parties and resets do, the state keeps its type.      *)
THEOREM TypeCorrect == Spec => []TypeOK
<1>1. SavesInv => TypeOK
    BY DEF SavesInv, TypeOK
<1> QED
    BY <1>1, InvCorrect, PTL

(* The binds that players and parties keep are the lists that the saves    *)
(* keep, through logouts, disbanded parties and resets (UnbindInstance,    *)
(* UnloadIfEmpty, _ResetInstance).                                         *)
THEOREM BindsCorrect == Spec => []BindsMatch
<1>1. SavesInv => BindsMatch
    BY DEF SavesInv, Sound, Lists, Homes, Joined, BindsMatch
<1> QED
    BY <1>1, InvCorrect, PTL

(* An id that MapManager has handed out will be freed: somebody is in its  *)
(* copy, or an event is queued (SetResetSchedule, AddInstanceSave).        *)
THEOREM IdsCorrect == Spec => []NoIdLeak
<1>1. SavesInv => NoIdLeak
    BY DEF SavesInv, Sound, Worlds, AllKept, Taken, Kept, NoIdLeak
<1> QED
    BY <1>1, InvCorrect, PTL

(* AddPlayerToMap neither refuses nor asserts when a player is sent to the *)
(* copy that CreateInstanceForPlayer has chosen.                           *)
THEOREM EntryCorrect == Spec => []EntryAccepted
<1>1. SavesInv => EntryAccepted
  <2> SUFFICES ASSUME SavesInv, NEW p \in Players
               PROVE  LET to == IF p \in world.online
                                THEN CreateInstanceForPlayer(world, p, NoId)
                                ELSE LoginRoute(world, p)
                      IN to.id # NoId /\ (p \in world.online => world.at[p] = NoId)
                          => Accepts(to.world, p, to.id)
    BY DEF EntryAccepted
  <2>0. Sound(world) /\ NoId \in IdOrNone
    BY DEF SavesInv, IdOrNone
  <2>1. CASE p \in world.online
    BY <2>0, <2>1, CreateFacts
  <2>2. CASE p \notin world.online
    BY <2>0, <2>2, RouteFacts
  <2> QED
    BY <2>1, <2>2
<1> QED
    BY <1>1, InvCorrect, PTL
==============================================================================
