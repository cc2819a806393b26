------------------------------- MODULE MapTick -------------------------------
(***************************************************************************)
(* What MapManager::Update promises to the world loop, without threads,    *)
(* locks or queues: time advances in ticks; in a tick every live map is    *)
(* served once, an instance after the map that contains it: it is updated, *)
(* or destroyed because it can be unloaded, or left alone because players  *)
(* remain in it; the delayed phase begins only when all of that is over.   *)
(***************************************************************************)
CONSTANTS BaseMaps,     \* the maps of MapManager::i_maps
          Instances,    \* the maps of the MapInstanced::m_InstancedMaps
          Parent        \* the base map an instance belongs to

VARIABLES phase,        \* "world", "updating" or "delayed"
          live,         \* the maps that exist
          served        \* the maps whose turn in this tick is over

vars == <<phase, live, served>>

Maps == BaseMaps \cup Instances

(* A map exists only inside the base map that contains it. *)
Ancestors(m) == IF m \in Instances THEN {m, Parent[m]} ELSE {m}

Init ==
    /\ phase = "world"
    /\ live = {}
    /\ served = {}

(* MapManager::CreateMap, called by the world thread between two ticks. *)
Create(m) ==
    /\ phase = "world"
    /\ m \notin live
    /\ live' = live \cup Ancestors(m)
    /\ UNCHANGED <<phase, served>>

Begin ==
    /\ phase = "world"
    /\ phase' = "updating"
    /\ served' = {}
    /\ UNCHANGED live

Serve(m) ==
    /\ phase = "updating"
    /\ m \in live \ served
    /\ Ancestors(m) \ {m} \subseteq served
    /\ served' = served \cup {m}
    /\ UNCHANGED <<phase, live>>

(* MapInstanced::DestroyInstance. *)
Destroy(i) ==
    /\ phase = "updating"
    /\ i \in (live \cap Instances) \ served
    /\ Parent[i] \in served
    /\ live' = live \ {i}
    /\ UNCHANGED <<phase, served>>

(* The barrier: nothing live is left to update. *)
Barrier ==
    /\ phase = "updating"
    /\ live \subseteq served
    /\ phase' = "delayed"
    /\ UNCHANGED <<live, served>>

End ==
    /\ phase = "delayed"
    /\ phase' = "world"
    /\ UNCHANGED <<live, served>>

(* MapManager::UnloadAll, when the world has stopped. *)
Unload ==
    /\ phase = "world"
    /\ live' = {}
    /\ phase' = "stopped"
    /\ UNCHANGED served

Next ==
    \/ \E m \in Maps : Create(m) \/ Serve(m)
    \/ \E i \in Instances : Destroy(i)
    \/ Begin \/ Barrier \/ End \/ Unload

Spec == Init /\ [][Next]_vars
=============================================================================
