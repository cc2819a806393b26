----------------------------- MODULE InstanceIds -----------------------------
(***************************************************************************)
(* The instance id allocator of MapManager: a std::vector<bool> of used    *)
(* ids and the next id to hand out.                                        *)
(*                                                                         *)
(* The world thread loads the ids of the database, generates ids for       *)
(* dungeons and battlegrounds, and frees the id of a dungeon that is       *)
(* reset.  The id of a battleground is freed by DestroyInstance, which     *)
(* runs in the worker threads of the MapUpdater, between the start of the  *)
(* map tick and its barrier.  Nothing locks the allocator, so a worker's   *)
(* FreeInstanceId is modelled by its memory accesses: the read and the     *)
(* write of _nextInstanceId, the read and the write of the vector's word.  *)
(*                                                                         *)
(* The vector is that of libstdc++: capacity is a whole number of words,   *)
(* and a reallocation at least doubles the size.  A bit written beyond the *)
(* size is not kept: the next reallocation copies size bits.               *)
(***************************************************************************)
EXTENDS Integers, SequencesExt

CONSTANTS Word,         \* bits of a word of std::vector<bool> (64)
          Block,        \* the multiple the code resizes to (32)
          MaxId,        \* bound: no id above this one is generated
          Stored,       \* the ids the database may hold at startup
          Workers       \* threads of the MapUpdater

ASSUME SizesAssumption ==
    /\ Block \in Nat \ {0}
    /\ Word \in Nat \ {0}
    /\ Word % Block = 0
    /\ MaxId \in Nat
    /\ Stored \subseteq 1..MaxId

VARIABLES
    size, capacity,     \* of _instanceIds
    marked,             \* the ids whose bit is set
    next,               \* _nextInstanceId
    dungeons,           \* ids in use by dungeon instances and saves
    battlegrounds,      \* ids in use by battlegrounds
    ticking,            \* the map tick runs: the world thread is at the barrier
    pc, freeing, word   \* of each worker: place, id it frees, the word it read

vectorVars == <<size, capacity, marked>>
workerVars == <<pc, freeing, word>>
vars == <<vectorVars, next, dungeons, battlegrounds, ticking, workerVars>>

used == dungeons \cup battlegrounds

WordOf(i) == {j \in 0..(capacity + Word) : j \div Word = i \div Word}

RoundUp(n) == ((n + Word - 1) \div Word) * Word

(* std::vector<bool>::resize when the size grows. *)
Resize(n) ==
    /\ size' = n
    /\ capacity' = IF n <= capacity THEN capacity
                   ELSE RoundUp(IF n > 2 * size THEN n ELSE 2 * size)

(* LoadInstances: InitInstanceIds sizes the vector after the largest id,   *)
(* LoadResetTimes goes through the ids in ascending order.                 *)
InitialSize(ids) == ((IF ids = {} THEN 0 ELSE Max(ids)) \div Block) * Block + Block

NextAfter(ids) ==
    FoldLeft(LAMBDA n, id : IF n = id THEN id + 1 ELSE n, 1, SetToSortSeq(ids, <))

Init ==
    /\ \E ids \in SUBSET Stored :
        /\ size = InitialSize(ids)
        /\ capacity = RoundUp(InitialSize(ids))
        /\ marked = ids
        /\ next = NextAfter(ids)
        /\ dungeons = ids
    /\ battlegrounds = {}
    /\ ticking = FALSE
    /\ pc = [w \in Workers |-> "idle"]
    /\ freeing = [w \in Workers |-> 0]
    /\ word = [w \in Workers |-> {}]

-----------------------------------------------------------------------------
(* Mutant: the next id is not searched for. *)
GenerateWithoutSearch ==
    /\ next' = next + 1
    /\ IF next < size
       THEN UNCHANGED <<size, capacity>>
       ELSE Resize((next \div Block) * Block + Block)
    /\ marked' = marked \cup {next}

(* GenerateInstanceId hands out next, looks for the next id whose bit is   *)
(* clear, makes room when the handed out id is beyond the size.            *)
GenerateInstanceId ==
    /\ next' = Min({i \in (next + 1)..(next + size + 1) : i >= size \/ i \notin marked})
    /\ IF next < size
       THEN UNCHANGED <<size, capacity>>
       ELSE IF size < capacity
            THEN Resize(capacity)
            ELSE Resize((next \div Block) * Block + (IF next % Block > 0 THEN Block ELSE 0))
    /\ marked' = IF next < size' THEN marked \cup {next} ELSE marked

Generate ==
    /\ ~ticking
    /\ next <= MaxId
    /\ GenerateInstanceId
    /\ \/ dungeons' = dungeons \cup {next} /\ UNCHANGED battlegrounds
       \/ battlegrounds' = battlegrounds \cup {next} /\ UNCHANGED dungeons
    /\ UNCHANGED <<ticking, workerVars>>

(* Mutant: _nextInstanceId is kept. *)
FreeDungeonKeepNext(i) ==
    /\ ~ticking
    /\ i \in dungeons
    /\ marked' = marked \ {i}
    /\ dungeons' = dungeons \ {i}
    /\ UNCHANGED <<size, capacity, next, battlegrounds, ticking, workerVars>>

(* FreeInstanceId called by _ResetInstance in the world thread. *)
FreeDungeon(i) ==
    /\ ~ticking
    /\ i \in dungeons
    /\ next' = IF i < next THEN i ELSE next
    /\ marked' = marked \ {i}
    /\ dungeons' = dungeons \ {i}
    /\ UNCHANGED <<size, capacity, battlegrounds, ticking, workerVars>>

-----------------------------------------------------------------------------
StartTick ==
    /\ ~ticking
    /\ Workers # {}
    /\ ticking' = TRUE
    /\ UNCHANGED <<vectorVars, next, dungeons, battlegrounds, workerVars>>

(* MapUpdater::wait returns. *)
Barrier ==
    /\ ticking
    /\ \A w \in Workers : pc[w] = "idle"
    /\ ticking' = FALSE
    /\ UNCHANGED <<vectorVars, next, dungeons, battlegrounds, workerVars>>

(* FreeInstanceId called by DestroyInstance in a worker thread. *)
CompareNext(w, i) ==
    /\ ticking
    /\ pc[w] = "idle"
    /\ i \in battlegrounds
    /\ \A v \in Workers : freeing[v] # i
    /\ freeing' = [freeing EXCEPT ![w] = i]
    /\ pc' = [pc EXCEPT ![w] = IF i < next THEN "store" ELSE "load"]
    /\ UNCHANGED <<vectorVars, next, dungeons, battlegrounds, ticking, word>>

StoreNext(w) ==
    /\ pc[w] = "store"
    /\ next' = freeing[w]
    /\ pc' = [pc EXCEPT ![w] = "load"]
    /\ UNCHANGED <<vectorVars, dungeons, battlegrounds, ticking, freeing, word>>

LoadWord(w) ==
    /\ pc[w] = "load"
    /\ word' = [word EXCEPT ![w] = marked \cap WordOf(freeing[w])]
    /\ pc' = [pc EXCEPT ![w] = "write"]
    /\ UNCHANGED <<vectorVars, next, dungeons, battlegrounds, ticking, freeing>>

WriteWord(w) ==
    /\ pc[w] = "write"
    /\ marked' = (marked \ WordOf(freeing[w])) \cup (word[w] \ {freeing[w]})
    /\ battlegrounds' = battlegrounds \ {freeing[w]}
    /\ pc' = [pc EXCEPT ![w] = "idle"]
    /\ freeing' = [freeing EXCEPT ![w] = 0]
    /\ word' = [word EXCEPT ![w] = {}]
    /\ UNCHANGED <<size, capacity, next, dungeons, ticking>>

Next ==
    \/ Generate
    \/ \E i \in dungeons : FreeDungeon(i)
    \/ StartTick
    \/ Barrier
    \/ \E w \in Workers :
        \/ \E i \in battlegrounds : CompareNext(w, i)
        \/ StoreNext(w)
        \/ LoadWord(w)
        \/ WriteWord(w)

Spec == Init /\ [][Next]_vars

-----------------------------------------------------------------------------
(* Type invariant. *)
TypeOK ==
    /\ size \in Nat /\ capacity \in Nat /\ size <= capacity
    /\ marked \subseteq 0..(size - 1)
    /\ next \in 1..(MaxId + 1)
    /\ dungeons \subseteq 1..MaxId
    /\ battlegrounds \subseteq 1..MaxId
    /\ ticking \in BOOLEAN
    /\ pc \in [Workers -> {"idle", "store", "load", "write"}]
    /\ freeing \in [Workers -> 0..MaxId]
    /\ word \in [Workers -> SUBSET (0..MaxId)]

(* No two instances have the same id: GenerateInstanceId returns an        *)
(* available one.                                                          *)
FreshIds == [][Generate => next \notin used]_vars

(* GenerateInstanceId trusts FreeInstanceId for this: outside of the map   *)
(* tick every id below _nextInstanceId is in use, so none is lost.         *)
NextIsLowest == ~ticking => \A i \in 1..(next - 1) : i \in used
=============================================================================
