----------------------------- MODULE MapUpdater -----------------------------
(***************************************************************************)
(* The parallel map tick: MapManager::Update, MapUpdater and the           *)
(* ProducerConsumerQueue between them.                                     *)
(*                                                                         *)
(* The world thread (Main) schedules one request per base map and waits    *)
(* until pending_requests is 0.  Worker threads pop requests; the update   *)
(* of a MapInstanced schedules requests of its own, from the worker.       *)
(*                                                                         *)
(* Granularity.  MapUpdater::_lock is modelled as a lock, for it is held   *)
(* across the call of Push.  A critical section of the queue's _queueLock  *)
(* contains no other blocking call and is one step.  A thread blocked in   *)
(* condition_variable::wait has pc "asleep"; a notified thread evaluates   *)
(* its loop condition again, which is where it stands when it first comes. *)
(***************************************************************************)
EXTENDS Integers, Sequences, FiniteSets

CONSTANTS Workers,      \* the threads that activate() starts
          Main,         \* the world thread
          BaseMaps,     \* maps of MapManager::i_maps
          Instances,    \* maps of the MapInstanced::m_InstancedMaps
          Parent,       \* the MapInstanced an instance belongs to
          NoMap,        \* the null MapUpdateRequest
          NoThread      \* MapUpdater::_lock is free

Threads == Workers \cup {Main}
Maps == BaseMaps \cup Instances

ASSUME ThreadsAssumption ==
    /\ IsFiniteSet(Workers)
    /\ Main \notin Workers
    /\ NoThread \notin Threads

ASSUME MapsAssumption ==
    /\ BaseMaps \cap Instances = {}
    /\ NoMap \notin Maps
    /\ Parent \in [Instances -> BaseMaps]

VARIABLES
    pending,    \* MapUpdater::pending_requests
    lock,       \* the thread that holds MapUpdater::_lock, or NoThread
    cancel,     \* MapUpdater::_cancelationToken
    queue,      \* ProducerConsumerQueue::_queue
    activated,  \* MapUpdater::activated: MapUpdate.Threads is not 0
    shutdown,   \* ProducerConsumerQueue::_shutdown
    pc,         \* where each thread stands
    request,    \* the map whose Update a thread runs
    scheduling, \* the map a thread is passing to schedule_update
    mapsLeft,   \* the rest of Main's loop over i_maps
    instLeft,   \* the rest of a thread's loop over m_InstancedMaps
    live,       \* the maps that exist
    served      \* maps whose turn in this tick is over (a history variable)

queueVars == <<queue, shutdown>>
mapVars == <<mapsLeft, live, served>>
vars == <<pending, lock, cancel, activated, queueVars, pc, request, scheduling, instLeft,
          mapVars>>

Asleep == {w \in Workers : pc[w] = "asleep"}

(* The instances of the MapInstanced m. *)
InstancedMaps(m) == {i \in Instances \cap live : Parent[i] = m}

Init ==
    /\ pending = 0
    /\ lock = NoThread
    /\ cancel = FALSE
    /\ activated \in BOOLEAN
    /\ queue = <<>>
    /\ shutdown = FALSE
    /\ pc = [t \in Threads |-> IF t = Main THEN "world"
                              ELSE IF activated THEN "WaitAndPop" ELSE "exit"]
    /\ request = [t \in Threads |-> NoMap]
    /\ scheduling = [t \in Threads |-> NoMap]
    /\ mapsLeft = {}
    /\ instLeft = [t \in Threads |-> {}]
    /\ live = {}
    /\ served = {}

-----------------------------------------------------------------------------
(* MapUpdater::schedule_update, by Main or by the worker that updates a    *)
(* MapInstanced.                                                           *)

(* Mutant: the requests of worker threads are not counted. *)
LockAndCountMainOnly(t, m) ==
    /\ lock = NoThread
    /\ lock' = t
    /\ pending' = IF t = Main THEN pending + 1 ELSE pending
    /\ scheduling' = [scheduling EXCEPT ![t] = m]

LockAndCount(t, m) ==
    /\ lock = NoThread
    /\ lock' = t
    /\ pending' = pending + 1
    /\ scheduling' = [scheduling EXCEPT ![t] = m]

(* Mutant: Push notifies only when the queue was empty. *)
PushNotifyIfEmpty(t) ==
    /\ pc[t] = "Push"
    /\ queue' = Append(queue, scheduling[t])
    /\ scheduling' = [scheduling EXCEPT ![t] = NoMap]
    /\ lock' = NoThread
    /\ LET back == [pc EXCEPT ![t] = IF t = Main THEN "loop" ELSE "visit"]
       IN  \/ Asleep = {} /\ pc' = back
           \/ queue # <<>> /\ pc' = back
           \/ queue = <<>> /\ \E w \in Asleep : pc' = [back EXCEPT ![w] = "WaitAndPop"]
    /\ UNCHANGED <<pending, cancel, activated, shutdown, request, instLeft, mapVars>>

(* ProducerConsumerQueue::Push, notify_one included, and the unlock. *)
Push(t) ==
    /\ pc[t] = "Push"
    /\ queue' = Append(queue, scheduling[t])
    /\ scheduling' = [scheduling EXCEPT ![t] = NoMap]
    /\ lock' = NoThread
    /\ LET back == [pc EXCEPT ![t] = IF t = Main THEN "loop" ELSE "visit"]
       IN  \/ Asleep = {} /\ pc' = back
           \/ \E w \in Asleep : pc' = [back EXCEPT ![w] = "WaitAndPop"]
    /\ UNCHANGED <<pending, cancel, activated, shutdown, request, instLeft, mapVars>>

-----------------------------------------------------------------------------
(* Worker threads. *)

(* ProducerConsumerQueue::WaitAndPop from the lock, or the wake up, to the *)
(* next wait or to the return; request stays null when nothing is popped.  *)
WaitAndPop(w) ==
    /\ pc[w] = "WaitAndPop"
    /\ IF queue = <<>> /\ ~shutdown
       THEN /\ pc' = [pc EXCEPT ![w] = "asleep"]
            /\ UNCHANGED <<queue, request>>
       ELSE /\ pc' = [pc EXCEPT ![w] = "popped"]
            /\ IF shutdown
               THEN UNCHANGED <<queue, request>>
               ELSE /\ request' = [request EXCEPT ![w] = Head(queue)]
                    /\ queue' = Tail(queue)
    /\ UNCHANGED <<pending, lock, cancel, activated, shutdown, scheduling, instLeft,
                   mapVars>>

(* condition_variable::wait may return without a notification. *)
SpuriousWakeUp(t) ==
    /\ pc[t] = "asleep"
    /\ pc' = [pc EXCEPT ![t] = IF t = Main THEN "wait" ELSE "WaitAndPop"]
    /\ UNCHANGED <<pending, lock, cancel, activated, queueVars, request, scheduling,
                   instLeft, mapVars>>

(* Mutant: the token is not looked at between WaitAndPop and call(). *)
CheckNoToken(w) ==
    /\ pc[w] = "popped"
    /\ pc' = [pc EXCEPT ![w] = IF request[w] # NoMap THEN "update" ELSE "fault"]
    /\ UNCHANGED <<pending, lock, cancel, activated, queueVars, request, scheduling,
                   instLeft, mapVars>>

(* The rest of WorkerThread's loop: leave on the token, or call().  With a *)
(* null request, call() dereferences it.                                   *)
CheckToken(w) ==
    /\ pc[w] = "popped"
    /\ pc' = [pc EXCEPT ![w] = IF cancel THEN "exit"
                               ELSE IF request[w] # NoMap THEN "update" ELSE "fault"]
    /\ UNCHANGED <<pending, lock, cancel, activated, queueVars, request, scheduling,
                   instLeft, mapVars>>

(* The end of Map::Update of the request's map; a MapInstanced goes on to  *)
(* its instances.                                                          *)
FinishUpdate(t) ==
    /\ pc[t] = "update"
    /\ served' = served \cup {request[t]}
    /\ instLeft' = [instLeft EXCEPT ![t] = InstancedMaps(request[t])]
    /\ pc' = [pc EXCEPT ![t] = "visit"]
    /\ UNCHANGED <<pending, lock, cancel, activated, queueVars, request, scheduling,
                   mapsLeft, live>>

(* MapInstanced::Update, CanUnload and DestroyInstance returns true.       *)
DestroyInstance(t, i) ==
    /\ pc[t] = "visit"
    /\ i \in instLeft[t]
    /\ instLeft' = [instLeft EXCEPT ![t] = @ \ {i}]
    /\ live' = live \ {i}
    /\ UNCHANGED <<pending, lock, cancel, activated, queueVars, pc, request, scheduling,
                   mapsLeft, served>>

(* MapInstanced::Update, DestroyInstance returns false because players     *)
(* remain in the instance: it stays, and is not updated in this tick.      *)
SkipInstance(t, i) ==
    /\ pc[t] = "visit"
    /\ i \in instLeft[t]
    /\ instLeft' = [instLeft EXCEPT ![t] = @ \ {i}]
    /\ served' = served \cup {i}
    /\ UNCHANGED <<pending, lock, cancel, activated, queueVars, pc, request, scheduling,
                   mapsLeft, live>>

(* Mutant: the iterator is not incremented after the instance. *)
ScheduleInstanceAgain(t, i) ==
    /\ pc[t] = "visit"
    /\ activated
    /\ i \in instLeft[t]
    /\ LockAndCount(t, i)
    /\ pc' = [pc EXCEPT ![t] = "Push"]
    /\ UNCHANGED <<cancel, activated, queueVars, request, instLeft, mapVars>>

(* MapInstanced::Update, the instance is scheduled. *)
ScheduleInstance(t, i) ==
    /\ pc[t] = "visit"
    /\ activated
    /\ i \in instLeft[t]
    /\ instLeft' = [instLeft EXCEPT ![t] = @ \ {i}]
    /\ LockAndCount(t, i)
    /\ pc' = [pc EXCEPT ![t] = "Push"]
    /\ UNCHANGED <<cancel, activated, queueVars, request, mapVars>>

(* Mutant: no notify_all. *)
UpdateFinishedSilently(w) ==
    /\ pc[w] = "visit"
    /\ activated
    /\ instLeft[w] = {}
    /\ lock = NoThread
    /\ pending' = pending - 1
    /\ request' = [request EXCEPT ![w] = NoMap]
    /\ pc' = [pc EXCEPT ![w] = "WaitAndPop"]
    /\ UNCHANGED <<lock, cancel, activated, queueVars, scheduling, instLeft, mapVars>>

(* MapUpdater::update_finished; notify_all wakes Main. *)
UpdateFinished(w) ==
    /\ pc[w] = "visit"
    /\ activated
    /\ instLeft[w] = {}
    /\ lock = NoThread
    /\ pending' = pending - 1
    /\ request' = [request EXCEPT ![w] = NoMap]
    /\ pc' = [pc EXCEPT ![w] = "WaitAndPop",
                        ![Main] = IF @ = "asleep" THEN "wait" ELSE @]
    /\ UNCHANGED <<lock, cancel, activated, queueVars, scheduling, instLeft, mapVars>>

-----------------------------------------------------------------------------
(* The world thread. *)

(* MapManager::CreateMap: the opcode handlers that change maps run in the  *)
(* world thread.  The base map is created first when it is missing.        *)
CreateMap(m) ==
    /\ pc[Main] = "world"
    /\ m \notin live
    /\ live' = live \cup (IF m \in Instances THEN {m, Parent[m]} ELSE {m})
    /\ UNCHANGED <<pending, lock, cancel, activated, queueVars, pc, request, scheduling,
                   instLeft, mapsLeft, served>>

(* MapManager::Update once i_timer has passed. *)
StartTick ==
    /\ pc[Main] = "world"
    /\ pc' = [pc EXCEPT ![Main] = "loop"]
    /\ mapsLeft' = BaseMaps \cap live
    /\ served' = {}
    /\ UNCHANGED <<pending, lock, cancel, activated, queueVars, request, scheduling,
                   instLeft, live>>

ScheduleMap(m) ==
    /\ pc[Main] = "loop"
    /\ activated
    /\ m \in mapsLeft
    /\ mapsLeft' = mapsLeft \ {m}
    /\ LockAndCount(Main, m)
    /\ pc' = [pc EXCEPT ![Main] = "Push"]
    /\ UNCHANGED <<cancel, activated, queueVars, request, instLeft, live, served>>

(* Without worker threads Main runs Map::Update itself. *)
UpdateInline(m) ==
    /\ pc[Main] = "loop"
    /\ ~activated
    /\ m \in mapsLeft
    /\ mapsLeft' = mapsLeft \ {m}
    /\ request' = [request EXCEPT ![Main] = m]
    /\ pc' = [pc EXCEPT ![Main] = "update"]
    /\ UNCHANGED <<pending, lock, cancel, activated, queueVars, scheduling, instLeft,
                   live, served>>

UpdateInstanceInline(i) ==
    /\ pc[Main] = "visit"
    /\ ~activated
    /\ i \in instLeft[Main]
    /\ instLeft' = [instLeft EXCEPT ![Main] = @ \ {i}]
    /\ served' = served \cup {i}
    /\ UNCHANGED <<pending, lock, cancel, activated, queueVars, pc, request, scheduling,
                   mapsLeft, live>>

InlineFinished ==
    /\ pc[Main] = "visit"
    /\ instLeft[Main] = {}
    /\ request' = [request EXCEPT ![Main] = NoMap]
    /\ pc' = [pc EXCEPT ![Main] = "loop"]
    /\ UNCHANGED <<pending, lock, cancel, activated, queueVars, scheduling, instLeft,
                   mapVars>>

(* Mutant: no call of wait(). *)
LoopDoneNoWait ==
    /\ pc[Main] = "loop"
    /\ mapsLeft = {}
    /\ pc' = [pc EXCEPT ![Main] = "delayed"]
    /\ mapsLeft' = BaseMaps \cap live
    /\ UNCHANGED <<pending, lock, cancel, activated, queueVars, request, scheduling,
                   instLeft, live, served>>

LoopDone ==
    /\ pc[Main] = "loop"
    /\ mapsLeft = {}
    /\ pc' = [pc EXCEPT ![Main] = IF activated THEN "wait" ELSE "delayed"]
    /\ mapsLeft' = IF activated THEN {} ELSE BaseMaps \cap live
    /\ UNCHANGED <<pending, lock, cancel, activated, queueVars, request, scheduling,
                   instLeft, live, served>>

(* Mutant: wait() returns when the queue is empty. *)
WaitForEmptyQueue ==
    /\ pc[Main] = "wait"
    /\ lock = NoThread
    /\ pc' = [pc EXCEPT ![Main] = IF queue # <<>> THEN "asleep"
                                  ELSE IF cancel THEN "Cancel" ELSE "delayed"]
    /\ mapsLeft' = IF queue # <<>> \/ cancel THEN mapsLeft ELSE BaseMaps \cap live
    /\ UNCHANGED <<pending, lock, cancel, activated, queueVars, request, scheduling,
                   instLeft, live, served>>

(* MapUpdater::wait, called by MapManager::Update and by deactivate, which *)
(* has set the token before.                                               *)
Wait ==
    /\ pc[Main] = "wait"
    /\ lock = NoThread
    /\ pc' = [pc EXCEPT ![Main] = IF pending > 0 THEN "asleep"
                                  ELSE IF cancel THEN "Cancel" ELSE "delayed"]
    /\ mapsLeft' = IF pending > 0 \/ cancel THEN mapsLeft ELSE BaseMaps \cap live
    /\ UNCHANGED <<pending, lock, cancel, activated, queueVars, request, scheduling,
                   instLeft, live, served>>

(* Map::DelayedUpdate of one base map and of its instances. *)
DelayedUpdate(m) ==
    /\ pc[Main] = "delayed"
    /\ m \in mapsLeft
    /\ mapsLeft' = mapsLeft \ {m}
    /\ UNCHANGED <<pending, lock, cancel, activated, queueVars, pc, request, scheduling,
                   instLeft, live, served>>

EndTick ==
    /\ pc[Main] = "delayed"
    /\ mapsLeft = {}
    /\ pc' = [pc EXCEPT ![Main] = "world"]
    /\ UNCHANGED <<pending, lock, cancel, activated, queueVars, request, scheduling,
                   instLeft, mapVars>>

(* MapManager::UnloadAll after WorldUpdateLoop has ended: the maps are     *)
(* deleted before the updater is deactivated.                              *)
UnloadAll ==
    /\ pc[Main] = "world"
    /\ live' = {}
    /\ pc' = [pc EXCEPT ![Main] = IF activated THEN "deactivate" ELSE "exit"]
    /\ UNCHANGED <<pending, lock, cancel, activated, queueVars, request, scheduling,
                   instLeft, mapsLeft, served>>

(* MapUpdater::deactivate: the token, wait(), Cancel(), the joins. *)
SetToken ==
    /\ pc[Main] = "deactivate"
    /\ cancel' = TRUE
    /\ pc' = [pc EXCEPT ![Main] = "wait"]
    /\ UNCHANGED <<pending, lock, activated, queueVars, request, scheduling, instLeft,
                   mapVars>>

(* Mutant: no notify_all. *)
CancelSilently ==
    /\ pc[Main] = "Cancel"
    /\ queue' = <<>>
    /\ shutdown' = TRUE
    /\ pc' = [pc EXCEPT ![Main] = "join"]
    /\ UNCHANGED <<pending, lock, cancel, activated, request, scheduling, instLeft,
                   mapVars>>

(* ProducerConsumerQueue::Cancel; notify_all wakes every worker. *)
Cancel ==
    /\ pc[Main] = "Cancel"
    /\ queue' = <<>>
    /\ shutdown' = TRUE
    /\ pc' = [[t \in Threads |-> IF t \in Asleep THEN "WaitAndPop" ELSE pc[t]]
                EXCEPT ![Main] = "join"]
    /\ UNCHANGED <<pending, lock, cancel, activated, request, scheduling, instLeft,
                   mapVars>>

Join ==
    /\ pc[Main] = "join"
    /\ \A w \in Workers : pc[w] = "exit"
    /\ pc' = [pc EXCEPT ![Main] = "exit"]
    /\ UNCHANGED <<pending, lock, cancel, activated, queueVars, request, scheduling,
                   instLeft, mapVars>>

(* The process is over. *)
Terminated ==
    /\ pc[Main] = "exit"
    /\ UNCHANGED vars

-----------------------------------------------------------------------------
UpdateStep(t) ==
    \/ Push(t)
    \/ FinishUpdate(t)
    \/ \E i \in Instances : DestroyInstance(t, i) \/ SkipInstance(t, i) \/ ScheduleInstance(t, i)

WorkerStep(w) == UpdateStep(w) \/ WaitAndPop(w) \/ CheckToken(w) \/ UpdateFinished(w)

MainStep ==
    \/ UpdateStep(Main)
    \/ StartTick \/ LoopDone \/ Wait \/ EndTick
    \/ \E m \in BaseMaps : ScheduleMap(m) \/ UpdateInline(m) \/ DelayedUpdate(m)
    \/ \E i \in Instances : UpdateInstanceInline(i)
    \/ InlineFinished
    \/ SetToken \/ Cancel \/ Join

(* What the code does not have to do: a client enters a map, the world is  *)
(* told to stop, a condition variable wakes up by itself.                  *)
Environment ==
    \/ \E m \in Maps : CreateMap(m)
    \/ UnloadAll
    \/ \E t \in Threads : SpuriousWakeUp(t)

Next == MainStep \/ (\E w \in Workers : WorkerStep(w)) \/ Environment \/ Terminated

Spec == Init /\ [][Next]_vars

(* Every thread that can run is eventually scheduled by the OS. *)
FairSpec ==
    /\ Spec
    /\ WF_vars(MainStep)
    /\ \A w \in Workers : WF_vars(WorkerStep(w))
-----------------------------------------------------------------------------
Carrying == {w \in Workers : request[w] # NoMap}

Places == {"WaitAndPop", "asleep", "popped", "update", "visit", "Push", "exit", "fault",
           "world", "loop", "wait", "delayed", "deactivate", "Cancel", "join"}

(* Type invariant. *)
TypeOK ==
    /\ pending \in Int
    /\ lock \in Threads \cup {NoThread}
    /\ cancel \in BOOLEAN
    /\ activated \in BOOLEAN
    /\ queue \in Seq(Maps)
    /\ shutdown \in BOOLEAN
    /\ pc \in [Threads -> Places]
    /\ request \in [Threads -> Maps \cup {NoMap}]
    /\ scheduling \in [Threads -> Maps \cup {NoMap}]
    /\ mapsLeft \subseteq BaseMaps
    /\ instLeft \in [Threads -> SUBSET Instances]
    /\ live \subseteq Maps
    /\ served \subseteq Maps

(* pending_requests counts what wait() must wait for: the queued requests, *)
(* those a worker carries, and the one being scheduled under _lock.        *)
PendingCounts ==
    pending = Len(queue) + Cardinality(Carrying) + (IF lock = NoThread THEN 0 ELSE 1)

(* Once wait() has returned, and until the next tick starts, no map update *)
(* runs or can start: DelayedUpdate, the opcode handlers and UnloadAll     *)
(* touch the maps without a lock.                                          *)
BarrierHolds ==
    pc[Main] \in {"delayed", "world", "deactivate", "Cancel", "join", "exit"}
        => queue = <<>> /\ Carrying = {}

(* No lost wake up in ProducerConsumerQueue: while a worker sleeps, each   *)
(* queued request has an awake worker that is on its way to pop it.        *)
NoRequestSleeps ==
    Asleep # {} => Len(queue) <= Cardinality({w \in Workers : pc[w] = "WaitAndPop"})

(* A map is queued or updated at most once at a time: Map::Update relies   *)
(* on being the only thread in its map.                                    *)
OneUpdatePerMap ==
    /\ \A v, w \in Carrying : request[v] = request[w] => v = w
    /\ \A i, j \in DOMAIN queue : queue[i] = queue[j] => i = j
    /\ \A w \in Carrying, i \in DOMAIN queue : request[w] # queue[i]

(* WorkerThread calls request->call() without testing it: a WaitAndPop     *)
(* that returns empty handed must find the cancelation token set.          *)
NoNullCall == \A t \in Threads : pc[t] # "fault"

(* The threaded tick implements the sequential promise of MapTick.         *)
phase ==
    CASE cancel \/ pc[Main] \in {"deactivate", "exit"} -> "stopped"
      [] ~cancel /\ pc[Main] \in {"world", "delayed"} -> pc[Main]
      [] OTHER -> "updating"

Tick == INSTANCE MapTick

TickSpec == Tick!Spec

(* A tick that starts ends: MapUpdater::wait never blocks the world loop   *)
(* for ever.                                                               *)
TickEnds == pc[Main] = "loop" ~> pc[Main] = "world"

(* deactivate() joins every worker: none sleeps through Cancel().          *)
ShutdownEnds == pc[Main] = "deactivate" ~> pc[Main] = "exit"
=============================================================================
