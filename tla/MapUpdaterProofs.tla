-------------------------- MODULE MapUpdaterProofs --------------------------
(***************************************************************************)
(* Theorems about MapUpdater, for any number of worker threads, any set of *)
(* maps and any distribution of instances over base maps: the queue of the *)
(* updater first, then that MapUpdater implements MapTick.                 *)
(***************************************************************************)
EXTENDS MapUpdater, FiniteSetTheorems, TLAPS

(* Which local state goes with which pc.                                   *)
Control ==
    /\ pc[Main] \notin {"WaitAndPop", "popped", "fault"}
    /\ \A w \in Workers : pc[w] \in {"WaitAndPop", "asleep", "popped", "update", "visit",
                                     "Push", "exit"}
    /\ \A t \in Threads : pc[t] = "Push" <=> lock = t
    /\ \A t \in Threads : pc[t] = "Push" <=> scheduling[t] # NoMap
    /\ \A t \in Threads : pc[t] \in {"update", "visit"} => request[t] # NoMap
    /\ \A w \in Workers : pc[w] = "Push" => request[w] # NoMap
    /\ \A w \in Workers : pc[w] \in {"WaitAndPop", "asleep"} => request[w] = NoMap
    /\ \A w \in Workers : pc[w] = "popped" /\ request[w] = NoMap => cancel
    /\ shutdown => cancel
    /\ cancel => pc[Main] \in {"wait", "asleep", "Cancel", "join", "exit"}
    /\ pc[Main] \in {"Cancel", "join"} => cancel
    /\ ~activated => queue = <<>> /\ lock = NoThread
    /\ ~activated => \A w \in Workers : pc[w] = "exit" /\ request[w] = NoMap

(* The world thread is on the safe side of the barrier. *)
Quiet == cancel \/ pc[Main] \in {"delayed", "world", "deactivate", "Cancel", "join", "exit"}

QuietMeansIdle == Quiet => queue = <<>> /\ Carrying = {} /\ lock = NoThread

(* The inductive invariant. *)
IInv == TypeOK /\ Control /\ PendingCounts /\ QuietMeansIdle

USE DEF Threads, Maps, Places

(* Finitely many workers carry a request, so they can be counted.         *)
LEMMA CarryingFinite == IsFiniteSet(Carrying) /\ Cardinality(Carrying) \in Nat
BY ThreadsAssumption, FS_Subset, FS_CardinalityType DEF Carrying

(* MapManager::Initialize establishes the inductive invariant.             *)
LEMMA InitIInv == Init => IInv
<1> SUFFICES ASSUME Init PROVE IInv
  OBVIOUS
<1>1. TypeOK
  <2>1. queue \in Seq(Maps) /\ mapsLeft \subseteq BaseMaps
        /\ live \subseteq Maps /\ served \subseteq Maps
    BY DEF Init
  <2>2. pending \in Int /\ lock \in Threads \cup {NoThread}
    BY DEF Init
  <2>5. cancel \in BOOLEAN /\ activated \in BOOLEAN /\ shutdown \in BOOLEAN
    BY Zenon DEF Init
  <2>3. request \in [Threads -> Maps \cup {NoMap}]
        /\ scheduling \in [Threads -> Maps \cup {NoMap}]
        /\ instLeft \in [Threads -> SUBSET Instances]
    BY DEF Init
  <2>4. pc \in [Threads -> Places]
    BY DEF Init
  <2> QED
    BY <2>1, <2>2, <2>3, <2>4, <2>5 DEF TypeOK
<1>2. Control
  BY ThreadsAssumption, MapsAssumption DEF Init, Control
<1>3. Carrying = {}
  BY DEF Init, Carrying
<1>4. PendingCounts
  BY <1>3, FS_EmptySet DEF Init, PendingCounts
<1>5. QuietMeansIdle
  BY <1>3 DEF Init, QuietMeansIdle
<1> QED
  BY <1>1, <1>2, <1>4, <1>5 DEF IInv

-----------------------------------------------------------------------------
(* Every step keeps the types: what is popped, scheduled and stored is a   *)
(* map, which takes Control to exclude the null request.                   *)
LEMMA TypeStep == ASSUME TypeOK, Control, [Next]_vars PROVE TypeOK'
<1> USE ThreadsAssumption, MapsAssumption DEF TypeOK, queueVars, mapVars
<1>1. ASSUME NEW t \in Threads, Push(t) PROVE TypeOK'
  <2>1. scheduling[t] \in Maps => queue' \in Seq(Maps)
    BY <1>1 DEF Push
  <2>2. scheduling[t] # NoMap
    BY <1>1 DEF Push, Control
  <2>3. queue' \in Seq(Maps)
    BY <2>1, <2>2
  <2>4. pc' \in [Threads -> Places]
    BY <1>1 DEF Push, Asleep
  <2>5. scheduling' \in [Threads -> Maps \cup {NoMap}] /\ lock' = NoThread
        /\ UNCHANGED <<pending, cancel, activated, shutdown, request, instLeft, mapsLeft, live, served>>
    BY <1>1 DEF Push
  <2> QED
    BY <2>3, <2>4, <2>5
<1>2. ASSUME NEW w \in Workers, WaitAndPop(w) PROVE TypeOK'
  <2>1. queue' \in Seq(Maps) /\ request' \in [Threads -> Maps \cup {NoMap}]
    <3>1. CASE UNCHANGED <<queue, request>>
      BY <3>1
    <3>2. CASE queue # <<>> /\ request' = [request EXCEPT ![w] = Head(queue)]
               /\ queue' = Tail(queue)
      <4>1. Head(queue) \in Maps /\ Tail(queue) \in Seq(Maps)
        BY <3>2
      <4> QED
        BY <3>2, <4>1
    <3> QED
      BY <1>2, <3>1, <3>2 DEF WaitAndPop
  <2>2. pc' \in [Threads -> Places]
    BY <1>2 DEF WaitAndPop
  <2> QED
    BY <1>2, <2>1, <2>2 DEF WaitAndPop
<1>3. ASSUME NEW t \in Threads, SpuriousWakeUp(t) PROVE TypeOK'
  BY <1>3 DEF SpuriousWakeUp
<1>4. ASSUME NEW w \in Workers, CheckToken(w) PROVE TypeOK'
  BY <1>4 DEF CheckToken
<1>5. ASSUME NEW t \in Threads, FinishUpdate(t) PROVE TypeOK'
  <2>1. request[t] # NoMap
    BY <1>5 DEF FinishUpdate, Control
  <2>2. served' \subseteq Maps
    BY <1>5, <2>1 DEF FinishUpdate
  <2>3. instLeft' \in [Threads -> SUBSET Instances]
    BY <1>5 DEF FinishUpdate, InstancedMaps
  <2> QED
    BY <1>5, <2>2, <2>3 DEF FinishUpdate
<1>6. ASSUME NEW t \in Threads, NEW i \in Instances,
             DestroyInstance(t, i) \/ SkipInstance(t, i) \/ ScheduleInstance(t, i)
      PROVE TypeOK'
  BY <1>6 DEF DestroyInstance, SkipInstance, ScheduleInstance, LockAndCount
<1>7. ASSUME NEW w \in Workers, UpdateFinished(w) PROVE TypeOK'
  BY <1>7 DEF UpdateFinished
<1>8. ASSUME NEW m \in Maps, CreateMap(m) PROVE TypeOK'
  BY <1>8 DEF CreateMap
<1>9. ASSUME NEW m \in BaseMaps, ScheduleMap(m) \/ UpdateInline(m) \/ DelayedUpdate(m)
      PROVE TypeOK'
  BY <1>9 DEF ScheduleMap, LockAndCount, UpdateInline, DelayedUpdate
<1>10. ASSUME NEW i \in Instances, UpdateInstanceInline(i) PROVE TypeOK'
  BY <1>10 DEF UpdateInstanceInline
<1>11. CASE StartTick \/ LoopDone \/ Wait \/ EndTick \/ InlineFinished
  BY <1>11 DEF StartTick, LoopDone, Wait, EndTick, InlineFinished
<1>12. CASE UnloadAll \/ SetToken \/ Join
  BY <1>12 DEF UnloadAll, SetToken, Join
<1>13. CASE Cancel
  <2>1. queue' \in Seq(Maps)
    BY <1>13 DEF Cancel
  <2> QED
    BY <1>13, <2>1 DEF Cancel
<1>14. CASE Terminated \/ UNCHANGED vars
  BY <1>14 DEF Terminated, vars
<1> QED
  BY <1>1, <1>2, <1>3, <1>4, <1>5, <1>6, <1>7, <1>8, <1>9, <1>10, <1>11, <1>12, <1>13,
     <1>14
  DEF Next, MainStep, WorkerStep, UpdateStep, Environment

(* Every step keeps each thread's local state in agreement with its place. *)
LEMMA ControlStep ==
    ASSUME TypeOK, Control, QuietMeansIdle, [Next]_vars PROVE Control'
<1> USE ThreadsAssumption, MapsAssumption DEF queueVars, mapVars
<1>1. ASSUME NEW t \in Threads, Push(t) PROVE Control'
  <2>1. pc'[t] \in {"loop", "visit"} /\ (pc'[t] = "loop" <=> t = Main)
    BY <1>1 DEF Push, Asleep, TypeOK
  <2>2. \A u \in Threads \ {t} :
            pc'[u] # pc[u] => u # Main /\ pc[u] = "asleep" /\ pc'[u] = "WaitAndPop"
    <3>1. CASE Asleep = {} /\ pc' = [pc EXCEPT ![t] = IF t = Main THEN "loop" ELSE "visit"]
      BY <3>1 DEF TypeOK
    <3>2. ASSUME NEW w \in Asleep,
                 pc' = [pc EXCEPT ![t] = IF t = Main THEN "loop" ELSE "visit",
                                  ![w] = "WaitAndPop"]
          PROVE  \A u \in Threads \ {t} :
                    pc'[u] # pc[u] => u # Main /\ pc[u] = "asleep" /\ pc'[u] = "WaitAndPop"
      BY <3>2 DEF Asleep, TypeOK
    <3> QED
      BY <1>1, <3>1, <3>2 DEF Push
  <2>3. lock = t /\ lock' = NoThread
    BY <1>1 DEF Push, Control
  <2>4. scheduling' = [scheduling EXCEPT ![t] = NoMap] /\ UNCHANGED <<cancel, activated, shutdown, request>>
    BY <1>1 DEF Push
  <2>5. ~Quiet
    BY <2>3 DEF QuietMeansIdle
  <2>6. ~cancel
    BY <2>5 DEF Quiet
  <2>7. activated
    BY <2>3 DEF Control
  <2> QED
    BY <2>1, <2>2, <2>3, <2>4, <2>6, <2>7 DEF Control, TypeOK
<1>2. ASSUME NEW w \in Workers, WaitAndPop(w) PROVE Control'
  BY <1>2 DEF TypeOK, Control, WaitAndPop
<1>3. ASSUME NEW t \in Threads, SpuriousWakeUp(t) PROVE Control'
  BY <1>3 DEF TypeOK, Control, SpuriousWakeUp
<1>4. ASSUME NEW w \in Workers, CheckToken(w) PROVE Control'
  BY <1>4 DEF TypeOK, Control, CheckToken
<1>5. ASSUME NEW t \in Threads, FinishUpdate(t) PROVE Control'
  BY <1>5 DEF TypeOK, Control, FinishUpdate
<1>6. ASSUME NEW t \in Threads, NEW i \in Instances,
             DestroyInstance(t, i) \/ SkipInstance(t, i)
      PROVE Control'
  BY <1>6 DEF TypeOK, Control, DestroyInstance, SkipInstance
<1>7. ASSUME NEW t \in Threads, NEW i \in Instances, ScheduleInstance(t, i) PROVE Control'
  BY <1>7 DEF TypeOK, Control, ScheduleInstance, LockAndCount
<1>8. ASSUME NEW w \in Workers, UpdateFinished(w) PROVE Control'
  BY <1>8 DEF TypeOK, Control, UpdateFinished
<1>9. ASSUME NEW m \in Maps, CreateMap(m) PROVE Control'
  BY <1>9 DEF TypeOK, Control, CreateMap
<1>10. ASSUME NEW m \in BaseMaps, ScheduleMap(m) PROVE Control'
  BY <1>10 DEF TypeOK, Control, ScheduleMap, LockAndCount
<1>11. ASSUME NEW m \in BaseMaps, UpdateInline(m) \/ DelayedUpdate(m) PROVE Control'
  BY <1>11 DEF TypeOK, Control, UpdateInline, DelayedUpdate
<1>12. ASSUME NEW i \in Instances, UpdateInstanceInline(i) PROVE Control'
  BY <1>12 DEF TypeOK, Control, UpdateInstanceInline
<1>13. CASE StartTick \/ LoopDone \/ Wait \/ EndTick \/ InlineFinished
  BY <1>13 DEF TypeOK, Control, StartTick, LoopDone, Wait, EndTick, InlineFinished
<1>14. CASE UnloadAll \/ SetToken \/ Join
  BY <1>14 DEF TypeOK, Control, UnloadAll, SetToken, Join
<1>15. CASE Cancel
  <2>1. \A w \in Workers : pc'[w] # pc[w] => pc[w] = "asleep" /\ pc'[w] = "WaitAndPop"
    BY <1>15 DEF Cancel, Asleep, TypeOK
  <2>2. pc'[Main] = "join" /\ pc[Main] = "Cancel"
    BY <1>15 DEF Cancel, TypeOK
  <2>3. cancel
    BY <2>2 DEF Control
  <2>4. lock = NoThread
    BY <2>2 DEF QuietMeansIdle, Quiet
  <2>5. queue' = <<>> /\ UNCHANGED <<lock, cancel, activated, request, scheduling>>
    BY <1>15 DEF Cancel
  <2> QED
    BY <2>1, <2>2, <2>3, <2>4, <2>5 DEF Control
<1>16. CASE Terminated \/ UNCHANGED vars
  BY <1>16 DEF TypeOK, Control, Terminated, vars
<1> QED
  BY <1>1, <1>2, <1>3, <1>4, <1>5, <1>6, <1>7, <1>8, <1>9, <1>10, <1>11, <1>12, <1>13,
     <1>14, <1>15, <1>16
  DEF Next, MainStep, WorkerStep, UpdateStep, Environment

-----------------------------------------------------------------------------
(* Every step keeps pending_requests exact.                                *)
LEMMA PendingStep ==
    ASSUME TypeOK, Control, PendingCounts, QuietMeansIdle, [Next]_vars PROVE PendingCounts'
<1> USE ThreadsAssumption, MapsAssumption DEF queueVars, mapVars
<1>0. Len(queue) \in Nat /\ pending \in Int
  BY DEF TypeOK
<1>1. ASSUME Carrying' = Carrying, queue' = queue, pending' = pending, lock' = lock
      PROVE  PendingCounts'
  BY <1>1 DEF PendingCounts
<1>2. ASSUME NEW t \in Threads, Push(t) PROVE PendingCounts'
  <2>1. Carrying' = Carrying
    BY <1>2 DEF Push, Carrying
  <2>2. lock = t /\ lock' = NoThread
    BY <1>2 DEF Push, Control
  <2>3. Len(queue') = Len(queue) + 1
    BY <1>2 DEF Push, TypeOK
  <2>4. pending' = pending
    BY <1>2 DEF Push
  <2> QED
    BY <2>1, <2>2, <2>3, <2>4, <1>0, CarryingFinite DEF PendingCounts
<1>3. ASSUME NEW w \in Workers, WaitAndPop(w) PROVE PendingCounts'
  <2>1. CASE UNCHANGED <<queue, request>>
    BY <2>1, <1>3, <1>1 DEF WaitAndPop, Carrying
  <2>2. CASE /\ queue # <<>>
             /\ request' = [request EXCEPT ![w] = Head(queue)]
             /\ queue' = Tail(queue)
    <3>1. w \notin Carrying
      BY <1>3 DEF WaitAndPop, Carrying, Control
    <3>2. Head(queue) \in Maps
      BY <2>2 DEF TypeOK
    <3>3. Carrying' = Carrying \cup {w}
      BY <2>2, <3>2 DEF Carrying, TypeOK
    <3>4. Cardinality(Carrying') = Cardinality(Carrying) + 1
      BY <3>1, <3>3, CarryingFinite, FS_AddElement
    <3>5. Len(queue') = Len(queue) - 1
      BY <2>2 DEF TypeOK
    <3> QED
      BY <3>4, <3>5, <1>3, <1>0, CarryingFinite DEF WaitAndPop, PendingCounts
  <2> QED
    BY <1>3, <2>1, <2>2 DEF WaitAndPop
<1>4. ASSUME NEW t \in Threads, NEW m, LockAndCount(t, m), UNCHANGED <<queue, request>>
      PROVE  PendingCounts'
  <2>1. Carrying' = Carrying
    BY <1>4 DEF Carrying
  <2> QED
    BY <1>4, <2>1, <1>0, CarryingFinite DEF LockAndCount, PendingCounts
<1>5. ASSUME NEW w \in Workers, UpdateFinished(w) PROVE PendingCounts'
  <2>1. w \in Carrying
    BY <1>5 DEF UpdateFinished, Carrying, Control
  <2>2. Carrying' = Carrying \ {w}
    BY <1>5 DEF UpdateFinished, Carrying, TypeOK
  <2>3. Cardinality(Carrying') = Cardinality(Carrying) - 1
    BY <2>1, <2>2, CarryingFinite, FS_RemoveElement
  <2> QED
    BY <1>5, <2>3, <1>0, CarryingFinite DEF UpdateFinished, PendingCounts
<1>6. ASSUME NEW m \in BaseMaps, UpdateInline(m) PROVE PendingCounts'
  BY <1>6, <1>1 DEF UpdateInline, Carrying, TypeOK
<1>7. CASE InlineFinished
  BY <1>7, <1>1 DEF InlineFinished, Carrying, TypeOK
<1>8. CASE Cancel
  <2>1. queue = <<>> /\ queue' = <<>>
    BY <1>8 DEF Cancel, QuietMeansIdle, Quiet
  <2>2. Carrying' = Carrying /\ pending' = pending /\ lock' = lock
    BY <1>8 DEF Cancel, Carrying
  <2> QED
    BY <2>1, <2>2, <1>1
<1>9. ASSUME NEW t \in Threads, NEW i \in Instances,
             DestroyInstance(t, i) \/ SkipInstance(t, i)
      PROVE  PendingCounts'
  BY <1>9, <1>1 DEF DestroyInstance, SkipInstance, Carrying
<1>10. ASSUME NEW t \in Threads, NEW i \in Instances, ScheduleInstance(t, i)
       PROVE  PendingCounts'
  BY <1>10, <1>4 DEF ScheduleInstance
<1>11. ASSUME NEW m \in BaseMaps, ScheduleMap(m) PROVE PendingCounts'
  BY <1>11, <1>4 DEF ScheduleMap
<1>12. ASSUME NEW t \in Threads, SpuriousWakeUp(t) \/ FinishUpdate(t) PROVE PendingCounts'
  BY <1>12, <1>1 DEF SpuriousWakeUp, FinishUpdate, Carrying
<1>13. ASSUME NEW w \in Workers, CheckToken(w) PROVE PendingCounts'
  BY <1>13, <1>1 DEF CheckToken, Carrying
<1>14. ASSUME NEW m \in Maps, CreateMap(m) PROVE PendingCounts'
  BY <1>14, <1>1 DEF CreateMap, Carrying
<1>15. ASSUME NEW m \in BaseMaps, DelayedUpdate(m) PROVE PendingCounts'
  BY <1>15, <1>1 DEF DelayedUpdate, Carrying
<1>16. ASSUME NEW i \in Instances, UpdateInstanceInline(i) PROVE PendingCounts'
  BY <1>16, <1>1 DEF UpdateInstanceInline, Carrying
<1>17. CASE StartTick \/ LoopDone \/ Wait \/ EndTick
  BY <1>17, <1>1 DEF StartTick, LoopDone, Wait, EndTick, Carrying
<1>18. CASE UnloadAll \/ SetToken \/ Join \/ Terminated \/ UNCHANGED vars
  BY <1>18, <1>1 DEF UnloadAll, SetToken, Join, Terminated, vars, Carrying
<1> QED
  BY <1>2, <1>3, <1>5, <1>6, <1>7, <1>8, <1>9, <1>10, <1>11, <1>12, <1>13, <1>14, <1>15,
     <1>16, <1>17, <1>18
  DEF Next, MainStep, WorkerStep, UpdateStep, Environment

-----------------------------------------------------------------------------
(* The world thread passes the barrier only when nothing is left to do,    *)
(* and beyond it nothing starts.                                           *)
LEMMA QuietStep ==
    ASSUME TypeOK, Control, PendingCounts, QuietMeansIdle, [Next]_vars PROVE QuietMeansIdle'
<1> USE ThreadsAssumption, MapsAssumption DEF queueVars, mapVars
<1>1. ASSUME Quiet' => Quiet,
             UNCHANGED <<queue, lock>>,
             \A w \in Workers : request'[w] = request[w]
      PROVE  QuietMeansIdle'
  BY <1>1 DEF QuietMeansIdle, Carrying
(* In a quiet state the workers cannot touch the maps. *)
<1>2. ASSUME NEW t \in Threads, Push(t) PROVE QuietMeansIdle'
  <2>1. lock = t
    BY <1>2 DEF Push, Control
  <2>2. ~Quiet
    BY <2>1 DEF QuietMeansIdle
  <2>3. ~cancel /\ cancel' = cancel
    BY <1>2, <2>2 DEF Push, Quiet
  <2>4. t # Main => pc'[Main] = pc[Main]
    BY <1>2 DEF Push, Asleep, TypeOK
  <2>5. t = Main => pc'[Main] = "loop"
    BY <1>2 DEF Push, Asleep, TypeOK
  <2>6. ~Quiet'
    BY <2>2, <2>3, <2>4, <2>5 DEF Quiet
  <2> QED
    BY <2>6 DEF QuietMeansIdle
<1>3. ASSUME NEW w \in Workers, WaitAndPop(w) PROVE QuietMeansIdle'
  <2>1. Quiet' => Quiet
    BY <1>3 DEF WaitAndPop, Quiet, TypeOK
  <2>2. Quiet => UNCHANGED <<queue, request>>
    BY <1>3 DEF WaitAndPop, QuietMeansIdle, Quiet, Control
  <2> QED
    BY <1>3, <2>1, <2>2 DEF WaitAndPop, QuietMeansIdle, Carrying
<1>4. ASSUME NEW t \in Threads, NEW i \in Instances,
             DestroyInstance(t, i) \/ SkipInstance(t, i)
      PROVE  QuietMeansIdle'
  BY <1>4, <1>1 DEF DestroyInstance, SkipInstance, Quiet
<1>5. ASSUME NEW t \in Threads, NEW i \in Instances, ScheduleInstance(t, i)
      PROVE  QuietMeansIdle'
  <2>1. t # Main => ~Quiet
    BY <1>5 DEF ScheduleInstance, QuietMeansIdle, Carrying, Control
  <2>2. t = Main => ~Quiet
    BY <1>5 DEF ScheduleInstance, Quiet, Control
  <2>3. ~Quiet'
    BY <1>5, <2>1, <2>2 DEF ScheduleInstance, Quiet, TypeOK
  <2> QED
    BY <2>3 DEF QuietMeansIdle
<1>6. ASSUME NEW w \in Workers, UpdateFinished(w) PROVE QuietMeansIdle'
  <2>1. ~Quiet
    BY <1>6 DEF UpdateFinished, QuietMeansIdle, Carrying, Control
  <2>2. ~Quiet'
    BY <1>6, <2>1 DEF UpdateFinished, Quiet, TypeOK
  <2> QED
    BY <2>2 DEF QuietMeansIdle
<1>7. ASSUME NEW m \in BaseMaps, ScheduleMap(m) \/ UpdateInline(m) PROVE QuietMeansIdle'
  <2>1. ~Quiet'
    BY <1>7 DEF ScheduleMap, UpdateInline, Quiet, Control, TypeOK
  <2> QED
    BY <2>1 DEF QuietMeansIdle
<1>8. ASSUME NEW w \in Workers, CheckToken(w) PROVE QuietMeansIdle'
  BY <1>8, <1>1 DEF CheckToken, Quiet, TypeOK
<1>9. ASSUME NEW t \in Threads, SpuriousWakeUp(t) \/ FinishUpdate(t) PROVE QuietMeansIdle'
  BY <1>9, <1>1 DEF SpuriousWakeUp, FinishUpdate, Quiet, TypeOK
<1>10. ASSUME NEW m \in Maps, CreateMap(m) PROVE QuietMeansIdle'
  BY <1>10, <1>1 DEF CreateMap, Quiet
<1>11. ASSUME NEW m \in BaseMaps, DelayedUpdate(m) PROVE QuietMeansIdle'
  BY <1>11, <1>1 DEF DelayedUpdate, Quiet
<1>12. ASSUME NEW i \in Instances, UpdateInstanceInline(i) PROVE QuietMeansIdle'
  BY <1>12, <1>1 DEF UpdateInstanceInline, Quiet
<1>13. CASE InlineFinished
  <2>1. ~Quiet'
    BY <1>13 DEF InlineFinished, Quiet, Control, TypeOK
  <2> QED
    BY <2>1 DEF QuietMeansIdle
<1>14. CASE StartTick \/ EndTick \/ UnloadAll \/ SetToken \/ Join
  BY <1>14, <1>1 DEF StartTick, EndTick, UnloadAll, SetToken, Join, Quiet, TypeOK
(* The two ways past the barrier: no worker threads, or nothing pending. *)
<1>15. CASE LoopDone
  <2>1. CASE activated
    <3>1. ~Quiet'
      BY <1>15, <2>1 DEF LoopDone, Quiet, Control, TypeOK
    <3> QED
      BY <3>1 DEF QuietMeansIdle
  <2>2. CASE ~activated
    <3>1. \A w \in Workers : request[w] = NoMap
      BY <2>2 DEF Control
    <3>2. queue = <<>> /\ lock = NoThread
      BY <2>2 DEF Control
    <3>3. queue' = <<>> /\ lock' = NoThread
      BY <1>15, <3>2 DEF LoopDone
    <3>4. Carrying' = {}
      BY <3>1, <1>15 DEF Carrying, LoopDone
    <3> QED
      BY <3>3, <3>4 DEF QuietMeansIdle
  <2> QED
    BY <2>1, <2>2
<1>16. CASE Wait
  <2>1. CASE pending > 0
    BY <1>16, <2>1, <1>1 DEF Wait, Quiet, TypeOK
  <2>2. CASE pending <= 0
    <3>1. Len(queue) + Cardinality(Carrying) = 0 /\ Len(queue) \in Nat
      BY <1>16, <2>2, CarryingFinite DEF Wait, PendingCounts, TypeOK
    <3>2. queue = <<>> /\ Cardinality(Carrying) = 0
      BY <3>1, CarryingFinite DEF TypeOK
    <3>3. Carrying = {}
      BY <3>2, CarryingFinite, FS_EmptySet
    <3> QED
      BY <1>16, <3>2, <3>3 DEF Wait, QuietMeansIdle, Carrying
  <2> QED
    BY <2>1, <2>2 DEF TypeOK
<1>17. CASE Cancel
  <2>1. Carrying = {} /\ lock = NoThread
    BY <1>17 DEF Cancel, QuietMeansIdle, Quiet
  <2> QED
    BY <1>17, <2>1 DEF Cancel, QuietMeansIdle, Carrying
<1>18. CASE Terminated \/ UNCHANGED vars
  BY <1>18, <1>1 DEF Terminated, vars, Quiet
<1> QED
  BY <1>2, <1>3, <1>4, <1>5, <1>6, <1>7, <1>8, <1>9, <1>10, <1>11, <1>12, <1>13, <1>14,
     <1>15, <1>16, <1>17, <1>18
  DEF Next, MainStep, WorkerStep, UpdateStep, Environment

-----------------------------------------------------------------------------
(* The inductive invariant holds in every reachable state.                 *)
LEMMA Invariance == Spec => []IInv
<1>1. IInv /\ [Next]_vars => IInv'
  BY TypeStep, ControlStep, PendingStep, QuietStep DEF IInv
<1> QED
  BY InitIInv, <1>1, PTL DEF Spec

(* Type correctness of the parallel tick. *)
THEOREM TypeCorrect == Spec => []TypeOK
BY Invariance, PTL DEF IInv

(* pending_requests, incremented and decremented by different threads,     *)
(* always counts the updates that wait() has to wait for.                  *)
THEOREM PendingCorrect == Spec => []PendingCounts
BY Invariance, PTL DEF IInv

(* The barrier: when MapUpdater::wait returns no map update is running and *)
(* none starts before the next tick, for any number of threads and maps.   *)
THEOREM BarrierCorrect == Spec => []BarrierHolds
<1>1. IInv => BarrierHolds
  BY DEF IInv, QuietMeansIdle, Quiet, BarrierHolds
<1> QED
  BY Invariance, <1>1, PTL

(* No worker calls a null request, whenever Cancel() and the spurious wake *)
(* ups happen.                                                             *)
THEOREM NullFree == Spec => []NoNullCall
<1>1. IInv => NoNullCall
  BY DEF IInv, Control, NoNullCall
<1> QED
  BY Invariance, <1>1, PTL

-----------------------------------------------------------------------------
(* The workers that stand before the queue's lock: each will pop.          *)
Popping == {w \in Workers : pc[w] = "WaitAndPop"}

(* The workers that will pop can be counted.                               *)
LEMMA PoppingFinite == IsFiniteSet(Popping) /\ Cardinality(Popping) \in Nat
BY ThreadsAssumption, FS_Subset, FS_CardinalityType DEF Popping

(* Every step that queues a request while workers sleep wakes one of them, *)
(* and a worker goes to sleep on an empty queue only.                      *)
LEMMA WakeUpStep ==
    ASSUME IInv, NoRequestSleeps, [Next]_vars PROVE NoRequestSleeps'
<1> USE ThreadsAssumption, PoppingFinite DEF IInv, queueVars, mapVars
<1>0. /\ NoRequestSleeps <=> (Asleep # {} => Len(queue) <= Cardinality(Popping))
      /\ NoRequestSleeps' <=> (Asleep' # {} => Len(queue') <= Cardinality(Popping'))
  BY DEF NoRequestSleeps, Popping
<1>1. Len(queue) \in Nat
  BY DEF TypeOK
<1>finite. Cardinality(Popping') \in Nat
  BY FS_Subset, FS_CardinalityType DEF Popping
<1>2. ASSUME \A w \in Workers : pc'[w] = "asleep" <=> pc[w] = "asleep",
             \A w \in Workers : pc'[w] = "WaitAndPop" <=> pc[w] = "WaitAndPop",
             queue' = queue
      PROVE  NoRequestSleeps'
  <2>1. Asleep' = Asleep /\ Popping' = Popping
    BY <1>2 DEF Asleep, Popping
  <2> QED
    BY <2>1, <1>0, <1>2
(* A sleeper that is woken adds to the workers that will pop. *)
<1>3. ASSUME NEW w \in Asleep, Popping' = Popping \cup {w}
      PROVE  Cardinality(Popping') = Cardinality(Popping) + 1
  <2>1. w \notin Popping
    BY DEF Asleep, Popping
  <2> QED
    BY <2>1, <1>3, FS_AddElement
<1>4. ASSUME NEW t \in Threads, Push(t) PROVE NoRequestSleeps'
  <2>1. Len(queue') = Len(queue) + 1
    BY <1>4 DEF Push, TypeOK
  <2>2. CASE Asleep = {} /\ pc' = [pc EXCEPT ![t] = IF t = Main THEN "loop" ELSE "visit"]
    <3>1. Asleep' = {}
      BY <2>2 DEF Asleep, TypeOK
    <3> QED
      BY <3>1, <1>0
  <2>3. ASSUME NEW w \in Asleep,
               pc' = [pc EXCEPT ![t] = IF t = Main THEN "loop" ELSE "visit",
                                ![w] = "WaitAndPop"]
        PROVE  NoRequestSleeps'
    <3>1. pc[t] = "Push"
      BY <1>4 DEF Push
    <3>2. Popping' = Popping \cup {w}
      BY <2>3, <3>1 DEF Popping, Asleep, TypeOK
    <3>3. Cardinality(Popping') = Cardinality(Popping) + 1
      BY <3>2, <2>3, <1>3
    <3>4. Len(queue) <= Cardinality(Popping)
      BY <2>3, <1>0
    <3> QED
      BY <3>3, <3>4, <2>1, <1>0, <1>1
  <2> QED
    BY <1>4, <2>2, <2>3 DEF Push
<1>5. ASSUME NEW w \in Workers, WaitAndPop(w) PROVE NoRequestSleeps'
  <2>1. CASE queue = <<>> /\ ~shutdown
    <3>1. queue' = <<>>
      BY <1>5, <2>1 DEF WaitAndPop
    <3> QED
      BY <3>1, <1>0, <1>finite
  <2>2. CASE shutdown
    <3>1. queue' = <<>>
      BY <1>5, <2>2 DEF WaitAndPop, Control, QuietMeansIdle, Quiet
    <3> QED
      BY <3>1, <1>0, <1>finite
  <2>3. CASE queue # <<>> /\ ~shutdown
    <3>1. Len(queue') = Len(queue) - 1
      BY <1>5, <2>3 DEF WaitAndPop, TypeOK
    <3>2. Asleep' = Asleep
      BY <1>5, <2>3 DEF WaitAndPop, Asleep, TypeOK
    <3>3. w \in Popping /\ Popping' = Popping \ {w}
      BY <1>5, <2>3 DEF WaitAndPop, Popping, TypeOK
    <3>4. Cardinality(Popping') = Cardinality(Popping) - 1
      BY <3>3, FS_RemoveElement
    <3> QED
      BY <3>1, <3>2, <3>4, <1>0, <1>1
  <2> QED
    BY <2>1, <2>2, <2>3
<1>6. ASSUME NEW t \in Threads, SpuriousWakeUp(t) PROVE NoRequestSleeps'
  <2>1. CASE t = Main
    BY <1>2, <1>6, <2>1 DEF SpuriousWakeUp, TypeOK
  <2>2. CASE t \in Workers
    <3>1. t \in Asleep
      BY <1>6, <2>2 DEF SpuriousWakeUp, Asleep
    <3>2. Popping' = Popping \cup {t} /\ Asleep' \subseteq Asleep
      BY <1>6, <2>2 DEF SpuriousWakeUp, Popping, Asleep, TypeOK
    <3>3. queue' = queue
      BY <1>6 DEF SpuriousWakeUp
    <3>4. Cardinality(Popping') = Cardinality(Popping) + 1
      BY <3>1, <3>2, <1>3
    <3>5. Len(queue) <= Cardinality(Popping)
      BY <3>1, <1>0
    <3> QED
      BY <3>3, <3>4, <3>5, <1>0, <1>1
  <2> QED
    BY <2>1, <2>2
<1>7. ASSUME NEW w \in Workers, UpdateFinished(w) PROVE NoRequestSleeps'
  <2>1. w \notin Popping /\ Popping' = Popping \cup {w} /\ Asleep' = Asleep
    BY <1>7 DEF UpdateFinished, Popping, Asleep, TypeOK
  <2>2. queue' = queue
    BY <1>7 DEF UpdateFinished
  <2>3. Cardinality(Popping') = Cardinality(Popping) + 1
    BY <2>1, FS_AddElement
  <2> QED
    BY <2>1, <2>2, <2>3, <1>0, <1>1
<1>8. CASE Cancel
  <2>1. Asleep' = {}
    BY <1>8 DEF Cancel, Asleep
  <2> QED
    BY <2>1, <1>0
<1>9. ASSUME NEW w \in Workers, CheckToken(w) PROVE NoRequestSleeps'
  BY <1>2, <1>9 DEF CheckToken, TypeOK
<1>10. ASSUME NEW t \in Threads, FinishUpdate(t) PROVE NoRequestSleeps'
  BY <1>2, <1>10 DEF FinishUpdate, TypeOK
<1>11. ASSUME NEW t \in Threads, NEW i \in Instances,
              DestroyInstance(t, i) \/ SkipInstance(t, i) \/ ScheduleInstance(t, i)
       PROVE  NoRequestSleeps'
  BY <1>2, <1>11 DEF DestroyInstance, SkipInstance, ScheduleInstance, TypeOK
<1>12. ASSUME NEW m \in BaseMaps, ScheduleMap(m) \/ UpdateInline(m) \/ DelayedUpdate(m)
       PROVE  NoRequestSleeps'
  BY <1>2, <1>12 DEF ScheduleMap, UpdateInline, DelayedUpdate, TypeOK
<1>13. ASSUME NEW m \in Maps, CreateMap(m) PROVE NoRequestSleeps'
  BY <1>2, <1>13 DEF CreateMap
<1>14. ASSUME NEW i \in Instances, UpdateInstanceInline(i) PROVE NoRequestSleeps'
  BY <1>2, <1>14 DEF UpdateInstanceInline
<1>15. CASE StartTick \/ LoopDone \/ Wait \/ EndTick \/ InlineFinished
  BY <1>2, <1>15 DEF StartTick, LoopDone, Wait, EndTick, InlineFinished, TypeOK
<1>16. CASE UnloadAll \/ SetToken \/ Join \/ Terminated \/ UNCHANGED vars
  BY <1>2, <1>16 DEF UnloadAll, SetToken, Join, Terminated, vars, TypeOK
<1> QED
  BY <1>4, <1>5, <1>6, <1>7, <1>8, <1>9, <1>10, <1>11, <1>12, <1>13, <1>14, <1>15, <1>16
  DEF Next, MainStep, WorkerStep, UpdateStep, Environment

(* No wake up is lost between Push and WaitAndPop: while a worker sleeps,  *)
(* each queued request has an awake worker on its way to it, for any       *)
(* number of workers and with spurious wake ups.                           *)
THEOREM WakeUpCorrect == Spec => []NoRequestSleeps
<1>1. Init => NoRequestSleeps
  BY DEF Init, NoRequestSleeps, Asleep
<1>2. IInv /\ NoRequestSleeps /\ [Next]_vars => NoRequestSleeps'
  BY WakeUpStep
<1> QED
  BY Invariance, <1>1, <1>2, PTL DEF Spec

-----------------------------------------------------------------------------
(* One tick of MapManager: no map is updated twice at a time.              *)

(* The turn of m has come in this tick and is not over: m is to be updated *)
(* or destroyed, and the base map that contains it has had its own turn.   *)
Due(m) == m \in live \ served /\ (m \in Instances => Parent[m] \in served)

(* The thread t has a request whose Map::Update has not ended.             *)
Unfinished(t) == pc[t] \in {"popped", "update"} /\ request[t] # NoMap

(* What MapManager::Update has still to schedule.                          *)
Unscheduled == IF pc[Main] \in {"loop", "Push", "update", "visit"} THEN mapsLeft ELSE {}

Updating == ~cancel /\ pc[Main] \in {"loop", "Push", "update", "visit", "wait", "asleep"}

(* The loop over the instances of a base map follows that map's update.    *)
Loops ==
    /\ \A t \in Threads : \A i \in instLeft[t] : pc[t] \in {"visit", "Push"}
                                                 /\ request[t] = Parent[i]
    /\ \A t \in Threads : scheduling[t] \in Instances
                             => request[t] = Parent[scheduling[t]]
    /\ \A t \in Threads : request[t] # NoMap /\ ~Unfinished(t) => request[t] \in served
    /\ request[Main] # NoMap => ~activated /\ pc[Main] \in {"update", "visit"}
    /\ \A w \in Workers : pc[w] = "exit" => request[w] = NoMap

(* A map exists, and has its turn, only with the map that contains it.     *)
Nesting ==
    /\ \A i \in Instances \cap live : Parent[i] \in live
    /\ \A i \in Instances \cap served : Parent[i] \in served

(* A map that is held anywhere is due: it is queued, scheduled, carried or *)
(* left in a loop only while its turn is not over.                         *)
HeldIsDue ==
    /\ \A j \in DOMAIN queue : Due(queue[j])
    /\ \A t \in Threads : scheduling[t] # NoMap => Due(scheduling[t])
    /\ \A t \in Threads : Unfinished(t) => Due(request[t])
    /\ \A t \in Threads : \A i \in instLeft[t] : Due(i)
    /\ \A m \in Unscheduled : Due(m)

(* ... and it is held in one place only.                                   *)
HeldOnce ==
    /\ \A j, k \in DOMAIN queue : queue[j] = queue[k] => j = k
    /\ \A j \in DOMAIN queue, t \in Threads :
          /\ scheduling[t] # queue[j]
          /\ Unfinished(t) => request[t] # queue[j]
          /\ queue[j] \notin instLeft[t]
    /\ \A j \in DOMAIN queue : queue[j] \notin Unscheduled
    /\ \A t, u \in Threads : request[t] # NoMap /\ request[t] = request[u] => t = u
    /\ \A t, u \in Threads : Unfinished(t) => request[t] # scheduling[u]
                                              /\ request[t] \notin instLeft[u]
    /\ \A t, u \in Threads : scheduling[t] \notin instLeft[u]
    /\ \A t \in Threads : /\ Unfinished(t) => request[t] \notin Unscheduled
                          /\ scheduling[t] \notin Unscheduled

(* m is held somewhere.                                                    *)
Held(m) ==
    \/ m \in Unscheduled
    \/ \E t \in Threads : m \in instLeft[t] \/ m = scheduling[t]
                          \/ (Unfinished(t) /\ m = request[t])
    \/ \E j \in DOMAIN queue : m = queue[j]

(* No live map is forgotten.                                               *)
NoneForgotten == Updating => \A m \in live : Due(m) => Held(m)

TickInv == Loops /\ Nesting /\ HeldIsDue /\ HeldOnce /\ NoneForgotten

(* Push moves its own thread on, and wakes at most one worker.             *)
OneMoves(t) ==
    /\ \A u \in Threads : pc[u] = "Push" => u = t
    /\ pc'[t] = IF t = Main THEN "loop" ELSE "visit"
    /\ \A u \in Threads \ {t} :
          pc'[u] # pc[u] => u # Main /\ pc[u] = "asleep" /\ pc'[u] = "WaitAndPop"

(* What a WaitAndPop that does not come back empty handed does: the oldest *)
(* request goes to the worker, the others move up.                         *)
PopsOldest(w) ==
    /\ 1 \in DOMAIN queue
    /\ request' = [request EXCEPT ![w] = queue[1]]
    /\ \A j \in DOMAIN queue' : j + 1 \in DOMAIN queue /\ queue'[j] = queue[j + 1]
    /\ \A j \in DOMAIN queue \ {1} : j - 1 \in DOMAIN queue' /\ queue'[j - 1] = queue[j]
    /\ \A j \in DOMAIN queue : j \in Int
    /\ pc[w] = "WaitAndPop" /\ request[w] = NoMap /\ pc' = [pc EXCEPT ![w] = "popped"]

(* Only the thread that holds MapUpdater::_lock is in Push.                *)
LEMMA PushMoves ==
    ASSUME TypeOK, Control, NEW t \in Threads, Push(t)
    PROVE  OneMoves(t)
<1> USE ThreadsAssumption DEF Threads, Maps, Places
<1>1. \A u \in Threads : pc[u] = "Push" => u = t
  BY DEF Push, Control
<1>2. CASE Asleep = {} /\ pc' = [pc EXCEPT ![t] = IF t = Main THEN "loop" ELSE "visit"]
  BY <1>1, <1>2 DEF TypeOK, OneMoves
<1>3. ASSUME NEW w \in Asleep,
             pc' = [pc EXCEPT ![t] = IF t = Main THEN "loop" ELSE "visit",
                              ![w] = "WaitAndPop"]
      PROVE  /\ pc'[t] = IF t = Main THEN "loop" ELSE "visit"
             /\ \A u \in Threads \ {t} :
                   pc'[u] # pc[u] => u # Main /\ pc[u] = "asleep" /\ pc'[u] = "WaitAndPop"
  <2>1. pc[t] = "Push"
    BY DEF Push
  <2> QED
    BY <1>3, <2>1 DEF Asleep, TypeOK
<1> QED
  BY <1>1, <1>2, <1>3 DEF Push, OneMoves

(* WaitAndPop moves the oldest request to its worker, or leaves the queue. *)
LEMMA PopTakes ==
    ASSUME TypeOK, Control, NEW w \in Workers, WaitAndPop(w)
    PROVE  UNCHANGED <<queue, request>> \/ PopsOldest(w)
<1>1. CASE queue = <<>> /\ ~shutdown
  BY <1>1 DEF WaitAndPop
<1>2. CASE shutdown
  BY <1>2 DEF WaitAndPop
<1>3. CASE queue # <<>> /\ ~shutdown
  <2>1. queue' = Tail(queue) /\ request' = [request EXCEPT ![w] = Head(queue)]
    BY <1>3 DEF WaitAndPop
  <2>2. queue \in Seq(Maps) /\ Len(queue) \in Nat \ {0}
    BY <1>3 DEF TypeOK
  <2>3. DOMAIN queue = 1 .. Len(queue) /\ DOMAIN queue' = 1 .. (Len(queue) - 1)
    BY <2>1, <2>2
  <2>4. \A j \in 1 .. (Len(queue) - 1) : queue'[j] = queue[j + 1]
    BY <2>1, <2>2
  <2>5. Head(queue) = queue[1]
    BY <2>2
  <2>6. pc[w] = "WaitAndPop" /\ request[w] = NoMap /\ pc' = [pc EXCEPT ![w] = "popped"]
    BY <1>3 DEF WaitAndPop, Control
  <2>7. /\ 1 \in DOMAIN queue
        /\ \A j \in DOMAIN queue' : j + 1 \in DOMAIN queue /\ queue'[j] = queue[j + 1]
    BY <2>2, <2>3, <2>4
  <2>8. \A j \in DOMAIN queue \ {1} : j - 1 \in DOMAIN queue' /\ queue'[j - 1] = queue[j]
    <3> TAKE j \in DOMAIN queue \ {1}
    <3>1. j - 1 \in 1 .. (Len(queue) - 1) /\ (j - 1) + 1 = j
      BY <2>2, <2>3
    <3> QED
      BY <3>1, <2>3, <2>4
  <2>9. \A j \in DOMAIN queue : j \in Int
    BY <2>3
  <2> QED
    BY <2>1, <2>5, <2>6, <2>7, <2>8, <2>9 DEF PopsOldest
<1> QED
  BY <1>1, <1>2, <1>3 DEF TypeOK

(* The loops over instances stay behind the update of the base map.        *)
LEMMA LoopsStep == ASSUME IInv, TickInv, [Next]_vars PROVE Loops'
<1>0. ASSUME NEW t \in Threads, Push(t) PROVE OneMoves(t)
  BY <1>0, PushMoves DEF IInv
<1> USE ThreadsAssumption, MapsAssumption
        DEF Threads, Maps, IInv, TypeOK, Control, TickInv, Loops, Unfinished,
            queueVars, mapVars, OneMoves
<1>1. ASSUME NEW t \in Threads, Push(t) PROVE Loops'
  <2>1. scheduling' = [scheduling EXCEPT ![t] = NoMap]
        /\ UNCHANGED <<activated, request, instLeft, served>>
    BY <1>1 DEF Push
  <2>2. OneMoves(t)
    BY <1>0, <1>1
  <2>3. pc[t] = "Push" /\ pc[Main] # "WaitAndPop"
    BY <1>1 DEF Push
  <2> QED
    BY <2>1, <2>2, <2>3
<1>2. ASSUME NEW w \in Workers, WaitAndPop(w) PROVE Loops'
  BY <1>2 DEF WaitAndPop
<1>3. ASSUME NEW t \in Threads, SpuriousWakeUp(t) PROVE Loops'
  BY <1>3 DEF SpuriousWakeUp
<1>4. ASSUME NEW w \in Workers, CheckToken(w) PROVE Loops'
  BY <1>4 DEF CheckToken, QuietMeansIdle, Quiet, Carrying
<1>5. ASSUME NEW t \in Threads, FinishUpdate(t) PROVE Loops'
  BY <1>5 DEF FinishUpdate, InstancedMaps
<1>6. ASSUME NEW t \in Threads, NEW i \in Instances,
             DestroyInstance(t, i) \/ SkipInstance(t, i)
      PROVE Loops'
  BY <1>6 DEF DestroyInstance, SkipInstance
<1>7. ASSUME NEW t \in Threads, NEW i \in Instances, ScheduleInstance(t, i) PROVE Loops'
  BY <1>7 DEF ScheduleInstance, LockAndCount
<1>8. ASSUME NEW w \in Workers, UpdateFinished(w) PROVE Loops'
  BY <1>8 DEF UpdateFinished
<1>9. ASSUME NEW m \in Maps, CreateMap(m) PROVE Loops'
  BY <1>9 DEF CreateMap
<1>10. ASSUME NEW m \in BaseMaps, ScheduleMap(m) PROVE Loops'
  BY <1>10 DEF ScheduleMap, LockAndCount
<1>11. ASSUME NEW m \in BaseMaps, UpdateInline(m) \/ DelayedUpdate(m) PROVE Loops'
  BY <1>11 DEF UpdateInline, DelayedUpdate
<1>12. ASSUME NEW i \in Instances, UpdateInstanceInline(i) PROVE Loops'
  BY <1>12 DEF UpdateInstanceInline
<1>13. CASE StartTick
  BY <1>13 DEF StartTick, QuietMeansIdle, Quiet, Carrying
<1>14. CASE LoopDone \/ Wait \/ EndTick \/ InlineFinished
  BY <1>14 DEF LoopDone, Wait, EndTick, InlineFinished
<1>15. CASE UnloadAll \/ SetToken \/ Join
  BY <1>15 DEF UnloadAll, SetToken, Join
<1>16. CASE Cancel
  BY <1>16 DEF Cancel, Asleep
<1>17. CASE Terminated \/ UNCHANGED vars
  BY <1>17 DEF Terminated, vars
<1> QED
  BY <1>1, <1>2, <1>3, <1>4, <1>5, <1>6, <1>7, <1>8, <1>9, <1>10, <1>11, <1>12, <1>13,
     <1>14, <1>15, <1>16, <1>17
  DEF Next, MainStep, WorkerStep, UpdateStep, Environment

(* A map exists, and has its turn, only with the map that contains it.     *)
LEMMA NestingStep == ASSUME IInv, TickInv, [Next]_vars PROVE Nesting'
<1> USE ThreadsAssumption, MapsAssumption
        DEF Threads, Maps, IInv, TypeOK, Control, TickInv, queueVars, mapVars,
            Nesting, Loops, Unfinished, HeldIsDue, Due
<1>1. ASSUME NEW t \in Threads, Push(t) PROVE Nesting'
  BY <1>1 DEF Push
<1>2. ASSUME NEW w \in Workers, WaitAndPop(w) PROVE Nesting'
  BY <1>2 DEF WaitAndPop
<1>3. ASSUME NEW t \in Threads, SpuriousWakeUp(t) PROVE Nesting'
  BY <1>3 DEF SpuriousWakeUp
<1>4. ASSUME NEW w \in Workers, CheckToken(w) PROVE Nesting'
  BY <1>4 DEF CheckToken
<1>5. ASSUME NEW t \in Threads, FinishUpdate(t) PROVE Nesting'
  BY <1>5 DEF FinishUpdate, InstancedMaps
<1>6. ASSUME NEW t \in Threads, NEW i \in Instances, DestroyInstance(t, i) PROVE Nesting'
  BY <1>6 DEF DestroyInstance
<1>7. ASSUME NEW t \in Threads, NEW i \in Instances, SkipInstance(t, i) PROVE Nesting'
  BY <1>7 DEF SkipInstance
<1>8. ASSUME NEW t \in Threads, NEW i \in Instances, ScheduleInstance(t, i) PROVE Nesting'
  BY <1>8 DEF ScheduleInstance, LockAndCount
<1>9. ASSUME NEW w \in Workers, UpdateFinished(w) PROVE Nesting'
  BY <1>9 DEF UpdateFinished
<1>10. ASSUME NEW m \in Maps, CreateMap(m) PROVE Nesting'
  BY <1>10 DEF CreateMap
<1>11. ASSUME NEW m \in BaseMaps, ScheduleMap(m) PROVE Nesting'
  BY <1>11 DEF ScheduleMap, LockAndCount
<1>12. ASSUME NEW m \in BaseMaps, UpdateInline(m) PROVE Nesting'
  BY <1>12 DEF UpdateInline
<1>13. ASSUME NEW m \in BaseMaps, DelayedUpdate(m) PROVE Nesting'
  BY <1>13 DEF DelayedUpdate
<1>14. ASSUME NEW i \in Instances, UpdateInstanceInline(i) PROVE Nesting'
  BY <1>14 DEF UpdateInstanceInline
<1>15. CASE StartTick
  BY <1>15 DEF StartTick, QuietMeansIdle, Quiet, Carrying
<1>16. CASE LoopDone
  BY <1>16 DEF LoopDone
<1>17. CASE Wait
  BY <1>17 DEF Wait
<1>18. CASE EndTick
  BY <1>18 DEF EndTick
<1>19. CASE InlineFinished
  BY <1>19 DEF InlineFinished
<1>20. CASE UnloadAll
  BY <1>20 DEF UnloadAll, QuietMeansIdle, Quiet, Carrying
<1>21. CASE SetToken \/ Join
  BY <1>21 DEF SetToken, Join
<1>22. CASE Cancel
  BY <1>22 DEF Cancel, Asleep
<1>23. CASE Terminated \/ UNCHANGED vars
  BY <1>23 DEF Terminated, vars
<1> QED
  BY <1>1, <1>2, <1>3, <1>4, <1>5, <1>6, <1>7, <1>8, <1>9, <1>10, <1>11, <1>12, <1>13,
     <1>14, <1>15, <1>16, <1>17, <1>18, <1>19, <1>20, <1>21, <1>22, <1>23
  DEF Next, MainStep, WorkerStep, UpdateStep, Environment

(* What is queued, scheduled, carried or left in a loop stays due.         *)
LEMMA HeldIsDueStep == ASSUME IInv, TickInv, [Next]_vars PROVE HeldIsDue'
<1>0. ASSUME NEW w \in Workers, WaitAndPop(w)
      PROVE  UNCHANGED <<queue, request>> \/ PopsOldest(w)
  BY <1>0, PopTakes DEF IInv
<1> USE ThreadsAssumption, MapsAssumption
        DEF Threads, Maps, IInv, TypeOK, Control, TickInv, queueVars, mapVars,
            PopsOldest, Nesting, Loops, Unfinished, HeldIsDue, Due, HeldOnce,
            Unscheduled
<1>1. ASSUME NEW t \in Threads, Push(t) PROVE HeldIsDue'
  BY <1>1 DEF Push
<1>2. ASSUME NEW w \in Workers, WaitAndPop(w) PROVE HeldIsDue'
  <2>0. UNCHANGED <<cancel, scheduling, instLeft, mapsLeft, live, served>>
    BY <1>2 DEF WaitAndPop
  <2>1. CASE UNCHANGED <<queue, request>>
    BY <2>0, <2>1, <1>2 DEF WaitAndPop
  <2>2. CASE PopsOldest(w)
    BY <2>0, <2>2
  <2> QED
    BY <2>1, <2>2, <1>0, <1>2
<1>3. ASSUME NEW t \in Threads, SpuriousWakeUp(t) PROVE HeldIsDue'
  BY <1>3 DEF SpuriousWakeUp
<1>4. ASSUME NEW w \in Workers, CheckToken(w) PROVE HeldIsDue'
  BY <1>4 DEF CheckToken
<1>5. ASSUME NEW t \in Threads, FinishUpdate(t) PROVE HeldIsDue'
  BY <1>5 DEF FinishUpdate, InstancedMaps
<1>6. ASSUME NEW t \in Threads, NEW i \in Instances, DestroyInstance(t, i) PROVE HeldIsDue'
  BY <1>6 DEF DestroyInstance
<1>7. ASSUME NEW t \in Threads, NEW i \in Instances, SkipInstance(t, i) PROVE HeldIsDue'
  BY <1>7 DEF SkipInstance
<1>8. ASSUME NEW t \in Threads, NEW i \in Instances, ScheduleInstance(t, i) PROVE HeldIsDue'
  BY <1>8 DEF ScheduleInstance, LockAndCount
<1>9. ASSUME NEW w \in Workers, UpdateFinished(w) PROVE HeldIsDue'
  BY <1>9 DEF UpdateFinished
<1>10. ASSUME NEW m \in Maps, CreateMap(m) PROVE HeldIsDue'
  BY <1>10 DEF CreateMap
<1>11. ASSUME NEW m \in BaseMaps, ScheduleMap(m) PROVE HeldIsDue'
  BY <1>11 DEF ScheduleMap, LockAndCount
<1>12. ASSUME NEW m \in BaseMaps, UpdateInline(m) PROVE HeldIsDue'
  BY <1>12 DEF UpdateInline
<1>13. ASSUME NEW m \in BaseMaps, DelayedUpdate(m) PROVE HeldIsDue'
  BY <1>13 DEF DelayedUpdate
<1>14. ASSUME NEW i \in Instances, UpdateInstanceInline(i) PROVE HeldIsDue'
  BY <1>14 DEF UpdateInstanceInline
<1>15. CASE StartTick
  BY <1>15 DEF StartTick, QuietMeansIdle, Quiet, Carrying
<1>16. CASE LoopDone
  BY <1>16 DEF LoopDone
<1>17. CASE Wait
  BY <1>17 DEF Wait
<1>18. CASE EndTick
  BY <1>18 DEF EndTick
<1>19. CASE InlineFinished
  BY <1>19 DEF InlineFinished
<1>20. CASE UnloadAll
  BY <1>20 DEF UnloadAll, QuietMeansIdle, Quiet, Carrying
<1>21. CASE SetToken \/ Join
  BY <1>21 DEF SetToken, Join
<1>22. CASE Cancel
  BY <1>22 DEF Cancel, Asleep
<1>23. CASE Terminated \/ UNCHANGED vars
  BY <1>23 DEF Terminated, vars
<1> QED
  BY <1>1, <1>2, <1>3, <1>4, <1>5, <1>6, <1>7, <1>8, <1>9, <1>10, <1>11, <1>12, <1>13,
     <1>14, <1>15, <1>16, <1>17, <1>18, <1>19, <1>20, <1>21, <1>22, <1>23
  DEF Next, MainStep, WorkerStep, UpdateStep, Environment

(* No step puts a map in a second place.                                   *)
LEMMA HeldOnceStep == ASSUME IInv, TickInv, [Next]_vars PROVE HeldOnce'
<1>0. ASSUME NEW w \in Workers, WaitAndPop(w)
      PROVE  UNCHANGED <<queue, request>> \/ PopsOldest(w)
  BY <1>0, PopTakes DEF IInv
<1> USE ThreadsAssumption, MapsAssumption
        DEF Threads, Maps, IInv, TypeOK, Control, TickInv, queueVars, mapVars,
            PopsOldest, Nesting, Loops, Unfinished, HeldIsDue, Due, HeldOnce,
            Unscheduled
<1>1. ASSUME NEW t \in Threads, Push(t) PROVE HeldOnce'
  BY <1>1 DEF Push
<1>2. ASSUME NEW w \in Workers, WaitAndPop(w) PROVE HeldOnce'
  <2>0. UNCHANGED <<cancel, scheduling, instLeft, mapsLeft, live, served>>
    BY <1>2 DEF WaitAndPop
  <2>1. CASE UNCHANGED <<queue, request>>
    BY <2>0, <2>1, <1>2 DEF WaitAndPop
  <2>2. CASE PopsOldest(w)
    <3>1. \A j \in DOMAIN queue' : j + 1 \in DOMAIN queue \ {1} /\ queue'[j] = queue[j + 1]
                                 /\ j \in Int
      <4>1. \A j \in DOMAIN queue' : j \in Int /\ j # 0
        BY <1>2 DEF WaitAndPop
      <4> QED
        BY <4>1, <2>2
    <3>2. \A j, k \in DOMAIN queue' : queue'[j] = queue'[k] => j = k
      BY <3>1
    <3>3. \A j \in DOMAIN queue' : \E k \in DOMAIN queue : k # 1 /\ queue'[j] = queue[k]
      BY <3>1
    <3>4. \A t \in Threads : request'[t] = IF t = w THEN queue[1] ELSE request[t]
      BY <2>2
    <3>5. \A t \in Threads : Unfinished(t)' <=> t = w \/ Unfinished(t)
      BY <2>2
    <3>6. Unscheduled' = Unscheduled
      BY <2>0, <2>2
    <3>7. queue[1] \in Maps /\ Due(queue[1]) /\ queue[1] # NoMap
      BY <2>2
    <3>8. \A t \in Threads \ {w} : request[t] # queue[1]
      BY <2>2, <3>7
    <3> HIDE DEF Unfinished, Unscheduled, Due
    <3>9. \A t, u \in Threads : request'[t] # NoMap /\ request'[t] = request'[u] => t = u
      BY <3>4, <3>8
    <3>10. \A j \in DOMAIN queue', t \in Threads :
              /\ scheduling[t] # queue'[j]
              /\ t = w \/ Unfinished(t) => request'[t] # queue'[j]
              /\ queue'[j] \notin instLeft[t]
      BY <2>2, <3>3, <3>4
    <3>11. \A j \in DOMAIN queue' : queue'[j] \notin Unscheduled
      BY <3>3
    <3>12. \A t, u \in Threads : t = w \/ Unfinished(t) => request'[t] # scheduling[u]
                                                         /\ request'[t] \notin instLeft[u]
      BY <2>2, <3>4
    <3>13. \A t \in Threads : t = w \/ Unfinished(t) => request'[t] \notin Unscheduled
      BY <2>2, <3>4
    <3> QED
      BY <2>0, <3>2, <3>5, <3>6, <3>9, <3>10, <3>11, <3>12, <3>13
  <2> QED
    BY <2>1, <2>2, <1>0, <1>2
<1>3. ASSUME NEW t \in Threads, SpuriousWakeUp(t) PROVE HeldOnce'
  BY <1>3 DEF SpuriousWakeUp
<1>4. ASSUME NEW w \in Workers, CheckToken(w) PROVE HeldOnce'
  BY <1>4 DEF CheckToken
<1>5. ASSUME NEW t \in Threads, FinishUpdate(t) PROVE HeldOnce'
  BY <1>5 DEF FinishUpdate, InstancedMaps
<1>6. ASSUME NEW t \in Threads, NEW i \in Instances, DestroyInstance(t, i) PROVE HeldOnce'
  BY <1>6 DEF DestroyInstance
<1>7. ASSUME NEW t \in Threads, NEW i \in Instances, SkipInstance(t, i) PROVE HeldOnce'
  BY <1>7 DEF SkipInstance
<1>8. ASSUME NEW t \in Threads, NEW i \in Instances, ScheduleInstance(t, i) PROVE HeldOnce'
  BY <1>8 DEF ScheduleInstance, LockAndCount
<1>9. ASSUME NEW w \in Workers, UpdateFinished(w) PROVE HeldOnce'
  BY <1>9 DEF UpdateFinished
<1>10. ASSUME NEW m \in Maps, CreateMap(m) PROVE HeldOnce'
  BY <1>10 DEF CreateMap
<1>11. ASSUME NEW m \in BaseMaps, ScheduleMap(m) PROVE HeldOnce'
  BY <1>11 DEF ScheduleMap, LockAndCount
<1>12. ASSUME NEW m \in BaseMaps, UpdateInline(m) PROVE HeldOnce'
  BY <1>12 DEF UpdateInline
<1>13. ASSUME NEW m \in BaseMaps, DelayedUpdate(m) PROVE HeldOnce'
  BY <1>13 DEF DelayedUpdate
<1>14. ASSUME NEW i \in Instances, UpdateInstanceInline(i) PROVE HeldOnce'
  BY <1>14 DEF UpdateInstanceInline
<1>15. CASE StartTick
  BY <1>15 DEF StartTick, QuietMeansIdle, Quiet, Carrying
<1>16. CASE LoopDone
  BY <1>16 DEF LoopDone
<1>17. CASE Wait
  BY <1>17 DEF Wait
<1>18. CASE EndTick
  BY <1>18 DEF EndTick
<1>19. CASE InlineFinished
  BY <1>19 DEF InlineFinished
<1>20. CASE UnloadAll
  BY <1>20 DEF UnloadAll, QuietMeansIdle, Quiet, Carrying
<1>21. CASE SetToken \/ Join
  BY <1>21 DEF SetToken, Join
<1>22. CASE Cancel
  BY <1>22 DEF Cancel, Asleep
<1>23. CASE Terminated \/ UNCHANGED vars
  BY <1>23 DEF Terminated, vars
<1> QED
  BY <1>1, <1>2, <1>3, <1>4, <1>5, <1>6, <1>7, <1>8, <1>9, <1>10, <1>11, <1>12, <1>13,
     <1>14, <1>15, <1>16, <1>17, <1>18, <1>19, <1>20, <1>21, <1>22, <1>23
  DEF Next, MainStep, WorkerStep, UpdateStep, Environment

(* No step forgets a live map whose turn has not come to an end.           *)
LEMMA NoneForgottenStep == ASSUME IInv, TickInv, [Next]_vars PROVE NoneForgotten'
<1>0. ASSUME NEW w \in Workers, WaitAndPop(w)
      PROVE  UNCHANGED <<queue, request>> \/ PopsOldest(w)
  BY <1>0, PopTakes DEF IInv
<1>push. ASSUME NEW t \in Threads, Push(t) PROVE OneMoves(t)
  BY <1>push, PushMoves DEF IInv
<1> USE ThreadsAssumption, MapsAssumption
        DEF Threads, Maps, IInv, TypeOK, Control, TickInv, queueVars, mapVars,
            PopsOldest, OneMoves, Nesting, Loops, Unfinished, HeldIsDue, Due, Held,
            Updating, NoneForgotten, HeldOnce, Unscheduled
<1>1. ASSUME NEW t \in Threads, Push(t) PROVE NoneForgotten'
  <2>0. /\ queue' = Append(queue, scheduling[t])
        /\ scheduling' = [scheduling EXCEPT ![t] = NoMap]
        /\ UNCHANGED <<cancel, request, instLeft, mapsLeft, live, served>>
    BY <1>1 DEF Push
  <2>1. OneMoves(t)
    BY <1>1, <1>push
  <2>2. pc[t] = "Push"
    BY <1>1 DEF Push
  <2>3. \A u \in Threads : Unfinished(u)' <=> Unfinished(u)
    BY <2>0, <2>1, <2>2
  <2>4. Unscheduled' = Unscheduled /\ (Updating' <=> Updating)
    BY <2>0, <2>1, <2>2
  <2>5. \A m \in live : Due(m)' <=> Due(m)
    BY <2>0
  <2>6. DOMAIN queue' = DOMAIN queue \cup {Len(queue) + 1}
        /\ queue'[Len(queue) + 1] = scheduling[t]
        /\ \A j \in DOMAIN queue : queue'[j] = queue[j]
    <3>1. scheduling[t] \in Maps
      BY <2>2
    <3> QED
      BY <2>0, <3>1
  <2> HIDE DEF Unfinished, Unscheduled, Updating, Due
  <2>7. ASSUME NEW m \in live, Held(m) PROVE Held(m)'
    <3>1. CASE \/ m \in Unscheduled
               \/ \E u \in Threads : m \in instLeft[u] \/ (Unfinished(u) /\ m = request[u])
      BY <3>1, <2>0, <2>3, <2>4
    <3>2. ASSUME NEW u \in Threads, m = scheduling[u] PROVE Held(m)'
      <4>1. m # NoMap
        OBVIOUS
      <4>2. CASE u = t
        BY <4>2, <3>2, <2>6
      <4>3. CASE u # t
        BY <4>3, <3>2, <2>0
      <4> QED
        BY <4>2, <4>3
    <3>3. CASE \E j \in DOMAIN queue : m = queue[j]
      BY <3>3, <2>6
    <3> QED
      BY <2>7, <3>1, <3>2, <3>3
  <2> HIDE DEF Held
  <2> QED
    BY <2>0, <2>4, <2>5, <2>7
<1>2. ASSUME NEW w \in Workers, WaitAndPop(w) PROVE NoneForgotten'
  <2>0. UNCHANGED <<cancel, scheduling, instLeft, mapsLeft, live, served>>
    BY <1>2 DEF WaitAndPop
  <2>1. CASE UNCHANGED <<queue, request>>
    BY <2>0, <2>1, <1>2 DEF WaitAndPop
  <2>2. CASE PopsOldest(w)
    <3>1. \A t \in Threads : Unfinished(t)' <=> t = w \/ Unfinished(t)
      BY <2>2
    <3>2. \A t \in Threads : request'[t] = IF t = w THEN queue[1] ELSE request[t]
      BY <2>2
    <3>3. Unscheduled' = Unscheduled /\ (Updating' <=> Updating)
      BY <2>0, <2>2
    <3>4. ~Unfinished(w)
      BY <2>2
    <3>5. \A m \in live : Due(m)' <=> Due(m)
      BY <2>0
    <3>6. UNCHANGED <<instLeft, scheduling, live>>
      BY <2>0
    <3> HIDE DEF Unfinished, Unscheduled, Updating, Due
    <3>7. ASSUME NEW m, Held(m) PROVE Held(m)'
      <4>1. CASE \/ m \in Unscheduled
                 \/ \E t \in Threads : m \in instLeft[t] \/ m = scheduling[t]
        BY <4>1, <3>3, <3>6
      <4>2. CASE \E t \in Threads : Unfinished(t) /\ m = request[t]
        BY <4>2, <3>1, <3>2, <3>4
      <4>3. ASSUME NEW j \in DOMAIN queue, m = queue[j] PROVE Held(m)'
        <5>1. CASE j = 1
          BY <5>1, <4>3, <3>1, <3>2
        <5>2. CASE j # 1
          BY <5>2, <4>3, <2>2
        <5> QED
          BY <5>1, <5>2
      <4> QED
        BY <4>1, <4>2, <4>3, <3>7
    <3> HIDE DEF Held
    <3> QED
      BY <3>3, <3>5, <3>6, <3>7
  <2> QED
    BY <2>1, <2>2, <1>0, <1>2
<1>3. ASSUME NEW t \in Threads, SpuriousWakeUp(t) PROVE NoneForgotten'
  BY <1>3 DEF SpuriousWakeUp
<1>4. ASSUME NEW w \in Workers, CheckToken(w) PROVE NoneForgotten'
  BY <1>4 DEF CheckToken
<1>5. ASSUME NEW t \in Threads, FinishUpdate(t) PROVE NoneForgotten'
  BY <1>5 DEF FinishUpdate, InstancedMaps
<1>6. ASSUME NEW t \in Threads, NEW i \in Instances, DestroyInstance(t, i)
      PROVE NoneForgotten'
  BY <1>6 DEF DestroyInstance
<1>7. ASSUME NEW t \in Threads, NEW i \in Instances, SkipInstance(t, i)
      PROVE NoneForgotten'
  BY <1>7 DEF SkipInstance
<1>8. ASSUME NEW t \in Threads, NEW i \in Instances, ScheduleInstance(t, i)
      PROVE NoneForgotten'
  BY <1>8 DEF ScheduleInstance, LockAndCount
<1>9. ASSUME NEW w \in Workers, UpdateFinished(w) PROVE NoneForgotten'
  BY <1>9 DEF UpdateFinished
<1>10. ASSUME NEW m \in Maps, CreateMap(m) PROVE NoneForgotten'
  BY <1>10 DEF CreateMap
<1>11. ASSUME NEW m \in BaseMaps, ScheduleMap(m) PROVE NoneForgotten'
  BY <1>11 DEF ScheduleMap, LockAndCount
<1>12. ASSUME NEW m \in BaseMaps, UpdateInline(m) PROVE NoneForgotten'
  BY <1>12 DEF UpdateInline
<1>13. ASSUME NEW m \in BaseMaps, DelayedUpdate(m) PROVE NoneForgotten'
  BY <1>13 DEF DelayedUpdate
<1>14. ASSUME NEW i \in Instances, UpdateInstanceInline(i) PROVE NoneForgotten'
  BY <1>14 DEF UpdateInstanceInline
<1>15. CASE StartTick
  BY <1>15 DEF StartTick, QuietMeansIdle, Quiet, Carrying
<1>16. CASE LoopDone
  BY <1>16 DEF LoopDone
<1>17. CASE Wait
  BY <1>17 DEF Wait
<1>18. CASE EndTick
  BY <1>18 DEF EndTick
<1>19. CASE InlineFinished
  BY <1>19 DEF InlineFinished
<1>20. CASE UnloadAll
  BY <1>20 DEF UnloadAll, QuietMeansIdle, Quiet, Carrying
<1>21. CASE SetToken \/ Join
  BY <1>21 DEF SetToken, Join
<1>22. CASE Cancel
  BY <1>22 DEF Cancel, Asleep
<1>23. CASE Terminated \/ UNCHANGED vars
  BY <1>23 DEF Terminated, vars
<1> QED
  BY <1>1, <1>2, <1>3, <1>4, <1>5, <1>6, <1>7, <1>8, <1>9, <1>10, <1>11, <1>12, <1>13,
     <1>14, <1>15, <1>16, <1>17, <1>18, <1>19, <1>20, <1>21, <1>22, <1>23
  DEF Next, MainStep, WorkerStep, UpdateStep, Environment

-----------------------------------------------------------------------------
(* The invariant of the tick holds in every reachable state.               *)
LEMMA TickInvariance == Spec => [](IInv /\ TickInv)
<1>1. Init => TickInv
  <2> SUFFICES ASSUME Init PROVE TickInv
    OBVIOUS
  <2>1. /\ request = [t \in Threads |-> NoMap] /\ scheduling = [t \in Threads |-> NoMap]
        /\ instLeft = [t \in Threads |-> {}] /\ queue = <<>> /\ mapsLeft = {}
        /\ live = {} /\ served = {} /\ NoMap \notin Maps
    BY MapsAssumption DEF Init
  <2> QED
    BY <2>1 DEF TickInv, Loops, Nesting, HeldIsDue, HeldOnce, NoneForgotten, Unfinished,
                Unscheduled, Threads, Maps
<1>2. IInv /\ TickInv /\ [Next]_vars => TickInv'
  BY LoopsStep, NestingStep, HeldIsDueStep, HeldOnceStep, NoneForgottenStep DEF TickInv
<1> QED
  BY Invariance, <1>1, <1>2, PTL DEF Spec

(* Map::Update runs at most once at a time in a map, and a map that is     *)
(* queued is not being updated: a request that is made is for a map whose  *)
(* turn has come and that no other request, loop or thread holds.          *)
THEOREM OneUpdateCorrect == Spec => []OneUpdatePerMap
<1>1. IInv /\ TickInv => OneUpdatePerMap
  <2> SUFFICES ASSUME IInv, TickInv PROVE OneUpdatePerMap
    OBVIOUS
  <2>1. \A v, w \in Carrying : request[v] = request[w] => v = w
    BY DEF Carrying, TickInv, HeldOnce, Threads
  <2>2. \A j, k \in DOMAIN queue : queue[j] = queue[k] => j = k
    BY DEF TickInv, HeldOnce
  <2>3. ASSUME NEW w \in Carrying, NEW j \in DOMAIN queue PROVE request[w] # queue[j]
    <3>1. CASE Unfinished(w)
      BY <3>1 DEF Carrying, TickInv, HeldOnce, Threads
    <3>2. CASE ~Unfinished(w)
      BY <3>2 DEF Carrying, TickInv, Loops, HeldIsDue, Due, Threads
    <3> QED
      BY <3>1, <3>2
  <2> QED
    BY <2>1, <2>2, <2>3 DEF OneUpdatePerMap
<1> QED
  BY TickInvariance, <1>1, PTL

-----------------------------------------------------------------------------
(* When nothing is queued, scheduled or carried, every live map has had    *)
(* its turn: this is what the barrier needs.                               *)
LEMMA NothingHeld ==
    ASSUME IInv, TickInv, Updating, Carrying = {}, queue = <<>>, lock = NoThread,
           pc[Main] \in {"loop", "wait"}, Unscheduled = {}
    PROVE  live \subseteq served
<1> USE ThreadsAssumption, MapsAssumption
        DEF IInv, TypeOK, Control, TickInv, Threads, Maps
<1>1. ASSUME NEW m \in live PROVE ~Held(m)
  <2>1. m \notin Unscheduled
    OBVIOUS
  <2>2. \A t \in Threads : scheduling[t] = NoMap
    BY DEF Control
  <2>3. \A t \in Threads : request[t] = NoMap
    BY DEF Loops, Carrying
  <2>4. \A t \in Threads : instLeft[t] = {}
    BY <2>3 DEF Loops
  <2> QED
    BY <2>1, <2>2, <2>3, <2>4 DEF Held, Unfinished
<1>2. \A m \in live : ~Due(m)
  BY <1>1 DEF NoneForgotten
<1>3. \A m \in live \cap BaseMaps : m \in served
  BY <1>2 DEF Due
<1> QED
  BY <1>2, <1>3 DEF Due, Nesting

(* The phase of the tick, from the place of the world thread.              *)
PhaseOfPlace ==
    /\ phase \in {"stopped", "world", "delayed", "updating"}
    /\ phase = "updating" <=> Updating
    /\ phase = "world" <=> ~cancel /\ pc[Main] = "world"
    /\ phase = "delayed" <=> ~cancel /\ pc[Main] = "delayed"
    /\ phase = "stopped" <=> cancel \/ pc[Main] \in {"deactivate", "exit"}

(* The phase of MapTick is that of the place of the world thread.          *)
LEMMA PhaseLemma == TypeOK /\ Control => PhaseOfPlace
<1> SUFFICES ASSUME TypeOK, Control PROVE PhaseOfPlace
  OBVIOUS
<1>1. pc[Main] \in Places \ {"WaitAndPop", "popped", "fault"}
  BY DEF TypeOK, Control, Threads
<1>2. CASE cancel \/ pc[Main] \in {"deactivate", "exit"}
  BY <1>1, <1>2 DEF phase, Updating, PhaseOfPlace
<1>3. CASE ~cancel /\ pc[Main] \in {"world", "delayed"}
  BY <1>1, <1>3 DEF phase, Updating, PhaseOfPlace
<1>4. CASE ~cancel /\ pc[Main] \in {"loop", "Push", "update", "visit", "wait", "asleep"}
  BY <1>1, <1>4 DEF phase, Updating, PhaseOfPlace
<1> QED
  BY <1>1, <1>2, <1>3, <1>4 DEF Control, Places

(* A thread that updates maps or schedules them is inside the tick.        *)
LEMMA WorkIsInTick ==
    ASSUME IInv, NEW t \in Threads, pc[t] \in {"update", "visit", "Push"}
    PROVE  ~cancel /\ Updating
<1> USE ThreadsAssumption DEF IInv, Control, Threads
<1>1. ~Quiet
  <2>1. CASE pc[t] = "Push"
    BY <2>1 DEF QuietMeansIdle
  <2>2. CASE t \in Workers /\ pc[t] \in {"update", "visit"}
    BY <2>2 DEF QuietMeansIdle, Carrying
  <2>3. CASE t = Main
    BY <2>3 DEF Quiet
  <2> QED
    BY <2>1, <2>2, <2>3
<1>2. pc[Main] \in Places
  BY DEF TypeOK
<1> QED
  BY <1>1, <1>2 DEF Quiet, Updating, Places

(* Every step of the threaded tick is a step of MapTick, or changes        *)
(* nothing that MapTick knows of.                                          *)
LEMMA TickStep ==
    ASSUME IInv, TickInv, PhaseOfPlace, PhaseOfPlace', [Next]_vars
    PROVE  [Tick!Next]_(Tick!vars)
<1>update. ASSUME NEW t \in Threads, pc[t] \in {"update", "visit", "Push"}
          PROVE  ~cancel /\ Updating
  BY <1>update, WorkIsInTick
<1>push. ASSUME NEW t \in Threads, Push(t) PROVE Updating /\ Updating'
  <2>1. pc[t] = "Push" /\ cancel' = cancel
    BY <1>push DEF Push
  <2>2. ~cancel /\ Updating
    BY <2>1, <1>update
  <2>3. OneMoves(t)
    BY <1>push, PushMoves DEF IInv
  <2> QED
    BY <2>1, <2>2, <2>3 DEF Updating, Threads, OneMoves
<1>held. ASSUME Updating, Carrying = {}, queue = <<>>, lock = NoThread,
                pc[Main] \in {"loop", "wait"}, Unscheduled = {}
         PROVE  live \subseteq served
  BY <1>held, NothingHeld
<1> USE ThreadsAssumption, MapsAssumption
        DEF Threads, Maps, IInv, TypeOK, PhaseOfPlace, Updating, queueVars, mapVars,
            Tick!vars
<1>0. ASSUME UNCHANGED <<live, served>>, phase' = phase PROVE [Tick!Next]_(Tick!vars)
  BY <1>0
<1> HIDE DEF Tick!vars
<1>1. ASSUME NEW t \in Threads, Push(t) PROVE [Tick!Next]_(Tick!vars)
  <2>1. UNCHANGED <<live, served>>
    BY <1>1 DEF Push
  <2> QED
    BY <1>0, <1>1, <2>1, <1>push
<1>2. ASSUME NEW w \in Workers, WaitAndPop(w) \/ CheckToken(w) \/ UpdateFinished(w)
      PROVE  [Tick!Next]_(Tick!vars)
  BY <1>0, <1>2 DEF WaitAndPop, CheckToken, UpdateFinished
<1>3. ASSUME NEW t \in Threads, SpuriousWakeUp(t) PROVE [Tick!Next]_(Tick!vars)
  BY <1>0, <1>3 DEF SpuriousWakeUp
<1>4. ASSUME NEW t \in Threads, FinishUpdate(t) PROVE [Tick!Next]_(Tick!vars)
  <2>1. Updating /\ Updating'
    BY <1>4, <1>update DEF FinishUpdate
  <2>2. Due(request[t]) /\ request[t] \in Maps
    BY <1>4 DEF FinishUpdate, TickInv, HeldIsDue, Unfinished, Control
  <2>3. Tick!Serve(request[t])
    BY <1>4, <2>1, <2>2 DEF FinishUpdate, Tick!Serve, Tick!Ancestors, Due
  <2> QED
    BY <2>2, <2>3 DEF Tick!Next, Tick!Maps
<1>5. ASSUME NEW t \in Threads, NEW i \in Instances, DestroyInstance(t, i)
      PROVE  [Tick!Next]_(Tick!vars)
  <2>1. Updating /\ Updating'
    BY <1>5, <1>update DEF DestroyInstance
  <2>2. Due(i)
    BY <1>5 DEF DestroyInstance, TickInv, HeldIsDue
  <2>3. Tick!Destroy(i)
    BY <1>5, <2>1, <2>2 DEF DestroyInstance, Tick!Destroy, Due
  <2> QED
    BY <2>3 DEF Tick!Next
<1>6. ASSUME NEW t \in Threads, NEW i \in Instances, SkipInstance(t, i)
      PROVE  [Tick!Next]_(Tick!vars)
  <2>1. Updating /\ Updating'
    BY <1>6, <1>update DEF SkipInstance
  <2>2. Due(i)
    BY <1>6 DEF SkipInstance, TickInv, HeldIsDue
  <2>3. Tick!Serve(i)
    BY <1>6, <2>1, <2>2 DEF SkipInstance, Tick!Serve, Tick!Ancestors, Due
  <2> QED
    BY <2>3 DEF Tick!Next, Tick!Maps
<1>7. ASSUME NEW i \in Instances, UpdateInstanceInline(i) PROVE [Tick!Next]_(Tick!vars)
  <2>1. Updating /\ Updating'
    BY <1>7, <1>update DEF UpdateInstanceInline
  <2>2. Due(i)
    BY <1>7 DEF UpdateInstanceInline, TickInv, HeldIsDue
  <2>3. Tick!Serve(i)
    BY <1>7, <2>1, <2>2 DEF UpdateInstanceInline, Tick!Serve, Tick!Ancestors, Due
  <2> QED
    BY <2>3 DEF Tick!Next, Tick!Maps
<1>8. ASSUME NEW t \in Threads, NEW i \in Instances, ScheduleInstance(t, i)
      PROVE  [Tick!Next]_(Tick!vars)
  <2>1. Updating /\ Updating'
    BY <1>8, <1>update DEF ScheduleInstance
  <2> QED
    BY <1>0, <1>8, <2>1 DEF ScheduleInstance
<1>9. ASSUME NEW m \in Maps, CreateMap(m) PROVE [Tick!Next]_(Tick!vars)
  <2>1. Tick!Create(m)
    BY <1>9 DEF CreateMap, Control, Tick!Create, Tick!Ancestors
  <2> QED
    BY <2>1 DEF Tick!Next, Tick!Maps
<1>10. ASSUME NEW m \in BaseMaps, ScheduleMap(m) \/ UpdateInline(m) \/ DelayedUpdate(m)
       PROVE  [Tick!Next]_(Tick!vars)
  BY <1>0, <1>10 DEF ScheduleMap, UpdateInline, DelayedUpdate
<1>11. CASE StartTick
  <2>1. Tick!Begin
    BY <1>11 DEF StartTick, Control, Tick!Begin
  <2> QED
    BY <2>1 DEF Tick!Next
<1>12. CASE LoopDone
  <2>1. CASE activated
    BY <1>0, <1>12, <2>1 DEF LoopDone
  <2>2. CASE ~activated
    <3>1. queue = <<>> /\ lock = NoThread /\ Carrying = {} /\ Updating
      BY <1>12, <2>2 DEF LoopDone, Control, Carrying
    <3>2. live \subseteq served
      BY <1>12, <1>held, <3>1 DEF LoopDone, Unscheduled
    <3>3. Tick!Barrier
      BY <1>12, <2>2, <3>1, <3>2 DEF LoopDone, Control, Tick!Barrier
    <3> QED
      BY <3>3 DEF Tick!Next
  <2> QED
    BY <2>1, <2>2
<1>13. CASE Wait
  <2>1. CASE pending > 0 \/ cancel
    BY <1>0, <1>13, <2>1 DEF Wait
  <2>2. CASE pending <= 0 /\ ~cancel
    <3>1. Updating /\ Unscheduled = {} /\ lock = NoThread
      BY <1>13, <2>2 DEF Wait, Unscheduled
    <3>2. Len(queue) + Cardinality(Carrying) = 0 /\ Len(queue) \in Nat
      BY <3>1, <2>2, CarryingFinite DEF PendingCounts
    <3>3. queue = <<>> /\ Cardinality(Carrying) = 0
      BY <3>2, CarryingFinite
    <3>4. Carrying = {}
      BY <3>3, CarryingFinite, FS_EmptySet
    <3>5. live \subseteq served
      BY <1>13, <1>held, <3>1, <3>3, <3>4 DEF Wait
    <3>6. Tick!Barrier
      BY <1>13, <2>2, <3>1, <3>5 DEF Wait, Tick!Barrier
    <3> QED
      BY <3>6 DEF Tick!Next
  <2> QED
    BY <2>1, <2>2
<1>14. CASE EndTick
  <2>1. Tick!End
    BY <1>14 DEF EndTick, Control, Tick!End
  <2> QED
    BY <2>1 DEF Tick!Next
<1>15. CASE InlineFinished \/ SetToken \/ Cancel \/ Join
  BY <1>0, <1>15 DEF InlineFinished, SetToken, Cancel, Join, Control
<1>16. CASE UnloadAll
  <2>1. Tick!Unload
    BY <1>16 DEF UnloadAll, Control, Tick!Unload
  <2> QED
    BY <2>1 DEF Tick!Next
<1>17. CASE Terminated \/ UNCHANGED vars
  BY <1>0, <1>17 DEF Terminated, vars
<1> QED
  BY <1>1, <1>2, <1>3, <1>4, <1>5, <1>6, <1>7, <1>8, <1>9, <1>10, <1>11, <1>12, <1>13,
     <1>14, <1>15, <1>16, <1>17
  DEF Next, MainStep, WorkerStep, UpdateStep, Environment

(* The parallel tick implements the sequential one: whatever the threads   *)
(* do, each tick serves every live map once, an instance after the map     *)
(* that contains it, and DelayedUpdate starts when no map is left.         *)
THEOREM TickCorrect == Spec => TickSpec
<1>1. Init => Tick!Init
  <2> SUFFICES ASSUME Init PROVE Tick!Init
    OBVIOUS
  <2>1. ~cancel /\ pc[Main] = "world" /\ live = {} /\ served = {}
    BY DEF Init, Threads
  <2>2. phase = "world"
    BY <2>1 DEF phase
  <2> QED
    BY <2>1, <2>2 DEF Tick!Init
<1>2. IInv => PhaseOfPlace
  BY PhaseLemma DEF IInv
<1>3. IInv /\ TickInv /\ PhaseOfPlace /\ PhaseOfPlace' /\ [Next]_vars 
        => [Tick!Next]_(Tick!vars)
  BY TickStep
<1> QED
  BY TickInvariance, <1>1, <1>2, <1>3, PTL DEF Spec, TickSpec, Tick!Spec
=============================================================================
