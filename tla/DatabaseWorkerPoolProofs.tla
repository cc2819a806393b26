----------------------- MODULE DatabaseWorkerPoolProofs -----------------------
(***************************************************************************)
(* The worker pool leaves no transaction open behind, applies what is      *)
(* posted in order when it has one worker thread, and implements           *)
(* AtomicCommits as long as no session is lost: for any number of worker   *)
(* threads, callers, connections, transactions and statements.             *)
(***************************************************************************)
EXTENDS DatabaseWorkerPool, SequenceTheorems, TLAPS

Busy(e) == pc[e] \in {"begin", "statement", "rollback", "commit", "failed"}

(* A thread inside ExecuteTransaction has a transaction and a connection   *)
(* of its own.                                                             *)
Owners ==
    /\ \A e \in Threads : Busy(e) => task[e] # None /\ conn[e] # None
    /\ \A e \in Threads : pc[e] = "idle" => task[e] = None
    /\ \A e \in Callers : pc[e] = "idle" => conn[e] = None
    /\ \A e \in Callers : conn[e] \in Synch \cup {None}
    /\ \A e, f \in Threads : conn[e] # None /\ conn[e] = conn[f] => e = f
    /\ \A e \in Threads :
          pc[e] \in {"begin", "rollback", "commit", "failed"} => task[e] \notin Singles
    /\ pool # "aborted" => \A e \in Threads : pc[e] # "dead"

(* e is inside the transaction that is open on its connection.             *)
Inside(e) == pc[e] \in {"statement", "rollback", "commit"} /\ task[e] \notin Singles

OpenInside ==
    /\ \A c \in Connections : open[c] => \E e \in Threads : conn[e] = c /\ Inside(e)
    /\ \A c \in Connections : ~open[c] => work[c] = <<>>

PoolInv == TypeOK /\ Owners /\ OpenInside

Known(t) == \E i \in DOMAIN posted : posted[i] = t

(* A transaction is posted once, is in one place, and is not answered      *)
(* before it has left the place.                                           *)
Requests ==
    /\ \A i, j \in DOMAIN posted : posted[i] = posted[j] => i = j
    /\ \A t \in Transactions : answer[t] # "none" => Known(t)
    /\ \A i \in DOMAIN queue : Known(queue[i]) /\ answer[queue[i]] = "none"
    /\ \A i, j \in DOMAIN queue : queue[i] = queue[j] => i = j
    /\ \A e \in Threads : task[e] # None => Known(task[e]) /\ answer[task[e]] = "none"
    /\ \A e, f \in Threads : task[e] # None /\ task[e] = task[f] => e = f
    /\ \A e \in Threads, i \in DOMAIN queue : task[e] # queue[i]
    /\ \A w \in Workers : task[w] \in Queued \cup Singles \cup {None}
    /\ \A e \in Callers : task[e] \in Directs \cup {None}

(* A session has seen statements of its thread's transaction only, and     *)
(* the database statements of transactions that were posted.               *)
Traces ==
    /\ \A e \in Threads : conn[e] # None =>
          \A k \in DOMAIN work[conn[e]] : work[conn[e]][k][1] = task[e]
    /\ \A k \in DOMAIN log : Known(log[k][1])

(* What a step does to the transactions and to the traces they leave: one  *)
(* is posted, posted and begun by a caller, or taken from the queue; the   *)
(* thread's own goes on, or ends; or nothing of this changes.              *)
Appended(t) ==
    /\ Len(log) <= Len(log')
    /\ \A k \in 1 .. Len(log) : log'[k] = log[k]
    /\ \A k \in (Len(log) + 1) .. Len(log') : log'[k][1] = t

PostMove(t) ==
    /\ ~Known(t)
    /\ queue' = Append(queue, t) /\ posted' = Append(posted, t)
    /\ UNCHANGED <<task, conn, answer, log, work>>

DirectMove(e, c, t) ==
    /\ ~Known(t) /\ task[e] = None /\ work[c] = <<>>
    /\ posted' = Append(posted, t)
    /\ task' = [task EXCEPT ![e] = t] /\ conn' = [conn EXCEPT ![e] = c]
    /\ UNCHANGED <<queue, answer, log, work>>

TakeMove(w) ==
    /\ queue # <<>> /\ task[w] = None /\ work[w] = <<>>
    /\ queue' = Tail(queue) /\ task' = [task EXCEPT ![w] = Head(queue)]
    /\ UNCHANGED <<posted, conn, answer, log, work>>

ExecuteMove(e) ==
    /\ task[e] # None /\ Appended(task[e])
    /\ \A c \in Connections : \A k \in DOMAIN work'[c] :
          \/ k \in DOMAIN work[c] /\ work'[c][k] = work[c][k]
          \/ c = conn[e] /\ work'[c][k][1] = task[e]
    /\ queue' \in {queue, <<>>}
    /\ UNCHANGED <<posted, task, conn, answer>>

FinishMove(e, result) ==
    /\ task[e] # None /\ Appended(task[e])
    /\ \A c \in Connections : work'[c] = IF c = conn[e] THEN <<>> ELSE work[c]
    /\ answer' = [answer EXCEPT ![task[e]] = result]
    /\ task' = [task EXCEPT ![e] = None]
    /\ conn' = [conn EXCEPT ![e] = IF e \in Workers THEN e ELSE None]
    /\ UNCHANGED <<queue, posted>>

OtherMove ==
    /\ queue' \in {queue, <<>>}
    /\ work' \in {work, [c \in Connections |-> <<>>]}
    /\ UNCHANGED <<posted, task, conn, answer, log>>

Move ==
    \/ \E t \in Queued \cup Singles : PostMove(t)
    \/ \E e \in Callers, c \in Synch, t \in Directs : DirectMove(e, c, t)
    \/ \E w \in Workers : TakeMove(w)
    \/ \E e \in Threads : ExecuteMove(e)
    \/ \E e \in Threads, result \in {"done", "failed"} : FinishMove(e, result)
    \/ OtherMove

Async == Queued \cup Singles

Before(t, u) == \E i, j \in DOMAIN posted : i < j /\ posted[i] = t /\ posted[j] = u

(* With one worker thread the asynchronous transactions come into the log  *)
(* as they were posted: first those of the log, then the one the worker    *)
(* executes, then those of the queue.                                      *)
PostedOrder ==
    /\ \A k, l \in DOMAIN log :
          k < l /\ log[k][1] \in Async /\ log[l][1] \in Async /\ log[k][1] # log[l][1]
             => Before(log[k][1], log[l][1])
    /\ \A w \in Workers, k \in DOMAIN log :
          task[w] # None /\ log[k][1] \in Async /\ log[k][1] # task[w]
             => Before(log[k][1], task[w])
    /\ \A k \in DOMAIN log, i \in DOMAIN queue :
          log[k][1] \in Async => Before(log[k][1], queue[i])
    /\ \A w \in Workers, i \in DOMAIN queue : task[w] # None => Before(task[w], queue[i])
    /\ \A i, j \in DOMAIN queue : i < j => Before(queue[i], queue[j])

(* Without lost sessions: what the session has seen of the transaction,    *)
(* and that there is something to try again.                               *)
OnTheWay(e) ==
    /\ pc[e] = "failed" /\ Size[task[e]] = 0 => tries[e] = 0 /\ code[e] = "error"
    /\ pc[e] = "idle" => tries[e] = 0
    /\ pc[e] = "rollback" => Size[task[e]] # 0
    /\ pc[e] = "begin" => at[e] = 1
    /\ pc[e] \in {"begin", "statement"} => at[e] \in 1 .. Size[task[e]]
    /\ pc[e] = "statement" /\ task[e] \notin Singles =>
          open[conn[e]] /\ work[conn[e]] = [k \in 1 .. (at[e] - 1) |-> <<task[e], k>>]
    /\ pc[e] = "commit" =>
          open[conn[e]] /\ work[conn[e]] = Commits!Statements(task[e])

Progress ==
    /\ losses = 0
    /\ pool # "open" => \A e \in Callers : pc[e] = "idle"
    /\ \A e \in Threads : OnTheWay(e)

(* A single statement is executed outside of any transaction. *)
LEMMA SingleOutside ==
  ASSUME PoolInv, NEW e \in Threads, Busy(e), task[e] \in Singles
  PROVE  conn[e] \in Connections /\ ~open[conn[e]] /\ work[conn[e]] = <<>>
<1>1. conn[e] \in Connections
  BY DEF PoolInv, TypeOK, Owners
<1>2. ~Inside(e)
  BY DEF Inside
<1>3. \A f \in Threads : conn[f] = conn[e] => f = e
  BY <1>1, ThreadsAssumption DEF PoolInv, Owners, Connections
<1>4. ~open[conn[e]]
  BY <1>1, <1>2, <1>3 DEF PoolInv, OpenInside
<1> QED
  BY <1>1, <1>4 DEF PoolInv, OpenInside

(* Every step keeps the types. *)
LEMMA TypeStep == ASSUME PoolInv, [Next]_vars PROVE TypeOK'
<1> USE ThreadsAssumption, TransactionsAssumption, BoundsAssumption
   DEF PoolInv, TypeOK, Owners, Busy, Transactions, Connections, Threads, threadVars,
       serverVars
<1>1. ASSUME NEW t \in Queued \cup Singles, Post(t) PROVE TypeOK'
  BY <1>1 DEF Post
<1>2. ASSUME NEW e \in Callers, NEW c \in Synch, NEW t \in Directs, DirectCommit(e, c, t)
      PROVE  TypeOK'
  BY <1>2 DEF DirectCommit, Begin, LockIfReady
<1>3. ASSUME NEW w \in Workers, TakeTask(w) PROVE TypeOK'
  BY <1>3 DEF TakeTask, Begin
<1>4. ASSUME NEW e \in Threads, BeginTransaction(e) PROVE TypeOK'
  BY <1>4 DEF BeginTransaction
<1>5. ASSUME NEW e \in Threads, ExecuteStatement(e) PROVE TypeOK'
  <2>1. /\ conn[e] \in Connections
        /\ task[e] \in Transactions
        /\ at[e] \in Nat
        /\ pc[e] = "statement"
    BY <1>5 DEF ExecuteStatement
  <2> DEFINE s == <<task[e], at[e]>>
  <2>2. /\ Append(work[conn[e]], s) \in Seq(Transactions \X Nat)
        /\ Append(log, s) \in Seq(Transactions \X Nat)
    BY <2>1
  <2>3. log' \in Seq(Transactions \X Nat)
    BY <1>5, <2>2 DEF ExecuteStatement
  <2>4. work' \in [Connections -> Seq(Transactions \X Nat)]
    <3>1. CASE open[conn[e]]
      <4>1. work' = [work EXCEPT ![conn[e]] = Append(@, <<task[e], at[e]>>)]
        BY <1>5, <3>1 DEF ExecuteStatement
      <4> QED
        BY <4>1, <2>1, <2>2
    <3>2. CASE ~open[conn[e]]
      BY <1>5, <3>2 DEF ExecuteStatement
    <3> QED
      BY <3>1, <3>2
  <2>5. UNCHANGED <<pool, queue, open, losses, posted>>
    BY <1>5 DEF ExecuteStatement
  <2>6. CASE task[e] \in Singles
    <3>1. Finish(e, "done")
      BY <1>5, <2>6 DEF ExecuteStatement
    <3> QED
      BY <2>1, <2>3, <2>4, <2>5, <3>1 DEF Finish
  <2>7. CASE task[e] \notin Singles
    <3>1. /\ at' = [at EXCEPT ![e] = @ + 1]
          /\ pc' = [pc EXCEPT ![e] = IF at[e] < Size[task[e]] THEN "statement" ELSE "commit"]
          /\ UNCHANGED <<task, conn, tries, code, deadlockLock, answer>>
      BY <1>5, <2>7 DEF ExecuteStatement
    <3>2. at' \in [Threads -> Nat]
      BY <3>1, <2>1
    <3>3. pc' \in [Threads -> {"idle", "begin", "statement", "rollback", "commit", "failed", "dead"}]
      BY <3>1, <2>1
    <3> QED
      BY <2>3, <2>4, <2>5, <3>1, <3>2, <3>3
  <2> QED
    BY <2>6, <2>7
<1>6. ASSUME NEW e \in Threads, RollbackTransaction(e) PROVE TypeOK'
  BY <1>6 DEF RollbackTransaction
<1>7. ASSUME NEW e \in Threads, CommitTransaction(e) PROVE TypeOK'
  BY <1>7 DEF CommitTransaction, Finish
<1>8. ASSUME NEW e \in Threads, NEW err \in {"deadlock", "error"}, StatementFails(e, err)
      PROVE  TypeOK'
  <2>1. conn[e] \in Connections /\ task[e] \in Transactions /\ at[e] \in Nat
    BY <1>8 DEF StatementFails
  <2>2. /\ open' \in [Connections -> BOOLEAN]
        /\ work' \in [Connections -> Seq(Transactions \X Nat)]
    <3>1. CASE err = "deadlock"
      <4>1. /\ work' = [work EXCEPT ![conn[e]] = <<>>]
            /\ open' = [open EXCEPT ![conn[e]] = FALSE]
        BY <1>8, <3>1 DEF StatementFails
      <4> QED
        BY <4>1, <2>1
    <3>2. CASE err # "deadlock"
      BY <1>8, <3>2 DEF StatementFails
    <3> QED
      BY <3>1, <3>2
  <2>3. UNCHANGED <<pool, queue, log, losses, posted>>
    BY <1>8 DEF StatementFails
  <2>4. CASE task[e] \in Singles
    <3>1. Finish(e, "failed")
      BY <1>8, <2>4 DEF StatementFails
    <3> QED
      BY <2>1, <2>2, <2>3, <3>1 DEF Finish
  <2>5. CASE task[e] \notin Singles
    <3>1. /\ code' = [code EXCEPT ![e] = err]
          /\ pc' = [pc EXCEPT ![e] = "rollback"]
          /\ UNCHANGED <<task, conn, at, tries, deadlockLock, answer>>
      BY <1>8, <2>5 DEF StatementFails
    <3> QED
      BY <2>1, <2>2, <2>3, <3>1
  <2> QED
    BY <2>4, <2>5
<1>9. ASSUME NEW e \in Threads, GiveUp(e) PROVE TypeOK'
  BY <1>9 DEF GiveUp, Finish
<1>10. ASSUME NEW w \in Workers, LockDeadlock(w) PROVE TypeOK'
  BY <1>10 DEF LockDeadlock, TryAgain
<1>11. ASSUME NEW w \in Workers, RetryAsync(w) PROVE TypeOK'
  BY <1>11 DEF RetryAsync, TryAgain
<1>12. ASSUME NEW e \in Callers, RetryDirect(e) PROVE TypeOK'
  BY <1>12 DEF RetryDirect, TryAgain
<1>13. ASSUME NEW e \in Threads, Reconnect(e) PROVE TypeOK'
  <2>1. conn[e] \in Connections /\ task[e] \in Transactions /\ at[e] \in Nat
    BY <1>13 DEF Reconnect, Executing
  <2>2. /\ <<task[e], at[e]>> \in Transactions \X Nat
        /\ work[conn[e]] \in Seq(Transactions \X Nat)
    BY <2>1
  <2>3. log \o work[conn[e]] \in Seq(Transactions \X Nat)
        /\ Append(log, <<task[e], at[e]>>) \in Seq(Transactions \X Nat)
    BY <2>2
  <2>4. log' \in {log, log \o work[conn[e]], Append(log, <<task[e], at[e]>>)}
    BY <1>13 DEF Reconnect, LostOutcomes
  <2>5. log' \in Seq(Transactions \X Nat)
    BY <2>3, <2>4
  <2> QED
    BY <1>13, <2>1, <2>5 DEF Reconnect, Executing
<1>14. ASSUME NEW e \in Threads, Abort(e) PROVE TypeOK'
  <2>1. conn[e] \in Connections /\ task[e] \in Transactions /\ at[e] \in Nat
    BY <1>14 DEF Abort, Executing
  <2>2. /\ <<task[e], at[e]>> \in Transactions \X Nat
        /\ work[conn[e]] \in Seq(Transactions \X Nat)
    BY <2>1
  <2>3. log \o work[conn[e]] \in Seq(Transactions \X Nat)
        /\ Append(log, <<task[e], at[e]>>) \in Seq(Transactions \X Nat)
    BY <2>2
  <2>4. log' \in {log, log \o work[conn[e]], Append(log, <<task[e], at[e]>>)}
    BY <1>14 DEF Abort, LostOutcomes
  <2>5. log' \in Seq(Transactions \X Nat)
    BY <2>3, <2>4
  <2> QED
    BY <1>14, <2>1, <2>5 DEF Abort, Executing
<1>15. CASE StopContext
  BY <1>15 DEF StopContext
<1>16. CASE CloseConnections
  BY <1>16 DEF CloseConnections
<1>17. CASE Terminated \/ UNCHANGED vars
  BY <1>17 DEF Terminated, vars
<1> HIDE DEF TypeOK
<1> QED
  BY <1>1, <1>2, <1>3, <1>4, <1>5, <1>6, <1>7, <1>8, <1>9, <1>10, <1>11, <1>12, <1>13,
     <1>14, <1>15, <1>16, <1>17
  DEF Next, WorkerStep, CallerStep, Execution

(* No step gives a connection to two threads, or begins a transaction      *)
(* without one.                                                            *)
LEMMA OwnersStep == ASSUME PoolInv, [Next]_vars PROVE Owners'
<1> USE ThreadsAssumption, TransactionsAssumption, BoundsAssumption
   DEF PoolInv, TypeOK, Owners, Busy, Transactions, Connections, Threads, threadVars,
       serverVars
<1>1. ASSUME NEW t \in Queued \cup Singles, Post(t) PROVE Owners'
  BY <1>1 DEF Post
<1>2. ASSUME NEW e \in Callers, NEW c \in Synch, NEW t \in Directs, DirectCommit(e, c, t)
      PROVE  Owners'
  BY <1>2 DEF DirectCommit, Begin, LockIfReady
<1>3. ASSUME NEW w \in Workers, TakeTask(w) PROVE Owners'
  BY <1>3 DEF TakeTask, Begin
<1>4. ASSUME NEW e \in Threads, BeginTransaction(e) PROVE Owners'
  BY <1>4 DEF BeginTransaction
<1>5. ASSUME NEW e \in Threads, ExecuteStatement(e) PROVE Owners'
  <2>1. /\ conn[e] \in Connections
        /\ task[e] \in Transactions
        /\ at[e] \in Nat
        /\ pc[e] = "statement"
    BY <1>5 DEF ExecuteStatement
  <2>2. UNCHANGED pool
    BY <1>5 DEF ExecuteStatement
  <2>3. CASE task[e] \in Singles
    <3>1. Finish(e, "done")
      BY <1>5, <2>3 DEF ExecuteStatement
    <3> QED
      BY <2>1, <2>2, <3>1 DEF Finish
  <2>4. CASE task[e] \notin Singles
    <3>1. /\ pc' = [pc EXCEPT ![e] = IF at[e] < Size[task[e]] THEN "statement" ELSE "commit"]
          /\ UNCHANGED <<task, conn>>
      BY <1>5, <2>4 DEF ExecuteStatement
    <3> QED
      BY <2>1, <2>2, <2>4, <3>1
  <2> QED
    BY <2>3, <2>4
<1>6. ASSUME NEW e \in Threads, RollbackTransaction(e) PROVE Owners'
  BY <1>6 DEF RollbackTransaction
<1>7. ASSUME NEW e \in Threads, CommitTransaction(e) PROVE Owners'
  BY <1>7 DEF CommitTransaction, Finish
<1>8. ASSUME NEW e \in Threads, NEW err \in {"deadlock", "error"}, StatementFails(e, err)
      PROVE  Owners'
  <2>1. /\ conn[e] \in Connections
        /\ task[e] \in Transactions
        /\ at[e] \in Nat
        /\ pc[e] = "statement"
    BY <1>8 DEF StatementFails
  <2>2. UNCHANGED pool
    BY <1>8 DEF StatementFails
  <2>3. CASE task[e] \in Singles
    <3>1. Finish(e, "failed")
      BY <1>8, <2>3 DEF StatementFails
    <3> QED
      BY <2>1, <2>2, <3>1 DEF Finish
  <2>4. CASE task[e] \notin Singles
    <3>1. pc' = [pc EXCEPT ![e] = "rollback"] /\ UNCHANGED <<task, conn>>
      BY <1>8, <2>4 DEF StatementFails
    <3> QED
      BY <2>1, <2>2, <2>4, <3>1
  <2> QED
    BY <2>3, <2>4
<1>9. ASSUME NEW e \in Threads, GiveUp(e) PROVE Owners'
  BY <1>9 DEF GiveUp, Finish
<1>10. ASSUME NEW w \in Workers, LockDeadlock(w) PROVE Owners'
  BY <1>10 DEF LockDeadlock, TryAgain
<1>11. ASSUME NEW w \in Workers, RetryAsync(w) PROVE Owners'
  BY <1>11 DEF RetryAsync, TryAgain
<1>12. ASSUME NEW e \in Callers, RetryDirect(e) PROVE Owners'
  BY <1>12 DEF RetryDirect, TryAgain
<1>13. ASSUME NEW e \in Threads, Reconnect(e) PROVE Owners'
  BY <1>13 DEF Reconnect, LostOutcomes, Executing
<1>14. ASSUME NEW e \in Threads, Abort(e) PROVE Owners'
  BY <1>14 DEF Abort, LostOutcomes, Executing
<1>15. CASE StopContext
  BY <1>15 DEF StopContext
<1>16. CASE CloseConnections
  BY <1>16 DEF CloseConnections
<1>17. CASE Terminated \/ UNCHANGED vars
  BY <1>17 DEF Terminated, vars
<1> QED
  BY <1>1, <1>2, <1>3, <1>4, <1>5, <1>6, <1>7, <1>8, <1>9, <1>10, <1>11, <1>12, <1>13,
     <1>14, <1>15, <1>16, <1>17
  DEF Next, WorkerStep, CallerStep, Execution

(* Every step that ends a transaction closes it at the server.             *)
LEMMA OpenStep == ASSUME PoolInv, [Next]_vars PROVE OpenInside'
<1> USE ThreadsAssumption, TransactionsAssumption, BoundsAssumption
   DEF PoolInv, TypeOK, Owners, Busy, Inside, OpenInside, Transactions, Connections,
       Threads, threadVars, serverVars
<1>1. ASSUME NEW t \in Queued \cup Singles, Post(t) PROVE OpenInside'
  BY <1>1 DEF Post
<1>2. ASSUME NEW e \in Callers, NEW c \in Synch, NEW t \in Directs, DirectCommit(e, c, t)
      PROVE  OpenInside'
  BY <1>2 DEF DirectCommit, Begin, LockIfReady
<1>3. ASSUME NEW w \in Workers, TakeTask(w) PROVE OpenInside'
  BY <1>3 DEF TakeTask, Begin
<1>4. ASSUME NEW e \in Threads, BeginTransaction(e) PROVE OpenInside'
  BY <1>4 DEF BeginTransaction
<1>5. ASSUME NEW e \in Threads, ExecuteStatement(e) PROVE OpenInside'
  <2>1. /\ conn[e] \in Connections
        /\ task[e] \in Transactions
        /\ at[e] \in Nat
        /\ pc[e] = "statement"
    BY <1>5 DEF ExecuteStatement
  <2>2. UNCHANGED open
    BY <1>5 DEF ExecuteStatement
  <2>3. CASE task[e] \in Singles
    <3>1. Finish(e, "done")
      BY <1>5, <2>3 DEF ExecuteStatement
    <3>2. ~open[conn[e]] /\ work[conn[e]] = <<>>
      BY <2>1, <2>3, SingleOutside
    <3>3. UNCHANGED work
      BY <1>5, <3>2 DEF ExecuteStatement
    <3> QED
      BY <2>1, <2>2, <2>3, <3>1, <3>2, <3>3 DEF Finish
  <2>4. CASE task[e] \notin Singles
    <3>1. /\ pc' = [pc EXCEPT ![e] = IF at[e] < Size[task[e]] THEN "statement" ELSE "commit"]
          /\ UNCHANGED <<task, conn>>
      BY <1>5, <2>4 DEF ExecuteStatement
    <3>2. \A c \in Connections : ~open[c] => work'[c] = <<>>
      BY <1>5 DEF ExecuteStatement
    <3> QED
      BY <2>1, <2>2, <2>4, <3>1, <3>2
  <2> QED
    BY <2>3, <2>4
<1>6. ASSUME NEW e \in Threads, RollbackTransaction(e) PROVE OpenInside'
  BY <1>6 DEF RollbackTransaction
<1>7. ASSUME NEW e \in Threads, CommitTransaction(e) PROVE OpenInside'
  BY <1>7 DEF CommitTransaction, Finish
<1>8. ASSUME NEW e \in Threads, NEW err \in {"deadlock", "error"}, StatementFails(e, err)
      PROVE  OpenInside'
  <2>1. /\ conn[e] \in Connections
        /\ task[e] \in Transactions
        /\ at[e] \in Nat
        /\ pc[e] = "statement"
    BY <1>8 DEF StatementFails
  <2>2. \/ open' = open /\ work' = work
        \/ open' = [open EXCEPT ![conn[e]] = FALSE] /\ work' = [work EXCEPT ![conn[e]] = <<>>]
    BY <1>8 DEF StatementFails
  <2>3. CASE task[e] \in Singles
    <3>1. Finish(e, "failed")
      BY <1>8, <2>3 DEF StatementFails
    <3>2. ~open[conn[e]] /\ work[conn[e]] = <<>>
      BY <2>1, <2>3, SingleOutside
    <3>3. pc' = [pc EXCEPT ![e] = "idle"] /\ task' = [task EXCEPT ![e] = None]
          /\ conn' = [conn EXCEPT ![e] = IF e \in Workers THEN e ELSE None]
      BY <3>1 DEF Finish
    <3>4. \A c \in Connections : (open'[c] => open[c]) /\ (~open'[c] => work'[c] = <<>>)
      <4>1. CASE open' = open /\ work' = work
        BY <4>1
      <4>2. CASE /\ open' = [open EXCEPT ![conn[e]] = FALSE]
                 /\ work' = [work EXCEPT ![conn[e]] = <<>>]
        BY <4>2, <2>1, <3>2
      <4> QED
        BY <4>1, <4>2, <2>2
    <3> QED
      BY <2>1, <2>3, <3>2, <3>3, <3>4
  <2>4. CASE task[e] \notin Singles
    <3>1. pc' = [pc EXCEPT ![e] = "rollback"] /\ UNCHANGED <<task, conn>>
      BY <1>8, <2>4 DEF StatementFails
    <3>2. CASE open' = open /\ work' = work
      BY <2>1, <2>4, <3>1, <3>2
    <3>3. CASE /\ open' = [open EXCEPT ![conn[e]] = FALSE]
               /\ work' = [work EXCEPT ![conn[e]] = <<>>]
      BY <2>1, <2>4, <3>1, <3>3
    <3> QED
      BY <2>2, <3>2, <3>3
  <2> QED
    BY <2>3, <2>4
<1>9. ASSUME NEW e \in Threads, GiveUp(e) PROVE OpenInside'
  BY <1>9 DEF GiveUp, Finish
<1>10. ASSUME NEW w \in Workers, LockDeadlock(w) PROVE OpenInside'
  BY <1>10 DEF LockDeadlock, TryAgain
<1>11. ASSUME NEW w \in Workers, RetryAsync(w) PROVE OpenInside'
  BY <1>11 DEF RetryAsync, TryAgain
<1>12. ASSUME NEW e \in Callers, RetryDirect(e) PROVE OpenInside'
  BY <1>12 DEF RetryDirect, TryAgain
<1>13. ASSUME NEW e \in Threads, Reconnect(e) PROVE OpenInside'
  <2>1. conn[e] \in Connections /\ task[e] \in Transactions /\ at[e] \in Nat
    BY <1>13 DEF Reconnect, Executing
  <2>2. /\ open' = [open EXCEPT ![conn[e]] = FALSE]
        /\ work' = [work EXCEPT ![conn[e]] = <<>>]
        /\ UNCHANGED <<task, conn, pc>>
    BY <1>13 DEF Reconnect
  <2> QED
    BY <1>13, <2>1, <2>2
<1>14. ASSUME NEW e \in Threads, Abort(e) PROVE OpenInside'
  <2>1. conn[e] \in Connections /\ task[e] \in Transactions /\ at[e] \in Nat
    BY <1>14 DEF Abort, Executing
  <2>2. open' = [c \in Connections |-> FALSE] /\ work' = [c \in Connections |-> <<>>]
    BY <1>14 DEF Abort
  <2> QED
    BY <1>14, <2>1, <2>2
<1>15. CASE StopContext
  BY <1>15 DEF StopContext
<1>16. CASE CloseConnections
  BY <1>16 DEF CloseConnections
<1>17. CASE Terminated \/ UNCHANGED vars
  <2>1. UNCHANGED <<pc, task, conn, open, work>>
    BY <1>17 DEF Terminated, vars
  <2> QED
    BY <2>1
<1> HIDE DEF OpenInside
<1> QED
  BY <1>1, <1>2, <1>3, <1>4, <1>5, <1>6, <1>7, <1>8, <1>9, <1>10, <1>11, <1>12, <1>13,
     <1>14, <1>15, <1>16, <1>17
  DEF Next, WorkerStep, CallerStep, Execution

(* What a statement, a COMMIT or a lost answer does to the log.            *)
LEMMA LogGrows ==
  ASSUME PoolInv, Traces, NEW e \in Threads, Busy(e),
         log' \in {log, log \o work[conn[e]], Append(log, <<task[e], at[e]>>)}
  PROVE  Appended(task[e])
<1>1. /\ conn[e] \in Connections /\ conn[e] # None
      /\ log \in Seq(Transactions \X Nat) /\ work[conn[e]] \in Seq(Transactions \X Nat)
      /\ <<task[e], at[e]>> \in Transactions \X Nat
  BY DEF PoolInv, TypeOK, Owners
<1>2. \A k \in 1 .. Len(work[conn[e]]) : work[conn[e]][k][1] = task[e]
  <2> DEFINE u == work[conn[e]]
  <2>1. DOMAIN u = 1 .. Len(u)
    BY <1>1, LenProperties
  <2>2. \A k \in DOMAIN u : u[k][1] = task[e]
    BY <1>1 DEF Traces
  <2> QED
    BY <2>1, <2>2
<1>3. CASE log' = log
  BY <1>1, <1>3 DEF Appended
<1>4. CASE log' = log \o work[conn[e]]
  <2> DEFINE u == work[conn[e]]
  <2>1. /\ u \in Seq(Transactions \X Nat)
        /\ \A k \in 1 .. Len(u) : u[k][1] = task[e]
    BY <1>1, <1>2
  <2> HIDE DEF u
  <2>2. /\ Len(log') = Len(log) + Len(u)
        /\ \A i \in 1 .. Len(log) + Len(u) :
              log'[i] = IF i <= Len(log) THEN log[i] ELSE u[i - Len(log)]
    BY <1>1, <1>4, <2>1, ConcatProperties DEF u
  <2>3. Len(log) \in Nat /\ Len(u) \in Nat
    BY <1>1, <2>1
  <2>4. \A k \in 1 .. Len(log) : log'[k] = log[k]
    BY <2>2, <2>3
  <2>5. ASSUME NEW k \in (Len(log) + 1) .. Len(log') PROVE log'[k][1] = task[e]
    <3>1. k - Len(log) \in 1 .. Len(u) /\ log'[k] = u[k - Len(log)]
      BY <2>2, <2>3
    <3> QED
      BY <2>1, <3>1
  <2> QED
    BY <2>2, <2>3, <2>4, <2>5 DEF Appended
<1>5. CASE log' = Append(log, <<task[e], at[e]>>)
  BY <1>1, <1>5 DEF Appended
<1> QED
  BY <1>3, <1>4, <1>5

(* Every step is one of the moves. *)
LEMMA Moves == ASSUME PoolInv, Traces, [Next]_vars PROVE Move
<1> USE ThreadsAssumption, TransactionsAssumption
    DEF Transactions, Connections, Threads, threadVars, serverVars
<1>0. TypeOK /\ Owners
  BY DEF PoolInv
<1>1. ASSUME NEW t \in Queued \cup Singles, Post(t) PROVE PostMove(t)
  <2>1. ~Known(t)
    BY <1>0, <1>1 DEF TypeOK, Post, ToSet, Known
  <2> QED
    BY <1>1, <2>1 DEF Post, PostMove
<1>2. ASSUME NEW e \in Callers, NEW c \in Synch, NEW t \in Directs, DirectCommit(e, c, t)
      PROVE  DirectMove(e, c, t)
  <2>1. ~Known(t)
    BY <1>0, <1>2 DEF TypeOK, DirectCommit, ToSet, Known
  <2>2. task[e] = None
    BY <1>0, <1>2 DEF DirectCommit, Owners
  <2>3. work[c] = <<>>
    BY <1>2 DEF DirectCommit, LockIfReady, PoolInv, OpenInside
  <2> QED
    BY <1>2, <2>1, <2>2, <2>3 DEF DirectCommit, Begin, DirectMove
<1>3. ASSUME NEW w \in Workers, TakeTask(w) PROVE TakeMove(w)
  <2>1. task[w] = None /\ conn[w] = w /\ ~Inside(w)
    BY <1>0, <1>3 DEF TakeTask, TypeOK, Owners, Inside
  <2>2. work[w] = <<>>
    BY <2>1, <1>0 DEF PoolInv, OpenInside, Owners
  <2> QED
    BY <1>3, <2>1, <2>2 DEF TakeTask, Begin, TakeMove
<1>4. ASSUME NEW e \in Threads, BeginTransaction(e) PROVE ExecuteMove(e)
  <2>1. Busy(e) /\ task[e] # None /\ conn[e] \in Connections
    BY <1>0, <1>4 DEF BeginTransaction, Busy, Owners, TypeOK
  <2>2. Appended(task[e])
    BY <1>4, <2>1, LogGrows DEF BeginTransaction
  <2> QED
    BY <1>0, <1>4, <2>1, <2>2 DEF BeginTransaction, ExecuteMove, TypeOK
<1>5. ASSUME NEW e \in Threads, ExecuteStatement(e)
      PROVE  ExecuteMove(e) \/ FinishMove(e, "done")
  <2>1. Busy(e) /\ task[e] # None /\ conn[e] \in Connections
    BY <1>0, <1>5 DEF ExecuteStatement, Busy, Owners, TypeOK
  <2>2. Appended(task[e])
    BY <1>5, <2>1, LogGrows DEF ExecuteStatement
  <2>3. CASE task[e] \in Singles
    <3>1. Finish(e, "done") /\ UNCHANGED <<queue, posted>>
      BY <1>5, <2>3 DEF ExecuteStatement
    <3>2. work' = work /\ work[conn[e]] = <<>>
      BY <1>5, <2>1, <2>3, SingleOutside DEF ExecuteStatement
    <3> QED
      BY <2>1, <2>2, <3>1, <3>2 DEF Finish, FinishMove
  <2>4. CASE task[e] \notin Singles
    <3>1. UNCHANGED <<posted, task, conn, answer, queue>>
      BY <1>5, <2>4 DEF ExecuteStatement
    <3>2. \A c \in Connections : \A k \in DOMAIN work'[c] :
             \/ k \in DOMAIN work[c] /\ work'[c][k] = work[c][k]
             \/ c = conn[e] /\ work'[c][k][1] = task[e]
      <4>1. /\ work[conn[e]] \in Seq(Transactions \X Nat)
            /\ work \in [Connections -> Seq(Transactions \X Nat)]
        BY <1>0, <2>1 DEF TypeOK
      <4>2. \/ work' = work
            \/ work' = [work EXCEPT ![conn[e]] = Append(@, <<task[e], at[e]>>)]
        BY <1>5 DEF ExecuteStatement
      <4>3. ASSUME NEW c \in Connections, NEW k \in DOMAIN Append(work[c], <<task[e], at[e]>>)
            PROVE  \/ /\ k \in DOMAIN work[c]
                      /\ Append(work[c], <<task[e], at[e]>>)[k] = work[c][k]
                   \/ Append(work[c], <<task[e], at[e]>>)[k][1] = task[e]
        <5>1. work[c] \in Seq(Transactions \X Nat)
          BY <4>1
        <5> QED
          BY <5>1
      <4> HIDE DEF Connections, Transactions, Threads
      <4>4. CASE work' = work
        BY <4>4
      <4>5. CASE work' = [work EXCEPT ![conn[e]] = Append(@, <<task[e], at[e]>>)]
        <5>1. \A c \in Connections :
                 work'[c] = IF c = conn[e] THEN Append(work[c], <<task[e], at[e]>>) ELSE work[c]
          BY <4>1, <4>5, <2>1
        <5>2. ASSUME NEW c \in Connections, NEW k \in DOMAIN work'[c], c = conn[e]
              PROVE  \/ k \in DOMAIN work[c] /\ work'[c][k] = work[c][k]
                     \/ work'[c][k][1] = task[e]
          <6>1. work'[c] = Append(work[c], <<task[e], at[e]>>)
            BY <5>1, <5>2
          <6> QED
            BY <5>2, <6>1, <4>3
        <5>3. ASSUME NEW c \in Connections, NEW k \in DOMAIN work'[c], c # conn[e]
              PROVE  k \in DOMAIN work[c] /\ work'[c][k] = work[c][k]
          BY <5>1, <5>3
        <5> QED
          BY <5>2, <5>3
      <4> QED
        BY <4>2, <4>4, <4>5
    <3> QED
      BY <2>1, <2>2, <3>1, <3>2 DEF ExecuteMove
  <2> QED
    BY <2>3, <2>4
<1>6. ASSUME NEW e \in Threads, RollbackTransaction(e) PROVE ExecuteMove(e)
  <2>1. Busy(e) /\ task[e] # None /\ conn[e] \in Connections
    BY <1>0, <1>6 DEF RollbackTransaction, Busy, Owners, TypeOK
  <2>2. Appended(task[e])
    BY <1>6, <2>1, LogGrows DEF RollbackTransaction
  <2> QED
    BY <1>0, <1>6, <2>1, <2>2 DEF RollbackTransaction, ExecuteMove, TypeOK
<1>7. ASSUME NEW e \in Threads, CommitTransaction(e) PROVE FinishMove(e, "done")
  <2>1. Busy(e) /\ task[e] # None /\ conn[e] \in Connections
    BY <1>0, <1>7 DEF CommitTransaction, Busy, Owners, TypeOK
  <2>2. Appended(task[e])
    BY <1>7, <2>1, LogGrows DEF CommitTransaction
  <2> QED
    BY <1>0, <1>7, <2>1, <2>2 DEF CommitTransaction, Finish, FinishMove, TypeOK
<1>8. ASSUME NEW e \in Threads, NEW err \in {"deadlock", "error"}, StatementFails(e, err)
      PROVE  ExecuteMove(e) \/ FinishMove(e, "failed")
  <2>1. Busy(e) /\ task[e] # None /\ conn[e] \in Connections
    BY <1>0, <1>8 DEF StatementFails, Busy, Owners, TypeOK
  <2>2. Appended(task[e])
    BY <1>8, <2>1, LogGrows DEF StatementFails
  <2>3. work' = work \/ work' = [work EXCEPT ![conn[e]] = <<>>]
    BY <1>8 DEF StatementFails
  <2>4. CASE task[e] \in Singles
    <3>1. Finish(e, "failed") /\ UNCHANGED <<queue, posted>>
      BY <1>8, <2>4 DEF StatementFails
    <3>2. work[conn[e]] = <<>>
      BY <2>1, <2>4, SingleOutside
    <3> QED
      BY <1>0, <2>1, <2>2, <2>3, <3>1, <3>2 DEF Finish, FinishMove, TypeOK
  <2>5. CASE task[e] \notin Singles
    <3>1. UNCHANGED <<posted, task, conn, answer, queue>>
      BY <1>8, <2>5 DEF StatementFails
    <3> QED
      BY <1>0, <2>1, <2>2, <2>3, <3>1 DEF ExecuteMove, TypeOK
  <2> QED
    BY <2>4, <2>5
<1>9. ASSUME NEW e \in Threads, GiveUp(e) PROVE FinishMove(e, "failed")
  <2>1. Busy(e) /\ task[e] # None /\ conn[e] \in Connections
    BY <1>0, <1>9 DEF GiveUp, Busy, Owners, TypeOK
  <2>2. Appended(task[e])
    BY <1>9, <2>1, LogGrows DEF GiveUp
  <2>3. work[conn[e]] = <<>>
    BY <1>0, <1>9, <2>1 DEF GiveUp, PoolInv, OpenInside, Inside, Owners
  <2> QED
    BY <1>0, <1>9, <2>1, <2>2, <2>3 DEF GiveUp, Finish, FinishMove, TypeOK
<1>10. ASSUME NEW e \in Threads, Reconnect(e) PROVE ExecuteMove(e)
  <2>1. Busy(e) /\ task[e] # None /\ conn[e] \in Connections
    BY <1>0, <1>10 DEF Reconnect, Executing, Busy, Owners, TypeOK
  <2>2. log' \in {log, log \o work[conn[e]], Append(log, <<task[e], at[e]>>)}
    BY <1>10 DEF Reconnect, LostOutcomes
  <2>3. Appended(task[e])
    BY <2>1, <2>2, LogGrows
  <2> QED
    BY <1>0, <1>10, <2>1, <2>3 DEF Reconnect, ExecuteMove, TypeOK
<1>11. ASSUME NEW e \in Threads, Abort(e) PROVE ExecuteMove(e)
  <2>1. Busy(e) /\ task[e] # None /\ conn[e] \in Connections
    BY <1>0, <1>11 DEF Abort, Executing, Busy, Owners, TypeOK
  <2>2. log' \in {log, log \o work[conn[e]], Append(log, <<task[e], at[e]>>)}
    BY <1>11 DEF Abort, LostOutcomes
  <2>3. Appended(task[e])
    BY <2>1, <2>2, LogGrows
  <2> QED
    BY <1>0, <1>11, <2>1, <2>3 DEF Abort, ExecuteMove, TypeOK
<1>12. ASSUME NEW w \in Workers, LockDeadlock(w) \/ RetryAsync(w) PROVE OtherMove
  BY <1>12 DEF LockDeadlock, RetryAsync, TryAgain, OtherMove
<1>13. ASSUME NEW e \in Callers, RetryDirect(e) PROVE OtherMove
  BY <1>13 DEF RetryDirect, TryAgain, OtherMove
<1>14. ASSUME StopContext \/ CloseConnections \/ Terminated \/ UNCHANGED vars
       PROVE  OtherMove
  <2>1. CASE StopContext
    BY <2>1 DEF StopContext, OtherMove
  <2>2. CASE CloseConnections
    BY <2>2 DEF CloseConnections, OtherMove
  <2>3. CASE Terminated \/ UNCHANGED vars
    BY <2>3 DEF Terminated, vars, OtherMove
  <2> QED
    BY <1>14, <2>1, <2>2, <2>3
<1> QED
  BY <1>1, <1>2, <1>3, <1>4, <1>5, <1>6, <1>7, <1>8, <1>9, <1>10, <1>11, <1>12, <1>13,
     <1>14
  DEF Next, WorkerStep, CallerStep, Execution, Move

(* The invariant is inductive. *)
LEMMA PoolStep == ASSUME PoolInv, [Next]_vars PROVE PoolInv'
BY TypeStep, OwnersStep, OpenStep DEF PoolInv

(* No move puts a transaction in two places or answers it twice.           *)
LEMMA RequestsStep ==
  ASSUME PoolInv, Requests, Traces, [Next]_vars
  PROVE  Requests'
<1>1. Move /\ PoolInv'
  BY Moves, PoolStep
<1>2. TypeOK /\ Owners /\ TypeOK' /\ Owners'
  BY <1>1 DEF PoolInv
<1> USE ThreadsAssumption, TransactionsAssumption, <1>2
    DEF Transactions, Threads
<1>3. ASSUME NEW t \in Queued \cup Singles, PostMove(t) PROVE Requests'
  <2>1. /\ posted \in Seq(Transactions)
        /\ t \in Transactions
        /\ posted' = Append(posted, t)
    BY <1>3 DEF PostMove, TypeOK
  <2>2. /\ DOMAIN posted = 1 .. Len(posted) /\ DOMAIN posted' = 1 .. (Len(posted) + 1)
        /\ \A i \in DOMAIN posted : posted'[i] = posted[i]
        /\ posted'[Len(posted) + 1] = t /\ Len(posted) \in Nat
    BY <2>1, AppendProperties, LenProperties
  <2> DEFINE KnownNow(u) == \E j \in DOMAIN posted' : posted'[j] = u
  <2>3. (\A u : Known(u) => KnownNow(u)) /\ KnownNow(t)
    BY <2>2 DEF Known
  <2>4. queue \in Seq(Queued \cup Singles) /\ queue' = Append(queue, t)
    BY <1>3 DEF PostMove, TypeOK
  <2>5. /\ DOMAIN queue = 1 .. Len(queue) /\ DOMAIN queue' = 1 .. (Len(queue) + 1)
        /\ \A i \in DOMAIN queue : queue'[i] = queue[i]
        /\ queue'[Len(queue) + 1] = t /\ Len(queue) \in Nat
    BY <2>4, AppendProperties, LenProperties
  <2>6. ~Known(t) /\ UNCHANGED <<task, answer>>
    BY <1>3 DEF PostMove
  <2>7. \A i, j \in DOMAIN posted' : posted'[i] = posted'[j] => i = j
    BY <2>2, <2>6 DEF Requests, Known
  <2>8. \A i \in DOMAIN queue' : KnownNow(queue'[i]) /\ answer'[queue'[i]] = "none"
    <3>1. answer[t] = "none"
      BY <2>1, <2>6 DEF Requests, TypeOK
    <3>2. \A i \in DOMAIN queue : KnownNow(queue'[i]) /\ answer'[queue'[i]] = "none"
      BY <2>3, <2>5, <2>6 DEF Requests
    <3> HIDE DEF KnownNow
    <3> QED
      BY <2>3, <2>5, <2>6, <3>1, <3>2
  <2>9. \A i, j \in DOMAIN queue' : queue'[i] = queue'[j] => i = j
    BY <2>5, <2>6 DEF Requests
  <2>10. \A f \in Threads, i \in DOMAIN queue' : task'[f] # queue'[i]
    BY <2>5, <2>6, <2>1 DEF Requests
  <2> QED
    BY <2>3, <2>6, <2>7, <2>8, <2>9, <2>10 DEF Requests, Known
<1>4. ASSUME NEW e \in Callers, NEW c \in Synch, NEW t \in Directs, DirectMove(e, c, t)
      PROVE  Requests'
  <2>1. /\ posted \in Seq(Transactions)
        /\ t \in Transactions
        /\ posted' = Append(posted, t)
    BY <1>4 DEF DirectMove, TypeOK
  <2>2. /\ DOMAIN posted = 1 .. Len(posted) /\ DOMAIN posted' = 1 .. (Len(posted) + 1)
        /\ \A i \in DOMAIN posted : posted'[i] = posted[i]
        /\ posted'[Len(posted) + 1] = t /\ Len(posted) \in Nat
    BY <2>1, AppendProperties, LenProperties
  <2> DEFINE KnownNow(u) == \E j \in DOMAIN posted' : posted'[j] = u
  <2>3. (\A u : Known(u) => KnownNow(u)) /\ KnownNow(t)
    BY <2>2 DEF Known
  <2>4. ~Known(t) /\ UNCHANGED <<queue, answer>> /\ task' = [task EXCEPT ![e] = t]
    BY <1>4 DEF DirectMove
  <2>5. \A i, j \in DOMAIN posted' : posted'[i] = posted'[j] => i = j
    BY <2>2, <2>4 DEF Requests, Known
  <2>6. \A f \in Threads : task'[f] = IF f = e THEN t ELSE task[f]
    BY <2>4 DEF TypeOK
  <2>7. answer[t] = "none"
    BY <2>1, <2>4 DEF Requests, TypeOK
  <2>8. \A f \in Threads : task'[f] # None => KnownNow(task'[f]) /\ answer'[task'[f]] = "none"
    BY <2>3, <2>4, <2>6, <2>7 DEF Requests
  <2>9. \A f, g \in Threads : task'[f] # None /\ task'[f] = task'[g] => f = g
    BY <2>4, <2>6 DEF Requests
  <2>10. \A f \in Threads, i \in DOMAIN queue' : task'[f] # queue'[i]
    BY <2>4, <2>6 DEF Requests
  <2>11. /\ \A w \in Workers : task'[w] \in Queued \cup Singles \cup {None}
         /\ \A f \in Callers : task'[f] \in Directs \cup {None}
    BY <2>6 DEF Requests
  <2> QED
    BY <2>3, <2>4, <2>5, <2>8, <2>9, <2>10, <2>11 DEF Requests, Known
<1>5. ASSUME NEW w \in Workers, TakeMove(w) PROVE Requests'
  <2>1. queue \in Seq(Queued \cup Singles) /\ queue # <<>> /\ queue' = Tail(queue)
    BY <1>5 DEF TakeMove, TypeOK
  <2>2. /\ DOMAIN queue = 1 .. Len(queue) /\ Len(queue) \in Nat \ {0}
        /\ DOMAIN queue' = 1 .. (Len(queue) - 1)
        /\ \A i \in DOMAIN queue' : queue'[i] = queue[i + 1]
        /\ Head(queue) = queue[1]
    BY <2>1, HeadTailProperties, LenProperties, EmptySeq
  <2>3. UNCHANGED <<posted, answer>> /\ task' = [task EXCEPT ![w] = Head(queue)]
    BY <1>5 DEF TakeMove
  <2>4. \A f \in Threads : task'[f] = IF f = w THEN queue[1] ELSE task[f]
    BY <2>2, <2>3 DEF TypeOK
  <2>5. \A i \in DOMAIN queue' : i + 1 \in DOMAIN queue /\ 1 # i + 1
    BY <2>2
  <2>6. 1 \in DOMAIN queue
    BY <2>2
  <2>7. \A u : Known(u)' <=> Known(u)
    BY <2>3 DEF Known
  <2>8. \A i \in DOMAIN queue' : Known(queue'[i]) /\ answer[queue'[i]] = "none"
    BY <2>2, <2>5 DEF Requests
  <2>9. \A i, j \in DOMAIN queue' : queue'[i] = queue'[j] => i = j
    BY <2>2, <2>5 DEF Requests
  <2>10. \A f \in Threads : task'[f] # None => Known(task'[f]) /\ answer[task'[f]] = "none"
    BY <2>4, <2>6 DEF Requests
  <2>11. \A f, g \in Threads : task'[f] # None /\ task'[f] = task'[g] => f = g
    BY <2>4, <2>6 DEF Requests
  <2>12. \A f \in Threads, i \in DOMAIN queue' : task'[f] # queue'[i]
    BY <2>2, <2>4, <2>5, <2>6 DEF Requests
  <2>13. queue[1] \in Queued \cup Singles
    BY <2>1, <2>6, ElementOfSeq, <2>2
  <2>14. /\ \A v \in Workers : task'[v] \in Queued \cup Singles \cup {None}
         /\ \A f \in Callers : task'[f] \in Directs \cup {None}
    BY <2>4, <2>13 DEF Requests
  <2> QED
    BY <2>3, <2>7, <2>8, <2>9, <2>10, <2>11, <2>12, <2>14 DEF Requests
<1>6. ASSUME NEW e \in Threads, ExecuteMove(e) PROVE Requests'
  <2>1. UNCHANGED <<posted, task, answer>> /\ queue' \in {queue, <<>>}
    BY <1>6 DEF ExecuteMove
  <2>2. \A u : Known(u)' <=> Known(u)
    BY <2>1 DEF Known
  <2> QED
    BY <2>1, <2>2 DEF Requests
<1>7. ASSUME NEW e \in Threads, NEW result \in {"done", "failed"}, FinishMove(e, result)
      PROVE  Requests'
  <2>1. /\ UNCHANGED <<posted, queue>> /\ task[e] # None
        /\ task' = [task EXCEPT ![e] = None]
        /\ answer' = [answer EXCEPT ![task[e]] = result]
    BY <1>7 DEF FinishMove
  <2>2. \A u : Known(u)' <=> Known(u)
    BY <2>1 DEF Known
  <2>3. \A f \in Threads : task'[f] = IF f = e THEN None ELSE task[f]
    BY <2>1 DEF TypeOK
  <2>4. \A u \in Transactions : answer'[u] = IF u = task[e] THEN result ELSE answer[u]
    BY <2>1 DEF TypeOK
  <2>5. \A u \in Transactions : answer'[u] # "none" => Known(u)
    BY <2>1, <2>4 DEF Requests
  <2>6. \A i \in DOMAIN queue : answer'[queue[i]] = "none"
    <3>1. \A i \in DOMAIN queue : queue[i] \in Transactions
      BY DEF TypeOK, Transactions
    <3> QED
      BY <2>4, <3>1 DEF Requests
  <2>7. \A f \in Threads : task'[f] # None => answer'[task'[f]] = "none"
    BY <2>1, <2>3, <2>4 DEF Requests, TypeOK
  <2>8. /\ \A f \in Threads : task'[f] # None => Known(task'[f])
        /\ \A f, g \in Threads : task'[f] # None /\ task'[f] = task'[g] => f = g
        /\ \A f \in Threads, i \in DOMAIN queue : task'[f] # queue[i]
        /\ \A v \in Workers : task'[v] \in Queued \cup Singles \cup {None}
        /\ \A f \in Callers : task'[f] \in Directs \cup {None}
    <3>1. \A i \in DOMAIN queue : queue[i] # None
      BY DEF TypeOK, Transactions
    <3> QED
      BY <2>3, <3>1 DEF Requests
  <2> QED
    BY <2>1, <2>2, <2>5, <2>6, <2>7, <2>8 DEF Requests
<1>8. CASE OtherMove
  <2>1. UNCHANGED <<posted, task, answer>> /\ queue' \in {queue, <<>>}
    BY <1>8 DEF OtherMove
  <2>2. \A u : Known(u)' <=> Known(u)
    BY <2>1 DEF Known
  <2> QED
    BY <2>1, <2>2 DEF Requests
<1> QED
  BY <1>1, <1>3, <1>4, <1>5, <1>6, <1>7, <1>8 DEF Move

(* No move leaves a trace of a transaction that was not posted, or of      *)
(* another one on the session of a thread.                                 *)
LEMMA TracesStep ==
  ASSUME PoolInv, Requests, Traces, [Next]_vars
  PROVE  Traces'
<1>1. Move /\ PoolInv'
  BY Moves, PoolStep
<1>2. TypeOK /\ Owners /\ TypeOK' /\ Owners'
  BY <1>1 DEF PoolInv
<1> USE ThreadsAssumption, TransactionsAssumption, <1>2
    DEF Transactions, Threads
<1>3. ASSUME NEW t \in Queued \cup Singles, PostMove(t) PROVE Traces'
  <2>1. /\ \A u : Known(u) => \E j \in DOMAIN posted' : posted'[j] = u
        /\ UNCHANGED <<log, work>>
    <3>1. /\ posted \in Seq(Transactions)
          /\ t \in Transactions
          /\ posted' = Append(posted, t)
      BY <1>3 DEF PostMove, TypeOK
    <3> QED
      BY <1>3, <3>1, AppendProperties, LenProperties DEF Known, PostMove
  <2>2. \A k \in DOMAIN log' : \E j \in DOMAIN posted' : posted'[j] = log'[k][1]
    BY <2>1 DEF Traces
  <2> QED
    BY <1>3, <2>1, <2>2 DEF Traces, Known, PostMove
<1>4. ASSUME NEW e \in Callers, NEW c \in Synch, NEW t \in Directs, DirectMove(e, c, t)
      PROVE  Traces'
  <2>1. /\ \A u : Known(u) => \E j \in DOMAIN posted' : posted'[j] = u
        /\ UNCHANGED <<log, work>>
    <3>1. /\ posted \in Seq(Transactions)
          /\ t \in Transactions
          /\ posted' = Append(posted, t)
      BY <1>4 DEF DirectMove, TypeOK
    <3> QED
      BY <1>4, <3>1, AppendProperties, LenProperties DEF Known, DirectMove
  <2>2. \A k \in DOMAIN log' : \E j \in DOMAIN posted' : posted'[j] = log'[k][1]
    BY <2>1 DEF Traces
  <2>3. ASSUME NEW f \in Threads, conn'[f] # None, NEW k \in DOMAIN work'[conn'[f]]
        PROVE  work'[conn'[f]][k][1] = task'[f]
    <3>1. CASE f = e
      <4>1. conn'[f] = c /\ work'[c] = <<>>
        BY <1>4, <3>1 DEF DirectMove, TypeOK
      <4> QED
        BY <2>3, <4>1
    <3>2. CASE f # e
      <4>1. conn'[f] = conn[f] /\ task'[f] = task[f]
        BY <1>4, <3>2 DEF DirectMove, TypeOK
      <4> QED
        BY <2>1, <2>3, <4>1 DEF Traces
    <3> QED
      BY <3>1, <3>2
  <2> QED
    BY <2>2, <2>3 DEF Traces, Known
<1>5. ASSUME NEW w \in Workers, TakeMove(w) PROVE Traces'
  <2>1. UNCHANGED <<posted, log, work, conn>>
    BY <1>5 DEF TakeMove
  <2>2. ASSUME NEW f \in Threads, conn[f] # None, NEW k \in DOMAIN work[conn[f]]
        PROVE  work[conn[f]][k][1] = task'[f]
    <3>1. CASE f = w
      <4>1. conn[f] = w /\ work[w] = <<>>
        BY <1>5, <3>1 DEF TakeMove, TypeOK
      <4> QED
        BY <2>2, <4>1
    <3>2. CASE f # w
      <4>1. task'[f] = task[f]
        BY <1>5, <3>2 DEF TakeMove, TypeOK
      <4> QED
        BY <2>2, <4>1 DEF Traces
    <3> QED
      BY <3>1, <3>2
  <2> QED
    BY <2>1, <2>2 DEF Traces, Known
<1>6. ASSUME NEW e \in Threads, ExecuteMove(e) PROVE Traces'
  <2>1. ASSUME NEW k \in DOMAIN log' PROVE Known(log'[k][1])
    <3>1. Appended(task[e]) /\ Known(task[e])
      BY <1>6 DEF ExecuteMove, Requests
    <3>2. DOMAIN log = 1 .. Len(log) /\ DOMAIN log' = 1 .. Len(log') /\ Len(log) \in Nat
      BY LenProperties DEF TypeOK
    <3>3. k \in 1 .. Len(log) \/ k \in (Len(log) + 1) .. Len(log')
      BY <3>1, <3>2 DEF Appended
    <3>4. CASE k \in 1 .. Len(log)
      BY <3>1, <3>2, <3>4 DEF Appended, Traces
    <3>5. CASE k \in (Len(log) + 1) .. Len(log')
      BY <3>1, <3>2, <3>5 DEF Appended
    <3> QED
      BY <3>3, <3>4, <3>5
  <2>2. UNCHANGED <<posted, task, conn>>
    BY <1>6 DEF ExecuteMove
  <2>3. ASSUME NEW f \in Threads, conn[f] # None, NEW k \in DOMAIN work'[conn[f]]
        PROVE  work'[conn[f]][k][1] = task[f]
    <3>1. conn[f] \in Connections
      BY <2>3 DEF TypeOK
    <3>2. CASE k \in DOMAIN work[conn[f]] /\ work'[conn[f]][k] = work[conn[f]][k]
      BY <2>3, <3>2 DEF Traces
    <3>3. CASE conn[f] = conn[e] /\ work'[conn[f]][k][1] = task[e]
      BY <2>3, <3>3 DEF Owners
    <3> QED
      BY <1>6, <2>3, <3>1, <3>2, <3>3 DEF ExecuteMove
  <2> QED
    BY <2>1, <2>2, <2>3 DEF Traces, Known
<1>7. ASSUME NEW e \in Threads, NEW result \in {"done", "failed"}, FinishMove(e, result)
      PROVE  Traces'
  <2>1. ASSUME NEW k \in DOMAIN log' PROVE Known(log'[k][1])
    <3>1. Appended(task[e]) /\ Known(task[e])
      BY <1>7 DEF FinishMove, Requests
    <3>2. DOMAIN log = 1 .. Len(log) /\ DOMAIN log' = 1 .. Len(log') /\ Len(log) \in Nat
      BY LenProperties DEF TypeOK
    <3>3. k \in 1 .. Len(log) \/ k \in (Len(log) + 1) .. Len(log')
      BY <3>1, <3>2 DEF Appended
    <3>4. CASE k \in 1 .. Len(log)
      BY <3>1, <3>2, <3>4 DEF Appended, Traces
    <3>5. CASE k \in (Len(log) + 1) .. Len(log')
      BY <3>1, <3>2, <3>5 DEF Appended
    <3> QED
      BY <3>3, <3>4, <3>5
  <2>2. UNCHANGED posted
    BY <1>7 DEF FinishMove
  <2>3. ASSUME NEW f \in Threads, conn'[f] # None, NEW k \in DOMAIN work'[conn'[f]]
        PROVE  work'[conn'[f]][k][1] = task'[f]
    <3>1. CASE f = e
      <4>1. e \in Workers /\ conn'[f] = conn[e] /\ conn[e] \in Connections
        BY <1>7, <2>3, <3>1 DEF FinishMove, TypeOK, Connections
      <4>2. work'[conn'[f]] = <<>>
        BY <1>7, <4>1 DEF FinishMove
      <4> QED
        BY <2>3, <4>2
    <3>2. CASE f # e
      <4>1. conn'[f] = conn[f] /\ task'[f] = task[f]
        BY <1>7, <3>2 DEF FinishMove, TypeOK
      <4>2. conn[f] \in Connections /\ conn[f] # conn[e]
        BY <2>3, <3>2, <4>1 DEF TypeOK, Owners
      <4>3. work'[conn'[f]] = work[conn[f]]
        BY <1>7, <4>1, <4>2 DEF FinishMove
      <4> QED
        BY <2>3, <4>1, <4>3 DEF Traces
    <3> QED
      BY <3>1, <3>2
  <2> QED
    BY <2>1, <2>2, <2>3 DEF Traces, Known
<1>8. CASE OtherMove
  <2>1. /\ UNCHANGED <<posted, task, conn, log>>
        /\ work' \in {work, [c \in Connections |-> <<>>]}
    BY <1>8 DEF OtherMove
  <2>2. \A f \in Threads : conn[f] # None => conn[f] \in Connections
    BY DEF TypeOK
  <2> QED
    BY <2>1, <2>2 DEF Traces, Known
<1> QED
  BY <1>1, <1>3, <1>4, <1>5, <1>6, <1>7, <1>8 DEF Move

(* With one worker thread no move breaks the order of the posts.           *)
LEMMA OrderStep ==
  ASSUME \A v, w \in Workers : v = w, PoolInv, Requests, Traces, PostedOrder, [Next]_vars
  PROVE  PostedOrder'
<1> DEFINE BeforeNow(u, v) ==
                \E i, j \in DOMAIN posted' : i < j /\ posted'[i] = u /\ posted'[j] = v
<1> DEFINE LogLog == \A k, l \in DOMAIN log' :
                        k < l /\ log'[k][1] \in Async /\ log'[l][1] \in Async /\ log'[k][1] # log'[l][1]
                           => BeforeNow(log'[k][1], log'[l][1])
           LogTask == \A w \in Workers, k \in DOMAIN log' :
                         task'[w] # None /\ log'[k][1] \in Async /\ log'[k][1] # task'[w]
                            => BeforeNow(log'[k][1], task'[w])
           LogQueue == \A k \in DOMAIN log', i \in DOMAIN queue' :
                          log'[k][1] \in Async => BeforeNow(log'[k][1], queue'[i])
           TaskQueue == \A w \in Workers, i \in DOMAIN queue' :
                           task'[w] # None => BeforeNow(task'[w], queue'[i])
           QueueQueue == \A i, j \in DOMAIN queue' :
                            i < j => BeforeNow(queue'[i], queue'[j])
<1>0. LogLog /\ LogTask /\ LogQueue /\ TaskQueue /\ QueueQueue => PostedOrder'
  BY DEF PostedOrder, Before, Async
<1>1. Move /\ PoolInv'
  BY Moves, PoolStep
<1>2. TypeOK /\ Owners /\ TypeOK' /\ Owners'
  BY <1>1 DEF PoolInv
<1> USE ThreadsAssumption, TransactionsAssumption, <1>2
    DEF Transactions, Threads
<1>3. ASSUME NEW t \in Queued \cup Singles, PostMove(t) PROVE PostedOrder'
  <2>1. /\ posted \in Seq(Transactions)
        /\ t \in Transactions
        /\ posted' = Append(posted, t)
    BY <1>3 DEF PostMove, TypeOK
  <2>2. /\ DOMAIN posted = 1 .. Len(posted) /\ DOMAIN posted' = 1 .. (Len(posted) + 1)
        /\ \A i \in DOMAIN posted : posted'[i] = posted[i]
        /\ posted'[Len(posted) + 1] = t /\ Len(posted) \in Nat
    BY <2>1, AppendProperties, LenProperties
  <2>3. /\ \A u, v : Before(u, v) => BeforeNow(u, v)
        /\ \A u : Known(u) => BeforeNow(u, t)
    BY <2>2 DEF Before, Known
  <2> HIDE DEF BeforeNow
  <2>4. queue \in Seq(Async) /\ queue' = Append(queue, t) /\ t \in Async
    BY <1>3 DEF PostMove, TypeOK, Async
  <2>5. /\ DOMAIN queue = 1 .. Len(queue) /\ DOMAIN queue' = 1 .. (Len(queue) + 1)
        /\ \A i \in DOMAIN queue : queue'[i] = queue[i]
        /\ queue'[Len(queue) + 1] = t /\ Len(queue) \in Nat
    BY <2>4, AppendProperties, LenProperties
  <2>6. UNCHANGED <<task, log>>
    BY <1>3 DEF PostMove
  <2>7. \A k \in DOMAIN log, i \in DOMAIN queue' :
           log[k][1] \in Async => BeforeNow(log[k][1], queue'[i])
    BY <2>3, <2>5 DEF PostedOrder, Traces
  <2>8. \A w \in Workers, i \in DOMAIN queue' :
           task[w] # None => BeforeNow(task[w], queue'[i])
    BY <2>3, <2>5 DEF PostedOrder, Requests, Threads
  <2>9. \A i, j \in DOMAIN queue' : i < j => BeforeNow(queue'[i], queue'[j])
    BY <2>3, <2>5 DEF PostedOrder, Requests
  <2>21. LogLog
    <3>1. \A k, l \in DOMAIN log :
             k < l /\ log[k][1] \in Async /\ log[l][1] \in Async /\ log[k][1] # log[l][1]
                => Before(log[k][1], log[l][1])
      BY DEF PostedOrder
    <3> QED
      BY <2>3, <2>6, <2>7, <2>8, <2>9, <3>1
  <2>22. LogTask
    BY <2>3, <2>6, <2>7, <2>8, <2>9 DEF PostedOrder
  <2>23. LogQueue
    BY <2>3, <2>6, <2>7, <2>8, <2>9 DEF PostedOrder
  <2>24. TaskQueue
    BY <2>3, <2>6, <2>7, <2>8, <2>9 DEF PostedOrder
  <2>25. QueueQueue
    BY <2>3, <2>6, <2>7, <2>8, <2>9 DEF PostedOrder
  <2> HIDE DEF LogLog, LogTask, LogQueue, TaskQueue, QueueQueue
  <2> QED
    BY <2>21, <2>22, <2>23, <2>24, <2>25, <1>0
<1>4. ASSUME NEW e \in Callers, NEW c \in Synch, NEW t \in Directs, DirectMove(e, c, t)
      PROVE  PostedOrder'
  <2>1. /\ posted \in Seq(Transactions)
        /\ t \in Transactions
        /\ posted' = Append(posted, t)
    BY <1>4 DEF DirectMove, TypeOK
  <2>2. /\ DOMAIN posted = 1 .. Len(posted) /\ DOMAIN posted' = 1 .. (Len(posted) + 1)
        /\ \A i \in DOMAIN posted : posted'[i] = posted[i]
        /\ posted'[Len(posted) + 1] = t /\ Len(posted) \in Nat
    BY <2>1, AppendProperties, LenProperties
  <2>3. /\ \A u, v : Before(u, v) => BeforeNow(u, v)
        /\ \A u : Known(u) => BeforeNow(u, t)
    BY <2>2 DEF Before, Known
  <2> HIDE DEF BeforeNow
  <2>4. UNCHANGED <<log, queue>> /\ \A w \in Workers : task'[w] = task[w]
    BY <1>4 DEF DirectMove, TypeOK
  <2>21. LogLog
    <3>1. \A k, l \in DOMAIN log :
             k < l /\ log[k][1] \in Async /\ log[l][1] \in Async /\ log[k][1] # log[l][1]
                => Before(log[k][1], log[l][1])
      BY DEF PostedOrder
    <3> QED
      BY <2>3, <2>4, <3>1
  <2>22. LogTask
    BY <2>3, <2>4 DEF PostedOrder
  <2>23. LogQueue
    BY <2>3, <2>4 DEF PostedOrder
  <2>24. TaskQueue
    BY <2>3, <2>4 DEF PostedOrder
  <2>25. QueueQueue
    BY <2>3, <2>4 DEF PostedOrder
  <2> HIDE DEF LogLog, LogTask, LogQueue, TaskQueue, QueueQueue
  <2> QED
    BY <2>21, <2>22, <2>23, <2>24, <2>25, <1>0
<1>5. ASSUME NEW w \in Workers, TakeMove(w) PROVE PostedOrder'
  <2>1. UNCHANGED posted
    BY <1>5 DEF TakeMove
  <2>2. \A u, v : BeforeNow(u, v) <=> Before(u, v)
    BY <2>1 DEF Before
  <2> HIDE DEF BeforeNow
  <2>3. queue \in Seq(Async) /\ queue # <<>> /\ queue' = Tail(queue)
    BY <1>5 DEF TakeMove, TypeOK, Async
  <2>4. /\ DOMAIN queue = 1 .. Len(queue) /\ Len(queue) \in Nat \ {0}
        /\ DOMAIN queue' = 1 .. (Len(queue) - 1)
        /\ \A i \in DOMAIN queue' : queue'[i] = queue[i + 1]
        /\ Head(queue) = queue[1]
    BY <2>3, HeadTailProperties, LenProperties, EmptySeq
  <2>5. \A i \in DOMAIN queue' : i + 1 \in DOMAIN queue /\ 1 < i + 1 /\ i \in Int
    BY <2>4
  <2>6. 1 \in DOMAIN queue
    BY <2>4
  <2>7. /\ UNCHANGED log
        /\ \A v \in Workers : task'[v] = queue[1]
    BY <1>5, <2>4 DEF TakeMove, TypeOK
  <2>8. \A k \in DOMAIN log : log[k][1] \in Async => Before(log[k][1], queue[1])
    BY <2>6 DEF PostedOrder
  <2>9. \A k \in DOMAIN log, i \in DOMAIN queue' :
           log[k][1] \in Async => Before(log[k][1], queue'[i])
    BY <2>4, <2>5 DEF PostedOrder
  <2>10. \A i \in DOMAIN queue' : Before(queue[1], queue'[i])
    BY <2>4, <2>5, <2>6 DEF PostedOrder
  <2>11. ASSUME NEW i \in DOMAIN queue', NEW j \in DOMAIN queue', i < j
         PROVE  Before(queue'[i], queue'[j])
    <3>1. i + 1 < j + 1
      BY <2>5, <2>11
    <3> QED
      BY <2>4, <2>5, <3>1 DEF PostedOrder
  <2>12. \A k, l \in DOMAIN log :
            k < l /\ log[k][1] \in Async /\ log[l][1] \in Async /\ log[k][1] # log[l][1]
               => Before(log[k][1], log[l][1])
    BY DEF PostedOrder
  <2>21. LogLog
    <3>1. \A k, l \in DOMAIN log :
             k < l /\ log[k][1] \in Async /\ log[l][1] \in Async /\ log[k][1] # log[l][1]
                => Before(log[k][1], log[l][1])
      BY DEF PostedOrder
    <3> QED
      BY <2>2, <2>7, <2>8, <2>9, <2>10, <2>11, <2>12, <3>1
  <2>22. LogTask
    BY <2>2, <2>7, <2>8, <2>9, <2>10, <2>11, <2>12 DEF PostedOrder
  <2>23. LogQueue
    BY <2>2, <2>7, <2>8, <2>9, <2>10, <2>11, <2>12 DEF PostedOrder
  <2>24. TaskQueue
    BY <2>2, <2>7, <2>8, <2>9, <2>10, <2>11, <2>12 DEF PostedOrder
  <2>25. QueueQueue
    BY <2>2, <2>7, <2>8, <2>9, <2>10, <2>11, <2>12 DEF PostedOrder
  <2> HIDE DEF LogLog, LogTask, LogQueue, TaskQueue, QueueQueue
  <2> QED
    BY <2>21, <2>22, <2>23, <2>24, <2>25, <1>0
<1>6. ASSUME NEW e \in Threads, ExecuteMove(e) PROVE PostedOrder'
  <2>1. UNCHANGED posted
    BY <1>6 DEF ExecuteMove
  <2>2. \A u, v : BeforeNow(u, v) <=> Before(u, v)
    BY <2>1 DEF Before
  <2> HIDE DEF BeforeNow
  <2>3. Appended(task[e]) /\ task[e] # None /\ queue' \in {queue, <<>>}
    BY <1>6 DEF ExecuteMove
  <2>4. DOMAIN log = 1 .. Len(log) /\ DOMAIN log' = 1 .. Len(log') /\ Len(log) \in Nat
        /\ Len(log') \in Nat
    BY LenProperties DEF TypeOK
  <2>5. \A k \in DOMAIN log' : \/ k \in DOMAIN log /\ log'[k] = log[k]
                               \/ k > Len(log) /\ log'[k][1] = task[e]
    <3> SUFFICES ASSUME NEW k \in DOMAIN log'
                 PROVE  \/ k \in DOMAIN log /\ log'[k] = log[k]
                        \/ k > Len(log) /\ log'[k][1] = task[e]
      OBVIOUS
    <3>1. k \in 1 .. Len(log) \/ k \in (Len(log) + 1) .. Len(log')
      BY <2>3, <2>4
    <3>2. k \in (Len(log) + 1) .. Len(log') => k > Len(log)
      BY <2>4
    <3> QED
      BY <2>3, <2>4, <3>1, <3>2 DEF Appended
  <2>6. \A w \in Workers : task'[w] \in {task[w], None}
    BY <1>6 DEF ExecuteMove, TypeOK
  <2>7. \A w \in Workers : task[w] # None /\ task[e] \in Async => w = e
    BY DEF Requests, Async
  <2>8. task[e] \in Async => e \in Workers
    BY DEF Requests, Async
  <2>9. ASSUME NEW k \in DOMAIN log', NEW l \in DOMAIN log', k < l,
               log'[k][1] \in Async, log'[l][1] \in Async, log'[k][1] # log'[l][1]
        PROVE  Before(log'[k][1], log'[l][1])
    <3>1. CASE l \in DOMAIN log /\ log'[l] = log[l]
      <4>1. k \in DOMAIN log /\ log'[k] = log[k]
        BY <2>4, <2>5, <2>9, <3>1
      <4> QED
        BY <2>9, <3>1, <4>1 DEF PostedOrder
    <3>2. CASE l > Len(log) /\ log'[l][1] = task[e]
      <4>1. k \in DOMAIN log /\ log'[k] = log[k]
        BY <2>5, <2>9, <3>2
      <4> QED
        BY <2>3, <2>8, <2>9, <3>2, <4>1 DEF PostedOrder
    <3> QED
      BY <2>5, <3>1, <3>2
  <2>10. ASSUME NEW w \in Workers, NEW k \in DOMAIN log', task'[w] # None,
                log'[k][1] \in Async, log'[k][1] # task'[w]
         PROVE  Before(log'[k][1], task'[w])
    <3>1. task'[w] = task[w]
      BY <2>6, <2>10
    <3>2. log'[k][1] # task[e]
      BY <2>7, <2>10, <3>1
    <3> QED
      BY <2>5, <2>10, <3>1, <3>2 DEF PostedOrder
  <2>11. ASSUME NEW k \in DOMAIN log', NEW i \in DOMAIN queue', log'[k][1] \in Async
         PROVE  Before(log'[k][1], queue'[i])
    <3>1. i \in DOMAIN queue /\ queue' = queue
      BY <2>3
    <3> QED
      BY <2>3, <2>5, <2>8, <2>11, <3>1 DEF PostedOrder
  <2>12. /\ \A w \in Workers, i \in DOMAIN queue' : task'[w] # None => Before(task'[w], queue'[i])
         /\ \A i, j \in DOMAIN queue' : i < j => Before(queue'[i], queue'[j])
    BY <2>3, <2>6 DEF PostedOrder
  <2>21. LogLog
    <3>1. \A k, l \in DOMAIN log :
             k < l /\ log[k][1] \in Async /\ log[l][1] \in Async /\ log[k][1] # log[l][1]
                => Before(log[k][1], log[l][1])
      BY DEF PostedOrder
    <3> QED
      BY <2>2, <2>9, <2>10, <2>11, <2>12, <3>1
  <2>22. LogTask
    BY <2>2, <2>9, <2>10, <2>11, <2>12 DEF PostedOrder
  <2>23. LogQueue
    BY <2>2, <2>9, <2>10, <2>11, <2>12 DEF PostedOrder
  <2>24. TaskQueue
    BY <2>2, <2>9, <2>10, <2>11, <2>12 DEF PostedOrder
  <2>25. QueueQueue
    BY <2>2, <2>9, <2>10, <2>11, <2>12 DEF PostedOrder
  <2> HIDE DEF LogLog, LogTask, LogQueue, TaskQueue, QueueQueue
  <2> QED
    BY <2>21, <2>22, <2>23, <2>24, <2>25, <1>0
<1>7. ASSUME NEW e \in Threads, NEW result \in {"done", "failed"}, FinishMove(e, result)
      PROVE  PostedOrder'
  <2>1. UNCHANGED posted
    BY <1>7 DEF FinishMove
  <2>2. \A u, v : BeforeNow(u, v) <=> Before(u, v)
    BY <2>1 DEF Before
  <2> HIDE DEF BeforeNow
  <2>3. Appended(task[e]) /\ task[e] # None /\ queue' \in {queue, <<>>}
    BY <1>7 DEF FinishMove
  <2>4. DOMAIN log = 1 .. Len(log) /\ DOMAIN log' = 1 .. Len(log') /\ Len(log) \in Nat
        /\ Len(log') \in Nat
    BY LenProperties DEF TypeOK
  <2>5. \A k \in DOMAIN log' : \/ k \in DOMAIN log /\ log'[k] = log[k]
                               \/ k > Len(log) /\ log'[k][1] = task[e]
    <3> SUFFICES ASSUME NEW k \in DOMAIN log'
                 PROVE  \/ k \in DOMAIN log /\ log'[k] = log[k]
                        \/ k > Len(log) /\ log'[k][1] = task[e]
      OBVIOUS
    <3>1. k \in 1 .. Len(log) \/ k \in (Len(log) + 1) .. Len(log')
      BY <2>3, <2>4
    <3>2. k \in (Len(log) + 1) .. Len(log') => k > Len(log)
      BY <2>4
    <3> QED
      BY <2>3, <2>4, <3>1, <3>2 DEF Appended
  <2>6. \A w \in Workers : task'[w] \in {task[w], None}
    BY <1>7 DEF FinishMove, TypeOK
  <2>7. \A w \in Workers : task[w] # None /\ task[e] \in Async => w = e
    BY DEF Requests, Async
  <2>8. task[e] \in Async => e \in Workers
    BY DEF Requests, Async
  <2>9. ASSUME NEW k \in DOMAIN log', NEW l \in DOMAIN log', k < l,
               log'[k][1] \in Async, log'[l][1] \in Async, log'[k][1] # log'[l][1]
        PROVE  Before(log'[k][1], log'[l][1])
    <3>1. CASE l \in DOMAIN log /\ log'[l] = log[l]
      <4>1. k \in DOMAIN log /\ log'[k] = log[k]
        BY <2>4, <2>5, <2>9, <3>1
      <4> QED
        BY <2>9, <3>1, <4>1 DEF PostedOrder
    <3>2. CASE l > Len(log) /\ log'[l][1] = task[e]
      <4>1. k \in DOMAIN log /\ log'[k] = log[k]
        BY <2>5, <2>9, <3>2
      <4> QED
        BY <2>3, <2>8, <2>9, <3>2, <4>1 DEF PostedOrder
    <3> QED
      BY <2>5, <3>1, <3>2
  <2>10. ASSUME NEW w \in Workers, NEW k \in DOMAIN log', task'[w] # None,
                log'[k][1] \in Async, log'[k][1] # task'[w]
         PROVE  Before(log'[k][1], task'[w])
    <3>1. task'[w] = task[w]
      BY <2>6, <2>10
    <3>2. log'[k][1] # task[e]
      BY <2>7, <2>10, <3>1
    <3> QED
      BY <2>5, <2>10, <3>1, <3>2 DEF PostedOrder
  <2>11. ASSUME NEW k \in DOMAIN log', NEW i \in DOMAIN queue', log'[k][1] \in Async
         PROVE  Before(log'[k][1], queue'[i])
    <3>1. i \in DOMAIN queue /\ queue' = queue
      BY <2>3
    <3> QED
      BY <2>3, <2>5, <2>8, <2>11, <3>1 DEF PostedOrder
  <2>12. /\ \A w \in Workers, i \in DOMAIN queue' : task'[w] # None => Before(task'[w], queue'[i])
         /\ \A i, j \in DOMAIN queue' : i < j => Before(queue'[i], queue'[j])
    BY <2>3, <2>6 DEF PostedOrder
  <2>21. LogLog
    <3>1. \A k, l \in DOMAIN log :
             k < l /\ log[k][1] \in Async /\ log[l][1] \in Async /\ log[k][1] # log[l][1]
                => Before(log[k][1], log[l][1])
      BY DEF PostedOrder
    <3> QED
      BY <2>2, <2>9, <2>10, <2>11, <2>12, <3>1
  <2>22. LogTask
    BY <2>2, <2>9, <2>10, <2>11, <2>12 DEF PostedOrder
  <2>23. LogQueue
    BY <2>2, <2>9, <2>10, <2>11, <2>12 DEF PostedOrder
  <2>24. TaskQueue
    BY <2>2, <2>9, <2>10, <2>11, <2>12 DEF PostedOrder
  <2>25. QueueQueue
    BY <2>2, <2>9, <2>10, <2>11, <2>12 DEF PostedOrder
  <2> HIDE DEF LogLog, LogTask, LogQueue, TaskQueue, QueueQueue
  <2> QED
    BY <2>21, <2>22, <2>23, <2>24, <2>25, <1>0
<1>8. CASE OtherMove
  <2>1. UNCHANGED posted
    BY <1>8 DEF OtherMove
  <2>2. \A u, v : BeforeNow(u, v) <=> Before(u, v)
    BY <2>1 DEF Before
  <2> HIDE DEF BeforeNow
  <2>3. UNCHANGED <<log, task>> /\ queue' \in {queue, <<>>}
    BY <1>8 DEF OtherMove
  <2>21. LogLog
    <3>1. \A k, l \in DOMAIN log :
             k < l /\ log[k][1] \in Async /\ log[l][1] \in Async /\ log[k][1] # log[l][1]
                => Before(log[k][1], log[l][1])
      BY DEF PostedOrder
    <3> QED
      BY <2>2, <2>3, <3>1
  <2>22. LogTask
    BY <2>2, <2>3 DEF PostedOrder
  <2>23. LogQueue
    BY <2>2, <2>3 DEF PostedOrder
  <2>24. TaskQueue
    BY <2>2, <2>3 DEF PostedOrder
  <2>25. QueueQueue
    BY <2>2, <2>3 DEF PostedOrder
  <2> HIDE DEF LogLog, LogTask, LogQueue, TaskQueue, QueueQueue
  <2> QED
    BY <2>21, <2>22, <2>23, <2>24, <2>25, <1>0
<1> QED
  BY <1>1, <1>3, <1>4, <1>5, <1>6, <1>7, <1>8 DEF Move

(* The invariant holds of every reachable state. *)
THEOREM PoolCorrect == Spec => []PoolInv
<1>1. Init => PoolInv
  BY ThreadsAssumption, TransactionsAssumption, BoundsAssumption, EmptySeq
  DEF Init, PoolInv, TypeOK, Owners, Busy, OpenInside, Transactions, Connections,
      Threads
<1>2. PoolInv /\ [Next]_vars => PoolInv'
  <2> SUFFICES ASSUME PoolInv, [Next]_vars PROVE PoolInv'
    OBVIOUS
  <2> QED
    BY TypeStep, OwnersStep, OpenStep DEF PoolInv
<1> QED
  BY <1>1, <1>2, PTL DEF Spec

(* Every variable has its type. *)
THEOREM TypeCorrect == Spec => []TypeOK
BY PoolCorrect, PTL DEF PoolInv

(* After any failure, deadlock or lost session, no transaction is left     *)
(* open on a connection that nobody is in the middle of a transaction on.  *)
THEOREM SessionsCorrect == Spec => []NoTransactionLeftOpen
<1>1. PoolInv => NoTransactionLeftOpen
  BY DEF PoolInv, OpenInside, Inside, NoTransactionLeftOpen
<1> QED
  BY <1>1, PoolCorrect, PTL

(* Each transaction is posted once, is in one place, and leaves traces     *)
(* only while it is there.                                                 *)
THEOREM RequestsCorrect == Spec => [](PoolInv /\ Requests /\ Traces)
<1>1. Init => PoolInv /\ Requests /\ Traces
  <2> USE ThreadsAssumption, TransactionsAssumption, BoundsAssumption, EmptySeq
      DEF Init, Transactions, Connections, Threads
  <2>1. Init => TypeOK /\ Owners /\ OpenInside
    BY DEF TypeOK, Owners, Busy, OpenInside
  <2>2. Init => Requests
    BY DEF Requests, Known
  <2>3. Init => Traces
    BY DEF Traces, Known
  <2> QED
    BY <2>1, <2>2, <2>3 DEF PoolInv
<1>2. PoolInv /\ Requests /\ Traces /\ [Next]_vars => (PoolInv /\ Requests /\ Traces)'
  <2> SUFFICES ASSUME PoolInv, Requests, Traces, [Next]_vars
               PROVE  PoolInv' /\ Requests' /\ Traces'
    OBVIOUS
  <2> QED
    BY PoolStep, RequestsStep, TracesStep
<1> QED
  BY <1>1, <1>2, PTL DEF Spec

(* With one worker thread the log has the asynchronous transactions in the *)
(* order they were posted, whatever deadlocks, retries and lost sessions   *)
(* come in between.                                                        *)
THEOREM OrderCorrect == ASSUME \A v, w \in Workers : v = w PROVE Spec => []PostOrder
<1>1. Init => PostedOrder
  <2> SUFFICES ASSUME Init PROVE PostedOrder
    OBVIOUS
  <2>1. DOMAIN log = {} /\ DOMAIN queue = {}
    BY DEF Init
  <2> QED
    BY <2>1 DEF PostedOrder
<1>2. PoolInv /\ Requests /\ Traces /\ PostedOrder /\ [Next]_vars => PostedOrder'
  BY OrderStep
<1>3. PoolInv /\ Requests /\ PostedOrder => PostOrder
  <2> SUFFICES ASSUME PoolInv, Requests, PostedOrder,
                      NEW i \in DOMAIN posted, NEW j \in DOMAIN posted,
                      i < j, posted[i] \in Queued \cup Singles, posted[j] \in Queued \cup Singles,
                      NEW k \in DOMAIN log, NEW l \in DOMAIN log,
                      log[k][1] = posted[i], log[l][1] = posted[j]
               PROVE  k < l
    BY DEF PostOrder
  <2>1. DOMAIN posted = 1 .. Len(posted) /\ DOMAIN log = 1 .. Len(log)
    BY LenProperties DEF PoolInv, TypeOK
  <2>2. posted[i] # posted[j]
    BY <2>1 DEF Requests
  <2>3. ~Before(posted[j], posted[i])
    <3> SUFFICES ASSUME NEW m \in DOMAIN posted, NEW n \in DOMAIN posted, m < n,
                        posted[m] = posted[j], posted[n] = posted[i]
                 PROVE  FALSE
      BY DEF Before
    <3>1. m = j /\ n = i
      BY DEF Requests
    <3> QED
      BY <2>1, <3>1
  <2>4. ~(l < k)
    BY <2>2, <2>3 DEF PostedOrder, Async
  <2> QED
    BY <2>1, <2>2, <2>4
<1> QED
  BY <1>1, <1>2, <1>3, RequestsCorrect, PTL DEF Spec

(* The first statements of a transaction, with one more.                   *)
LEMMA OneMoreStatement ==
  ASSUME NEW t, NEW n \in Nat \ {0}
  PROVE  Append([k \in 1 .. (n - 1) |-> <<t, k>>], <<t, n>>) = [k \in 1 .. n |-> <<t, k>>]
<1> DEFINE s == [k \in 1 .. (n - 1) |-> <<t, k>>]
           u == [k \in 1 .. n |-> <<t, k>>]
           S == {t} \X Nat
<1>1. s \in Seq(S) /\ u \in Seq(S) /\ <<t, n>> \in S
  BY IsASeq
<1>2. Len(s) = n - 1 /\ Len(u) = n
  BY <1>1, LenProperties
<1>3. \A k \in 1 .. (n - 1) : s[k] = <<t, k>> /\ u[k] = <<t, k>>
  OBVIOUS
<1>4. u[n] = <<t, n>>
  OBVIOUS
<1> HIDE DEF s, u, S
<1>5. /\ Append(s, <<t, n>>) \in Seq(S)
      /\ Len(Append(s, <<t, n>>)) = n
      /\ \A k \in 1 .. n : Append(s, <<t, n>>)[k] = u[k]
  <2>1. \A k \in 1 .. (n - 1) : Append(s, <<t, n>>)[k] = s[k]
    BY <1>1, <1>2, AppendProperties
  <2>2. Append(s, <<t, n>>)[n] = <<t, n>>
    BY <1>1, <1>2, AppendProperties
  <2>3. \A k \in 1 .. n : k \in 1 .. (n - 1) \/ k = n
    OBVIOUS
  <2>4. Append(s, <<t, n>>) \in Seq(S) /\ Len(Append(s, <<t, n>>)) = n
    BY <1>1, <1>2, AppendProperties
  <2> QED
    BY <1>3, <1>4, <2>1, <2>2, <2>3, <2>4
<1>6. Append(s, <<t, n>>) = u
  BY <1>1, <1>2, <1>5, SeqEqual
<1> QED
  BY <1>6 DEF s, u

(* A thread whose own state and whose session do not change makes no       *)
(* progress and loses none.                                                *)
LEMMA OthersStay ==
  ASSUME PoolInv, NEW e \in Threads, OnTheWay(e),
         pc'[e] = pc[e], task'[e] = task[e], at'[e] = at[e], tries'[e] = tries[e],
         code'[e] = code[e], conn'[e] = conn[e],
         conn[e] # None => open'[conn[e]] = open[conn[e]] /\ work'[conn[e]] = work[conn[e]]
  PROVE  OnTheWay(e)'
<1>1. Busy(e) => conn[e] # None
  BY DEF PoolInv, Owners
<1> QED
  BY <1>1 DEF OnTheWay, Busy, Commits!Statements

(* The steps of one thread leave the other threads alone.                  *)
LEMMA OneThreadMoves ==
  ASSUME PoolInv, NEW e \in Threads, NEW f \in Threads \ {e}, OnTheWay(f),
         conn[e] \in Connections,
         \A g \in Threads \ {e} :
            /\ pc'[g] = pc[g] /\ task'[g] = task[g] /\ at'[g] = at[g]
            /\ tries'[g] = tries[g] /\ code'[g] = code[g] /\ conn'[g] = conn[g],
         \A c \in Connections \ {conn[e]} : open'[c] = open[c] /\ work'[c] = work[c]
  PROVE  OnTheWay(f)'
<1>1. conn[f] # None => conn[f] \in Connections \ {conn[e]}
  BY DEF PoolInv, TypeOK, Owners
<1> QED
  BY <1>1, OthersStay

(* The pool is closed when no caller is inside it. *)
LEMMA IdleStep ==
  ASSUME MaxLosses = 0, PoolInv, Progress, [Next]_vars
  PROVE  (pool # "open" => \A e \in Callers : pc[e] = "idle")'
<1>1. TypeOK /\ losses = 0 /\ (pool # "open" => \A e \in Callers : pc[e] = "idle")
  BY DEF PoolInv, Progress
<1> USE <1>1, ThreadsAssumption DEF TypeOK, Threads, threadVars
<1>2. ASSUME NEW t \in Queued \cup Singles, Post(t)
      PROVE  (pool # "open" => \A f \in Callers : pc[f] = "idle")'
  BY <1>2 DEF Post
<1>3. ASSUME NEW e \in Callers, NEW c \in Synch, NEW t \in Directs, DirectCommit(e, c, t)
      PROVE  (pool # "open" => \A f \in Callers : pc[f] = "idle")'
  BY <1>3 DEF DirectCommit, Begin, LockIfReady
<1>4. ASSUME NEW w \in Workers, TakeTask(w)
      PROVE  (pool # "open" => \A f \in Callers : pc[f] = "idle")'
  BY <1>4 DEF TakeTask, Begin
<1>5. ASSUME NEW e \in Threads, BeginTransaction(e)
      PROVE  (pool # "open" => \A f \in Callers : pc[f] = "idle")'
  BY <1>5 DEF BeginTransaction
<1>6. ASSUME NEW e \in Threads, ExecuteStatement(e)
      PROVE  (pool # "open" => \A f \in Callers : pc[f] = "idle")'
  BY <1>6 DEF ExecuteStatement, Finish
<1>7. ASSUME NEW e \in Threads, RollbackTransaction(e)
      PROVE  (pool # "open" => \A f \in Callers : pc[f] = "idle")'
  BY <1>7 DEF RollbackTransaction
<1>8. ASSUME NEW e \in Threads, CommitTransaction(e)
      PROVE  (pool # "open" => \A f \in Callers : pc[f] = "idle")'
  BY <1>8 DEF CommitTransaction, Finish
<1>9. ASSUME NEW e \in Threads, NEW err \in {"deadlock", "error"}, StatementFails(e, err)
      PROVE  (pool # "open" => \A f \in Callers : pc[f] = "idle")'
  BY <1>9 DEF StatementFails, Finish
<1>10. ASSUME NEW e \in Threads, GiveUp(e)
      PROVE  (pool # "open" => \A f \in Callers : pc[f] = "idle")'
  BY <1>10 DEF GiveUp, Finish
<1>11. ASSUME NEW w \in Workers, LockDeadlock(w)
      PROVE  (pool # "open" => \A f \in Callers : pc[f] = "idle")'
  BY <1>11 DEF LockDeadlock, TryAgain
<1>12. ASSUME NEW w \in Workers, RetryAsync(w)
      PROVE  (pool # "open" => \A f \in Callers : pc[f] = "idle")'
  BY <1>12 DEF RetryAsync, TryAgain
<1>13. ASSUME NEW e \in Callers, RetryDirect(e)
      PROVE  (pool # "open" => \A f \in Callers : pc[f] = "idle")'
  BY <1>13 DEF RetryDirect, TryAgain
<1>14. ASSUME NEW e \in Threads, Reconnect(e)
      PROVE  (pool # "open" => \A f \in Callers : pc[f] = "idle")'
  BY <1>14 DEF Reconnect, LostOutcomes, Executing
<1>15. ASSUME NEW e \in Threads, Abort(e)
      PROVE  (pool # "open" => \A f \in Callers : pc[f] = "idle")'
  BY <1>15 DEF Abort, LostOutcomes, Executing
<1>16. CASE StopContext
  BY <1>16 DEF StopContext
<1>17. CASE CloseConnections
  BY <1>17 DEF CloseConnections
<1>18. CASE Terminated \/ UNCHANGED vars
  BY <1>18 DEF Terminated, vars
<1> QED
  BY <1>2, <1>3, <1>4, <1>5, <1>6, <1>7, <1>8, <1>9, <1>10, <1>11, <1>12, <1>13, <1>14,
     <1>15, <1>16, <1>17, <1>18
  DEF Next, WorkerStep, CallerStep, Execution

(* Progress is kept as long as the server cannot be lost. *)
LEMMA ProgressStep ==
  ASSUME MaxLosses = 0, PoolInv, Progress, [Next]_vars
  PROVE  Progress'
<1>1. TypeOK /\ Owners /\ losses = 0
  BY DEF PoolInv, Progress
<1>2. \A e \in Threads : OnTheWay(e)
  BY DEF Progress
<1>3. TypeOK' /\ losses' = 0
  BY TypeStep DEF TypeOK
<1>4. (pool # "open" => \A e \in Callers : pc[e] = "idle")'
  BY IdleStep
<1>5. SUFFICES \A e \in Threads : OnTheWay(e)'
  BY <1>3, <1>4 DEF Progress
<1> USE ThreadsAssumption, TransactionsAssumption
<1> DEFINE Still(e) ==
             /\ \A g \in Threads \ {e} :
                   /\ pc'[g] = pc[g] /\ task'[g] = task[g] /\ at'[g] = at[g]
                   /\ tries'[g] = tries[g] /\ code'[g] = code[g] /\ conn'[g] = conn[g]
             /\ \A c \in Connections \ {conn[e]} : open'[c] = open[c] /\ work'[c] = work[c]
<1>9. ASSUME NEW e \in Threads, Busy(e), Still(e), OnTheWay(e)'
      PROVE  \A f \in Threads : OnTheWay(f)'
  <2>1. conn[e] \in Connections
    BY <1>1, <1>9 DEF Owners, TypeOK
  <2>2. \A f \in Threads \ {e} : OnTheWay(f)'
    BY <1>2, <1>9, <2>1, OneThreadMoves
  <2> QED
    BY <1>9, <2>2
<1>6. ASSUME NEW e \in Threads, NEW c \in Connections, NEW t \in Transactions, Begin(e, t),
             pc[e] = "idle", UNCHANGED <<open, work, tries>>, conn' = [conn EXCEPT ![e] = c]
      PROVE  \A f \in Threads : OnTheWay(f)'
  <2>0. OnTheWay(e) /\ tries[e] = 0
    BY <1>2, <1>6 DEF OnTheWay
  <2>1. /\ pc'[e] = IF Size[t] = 0 THEN "failed" ELSE IF t \in Singles THEN "statement" ELSE "begin"
        /\ task'[e] = t /\ at'[e] = 1 /\ tries'[e] = 0
        /\ code'[e] = IF Size[t] = 0 THEN "error" ELSE "none"
    BY <1>1, <1>6, <2>0 DEF Begin, TypeOK
  <2>2. Size[t] \in Nat
    OBVIOUS
  <2>3. OnTheWay(e)'
    BY <2>1, <2>2 DEF OnTheWay
  <2>4. ASSUME NEW f \in Threads \ {e} PROVE OnTheWay(f)'
    <3>1. /\ pc'[f] = pc[f] /\ task'[f] = task[f] /\ at'[f] = at[f]
          /\ tries'[f] = tries[f] /\ code'[f] = code[f] /\ conn'[f] = conn[f]
      BY <1>1, <1>6, <2>4 DEF Begin, TypeOK
    <3>2. OnTheWay(f) /\ open' = open /\ work' = work
      BY <1>2, <1>6
    <3> QED
      BY <3>1, <3>2, OthersStay
  <2> QED
    BY <2>3, <2>4
<1>7. ASSUME NEW e \in Threads, NEW result, Finish(e, result), Busy(e),
             \A c \in Connections \ {conn[e]} : open'[c] = open[c] /\ work'[c] = work[c]
      PROVE  \A f \in Threads : OnTheWay(f)'
  <2>1. pc'[e] = "idle" /\ tries'[e] = 0
    BY <1>1, <1>7 DEF Finish, TypeOK
  <2>2. OnTheWay(e)'
    BY <2>1 DEF OnTheWay
  <2>3. Still(e)
    BY <1>1, <1>7 DEF Finish, TypeOK
  <2> QED
    BY <1>9, <1>7, <2>2, <2>3
<1>8. ASSUME NEW e \in Threads, TryAgain(e), pc[e] = "failed", tries[e] > 0 \/ code[e] = "deadlock",
             UNCHANGED <<open, work, task, conn, code>>
      PROVE  \A f \in Threads : OnTheWay(f)'
  <2>1. /\ pc'[e] = "begin" /\ at'[e] = 1 /\ task[e] \in Transactions
    BY <1>1, <1>8 DEF TryAgain, TypeOK, Owners, Busy
  <2>2. Size[task[e]] \in Nat /\ Size[task[e]] # 0
    <3>1. OnTheWay(e) /\ tries[e] \in Nat
      BY <1>1, <1>2 DEF TypeOK
    <3>2. CASE Size[task[e]] = 0
      <4>1. tries[e] = 0 /\ code[e] = "error"
        BY <1>8, <3>1, <3>2 DEF OnTheWay
      <4> QED
        BY <1>8, <4>1
    <3> QED
      BY <2>1, <3>2
  <2>3. OnTheWay(e)'
    BY <1>8, <2>1, <2>2 DEF OnTheWay
  <2>4. Still(e)
    BY <1>1, <1>8 DEF TryAgain, TypeOK
  <2> QED
    BY <1>9, <1>8, <2>3, <2>4 DEF Busy
<1> HIDE DEF Still
<1>11. ASSUME NEW t \in Queued \cup Singles, Post(t)
       PROVE  \A f \in Threads : OnTheWay(f)'
  BY <1>2, <1>11, OthersStay DEF Post, threadVars, serverVars
<1>12. ASSUME NEW e \in Callers, NEW c \in Synch, NEW t \in Directs, DirectCommit(e, c, t)
       PROVE  \A f \in Threads : OnTheWay(f)'
  BY <1>6, <1>12 DEF DirectCommit, serverVars, Threads, Connections, Transactions
<1>13. ASSUME NEW w \in Workers, TakeTask(w) PROVE \A f \in Threads : OnTheWay(f)'
  <2>1. Head(queue) \in Transactions
    BY <1>1, <1>13, HeadTailProperties DEF TakeTask, TypeOK, Transactions
  <2>2. conn' = [conn EXCEPT ![w] = w]
    BY <1>1, <1>13 DEF TakeTask, TypeOK
  <2> QED
    BY <1>6, <1>13, <2>1, <2>2 DEF TakeTask, serverVars, Threads, Connections
<1>14. ASSUME NEW e \in Threads, BeginTransaction(e)
       PROVE  \A f \in Threads : OnTheWay(f)'
  <2>1. Busy(e) /\ conn[e] \in Connections
    BY <1>1, <1>14 DEF BeginTransaction, Busy, TypeOK, Owners
  <2>2. /\ pc'[e] = "statement" /\ work'[conn[e]] = <<>> /\ open'[conn[e]]
        /\ at[e] = 1 /\ at[e] \in 1 .. Size[task[e]]
    <3>1. pc[e] = "begin" /\ OnTheWay(e)
      BY <1>2, <1>14 DEF BeginTransaction
    <3>2. at[e] = 1 /\ at[e] \in 1 .. Size[task[e]]
      BY <3>1 DEF OnTheWay
    <3> QED
      BY <1>1, <1>14, <2>1, <3>2 DEF BeginTransaction, TypeOK
  <2>3. [k \in 1 .. (at[e] - 1) |-> <<task[e], k>>] = <<>>
    BY <2>2
  <2>4. OnTheWay(e)'
    BY <1>14, <2>2, <2>3 DEF BeginTransaction, OnTheWay
  <2>5. Still(e)
    BY <1>1, <1>14, <2>1 DEF BeginTransaction, TypeOK, Still
  <2> QED
    BY <1>9, <2>1, <2>4, <2>5
<1>15. ASSUME NEW e \in Threads, ExecuteStatement(e)
       PROVE  \A f \in Threads : OnTheWay(f)'
  <2>1. Busy(e) /\ conn[e] \in Connections /\ task[e] \in Transactions
    BY <1>1, <1>15 DEF ExecuteStatement, Busy, TypeOK, Owners
  <2>2. \A c \in Connections \ {conn[e]} : open'[c] = open[c] /\ work'[c] = work[c]
    BY <1>1, <1>15, <2>1 DEF ExecuteStatement, TypeOK
  <2>3. CASE task[e] \in Singles
    <3>1. Finish(e, "done")
      BY <1>15, <2>3 DEF ExecuteStatement
    <3> QED
      BY <1>7, <2>1, <2>2, <3>1
  <2>4. CASE task[e] \notin Singles
    <3>1. /\ open[conn[e]]
          /\ work[conn[e]] = [k \in 1 .. (at[e] - 1) |-> <<task[e], k>>]
          /\ at[e] \in 1 .. Size[task[e]] /\ Size[task[e]] \in Nat
      BY <1>2, <1>15, <2>1, <2>4 DEF ExecuteStatement, OnTheWay
    <3>2. /\ at' = [at EXCEPT ![e] = @ + 1]
          /\ pc' = [pc EXCEPT ![e] = IF at[e] < Size[task[e]] THEN "statement" ELSE "commit"]
          /\ UNCHANGED <<task, conn, tries, code, open>>
      BY <1>15, <2>4 DEF ExecuteStatement
    <3>3. work'[conn[e]] = [k \in 1 .. at[e] |-> <<task[e], k>>]
      <4>1. work'[conn[e]] = Append(work[conn[e]], <<task[e], at[e]>>)
        BY <1>1, <1>15, <2>1, <3>1 DEF ExecuteStatement, TypeOK
      <4>2. at[e] \in Nat \ {0}
        BY <3>1
      <4> QED
        BY <3>1, <4>1, <4>2, OneMoreStatement
    <3>4. CASE at[e] < Size[task[e]]
      <4>1. pc'[e] = "statement" /\ at'[e] = at[e] + 1
        BY <1>1, <3>2, <3>4 DEF TypeOK
      <4>2. at[e] + 1 \in 1 .. Size[task[e]] /\ (at[e] + 1) - 1 = at[e]
        BY <3>1, <3>4
      <4> QED
        <5>1. OnTheWay(e)'
          BY <3>1, <3>2, <3>3, <4>1, <4>2 DEF OnTheWay
        <5>2. Still(e)
          BY <1>1, <2>2, <3>2 DEF TypeOK, Still
        <5> QED
          BY <1>9, <2>1, <5>1, <5>2
    <3>5. CASE ~(at[e] < Size[task[e]])
      <4>1. pc'[e] = "commit" /\ at[e] = Size[task[e]]
        BY <1>1, <3>1, <3>2, <3>5 DEF TypeOK
      <4>2. work'[conn[e]] = Commits!Statements(task[e])
        BY <3>3, <4>1 DEF Commits!Statements
      <4> QED
        <5>1. OnTheWay(e)'
          BY <3>1, <3>2, <4>1, <4>2 DEF OnTheWay, Commits!Statements
        <5>2. Still(e)
          BY <1>1, <2>2, <3>2 DEF TypeOK, Still
        <5> QED
          BY <1>9, <2>1, <5>1, <5>2
    <3> QED
      BY <3>4, <3>5
  <2> QED
    BY <2>3, <2>4
<1>16. ASSUME NEW e \in Threads, RollbackTransaction(e)
       PROVE  \A f \in Threads : OnTheWay(f)'
  <2>1. Busy(e) /\ conn[e] \in Connections
    BY <1>1, <1>16 DEF RollbackTransaction, Busy, TypeOK, Owners
  <2>2. pc'[e] = "failed" /\ Size[task[e]] # 0 /\ task' = task
    BY <1>1, <1>2, <1>16 DEF RollbackTransaction, OnTheWay, TypeOK
  <2>3. OnTheWay(e)'
    BY <2>2 DEF OnTheWay
  <2>4. Still(e)
    BY <1>1, <1>16, <2>1 DEF RollbackTransaction, TypeOK, Still
  <2> QED
    BY <1>9, <2>1, <2>3, <2>4
<1>17. ASSUME NEW e \in Threads, CommitTransaction(e)
       PROVE  \A f \in Threads : OnTheWay(f)'
  BY <1>1, <1>7, <1>17 DEF CommitTransaction, Busy, TypeOK, Owners
<1>18. ASSUME NEW e \in Threads, NEW err \in {"deadlock", "error"}, StatementFails(e, err)
       PROVE  \A f \in Threads : OnTheWay(f)'
  <2>1. Busy(e) /\ conn[e] \in Connections /\ task[e] \in Transactions
    BY <1>1, <1>18 DEF StatementFails, Busy, TypeOK, Owners
  <2>2. \A c \in Connections \ {conn[e]} : open'[c] = open[c] /\ work'[c] = work[c]
    BY <1>1, <1>18, <2>1 DEF StatementFails, TypeOK
  <2>3. CASE task[e] \in Singles
    <3>1. Finish(e, "failed")
      BY <1>18, <2>3 DEF StatementFails
    <3> QED
      BY <1>7, <2>1, <2>2, <3>1
  <2>4. CASE task[e] \notin Singles
    <3>1. /\ code' = [code EXCEPT ![e] = err] /\ pc' = [pc EXCEPT ![e] = "rollback"]
          /\ UNCHANGED <<task, conn, at, tries>>
      BY <1>18, <2>4 DEF StatementFails
    <3>2. Size[task[e]] # 0
      <4>1. pc[e] = "statement" /\ OnTheWay(e) /\ Size[task[e]] \in Nat
        BY <1>2, <1>18, <2>1 DEF StatementFails
      <4>2. at[e] \in 1 .. Size[task[e]]
        BY <4>1 DEF OnTheWay
      <4> QED
        BY <4>1, <4>2
    <3>3. OnTheWay(e)'
      BY <1>1, <3>1, <3>2 DEF OnTheWay, TypeOK
    <3>4. Still(e)
      BY <1>1, <2>2, <3>1 DEF TypeOK, Still
    <3> QED
      BY <1>9, <2>1, <3>3, <3>4
  <2> QED
    BY <2>3, <2>4
<1>19. ASSUME NEW e \in Threads, GiveUp(e) PROVE \A f \in Threads : OnTheWay(f)'
  BY <1>7, <1>19 DEF GiveUp, Busy, serverVars
<1>20. ASSUME NEW w \in Workers, LockDeadlock(w) PROVE \A f \in Threads : OnTheWay(f)'
  BY <1>8, <1>20 DEF LockDeadlock, serverVars, Threads
<1>21. ASSUME NEW w \in Workers, RetryAsync(w) PROVE \A f \in Threads : OnTheWay(f)'
  <2>1. tries[w] > 0
    BY <1>21, BoundsAssumption DEF RetryAsync
  <2> QED
    BY <1>8, <1>21, <2>1 DEF RetryAsync, serverVars, Threads
<1>22. ASSUME NEW e \in Callers, RetryDirect(e) PROVE \A f \in Threads : OnTheWay(f)'
  BY <1>8, <1>22 DEF RetryDirect, serverVars, Threads
<1>23. ASSUME NEW e \in Threads PROVE ~Reconnect(e) /\ ~Abort(e)
  BY <1>1 DEF Reconnect, Abort
<1>24. CASE StopContext
  BY <1>2, <1>24, OthersStay DEF StopContext, threadVars, serverVars
<1>25. CASE CloseConnections
  <2>1. \A e \in Threads : pc[e] = "idle"
    BY <1>25 DEF CloseConnections, Progress, Threads
  <2>2. UNCHANGED <<pc, tries>>
    BY <1>25 DEF CloseConnections, threadVars
  <2> QED
    BY <1>2, <2>1, <2>2 DEF OnTheWay
<1>26. CASE Terminated \/ UNCHANGED vars
  <2>1. UNCHANGED <<pc, task, conn, at, tries, code, open, work>>
    BY <1>26 DEF Terminated, vars, threadVars, serverVars
  <2> QED
    BY <1>2, <2>1, OthersStay
<1> QED
  BY <1>11, <1>12, <1>13, <1>14, <1>15, <1>16, <1>17, <1>18, <1>19, <1>20, <1>21, <1>22,
     <1>23, <1>24, <1>25, <1>26
  DEF Next, WorkerStep, CallerStep, Execution, Threads

(* As long as no session is lost, the pool is an implementation of         *)
(* AtomicCommits: each step posts a transaction, applies one as a whole    *)
(* and reports it done, reports one failed of which nothing was applied,   *)
(* or changes nothing that the users can see.                              *)
LEMMA CommitsStep ==
  ASSUME MaxLosses = 0, PoolInv, Requests, Progress, [Next]_vars
  PROVE  [Commits!Next]_(Commits!vars)
<1>1. TypeOK /\ Owners /\ losses = 0
  BY DEF PoolInv, Progress
<1>2. \A e \in Threads : OnTheWay(e)
  BY DEF Progress
<1> USE ThreadsAssumption, TransactionsAssumption
<1>3. ASSUME NEW e \in Threads, Busy(e)
      PROVE  conn[e] \in Connections /\ task[e] \in Transactions /\ Commits!Pending(task[e])
  BY <1>1, <1>3 DEF Owners, TypeOK, Requests, Known, Commits!Pending
<1>4. ASSUME NEW t \in Transactions, t \notin ToSet(posted), posted' = Append(posted, t),
             UNCHANGED <<answer, log>>
      PROVE  Commits!Next
  <2>1. Commits!Post(t)
    BY <1>1, <1>4 DEF Commits!Post, ToSet
  <2> QED
    BY <2>1 DEF Commits!Next
<1>5. ASSUME NEW e \in Threads, Busy(e), Finish(e, "failed"), UNCHANGED <<log, posted>>
      PROVE  Commits!Next
  <2>1. Commits!Fail(task[e])
    BY <1>3, <1>5 DEF Finish, Commits!Fail
  <2> QED
    BY <1>3, <1>5, <2>1 DEF Commits!Next
<1>6. ASSUME NEW e \in Threads, Busy(e), Finish(e, "done"), UNCHANGED posted,
             log' = log \o Commits!Statements(task[e])
      PROVE  Commits!Next
  <2>1. Commits!Succeed(task[e])
    BY <1>3, <1>6 DEF Finish, Commits!Succeed
  <2> QED
    BY <1>3, <1>6, <2>1 DEF Commits!Next
<1>7. ASSUME UNCHANGED <<posted, answer, log>>
      PROVE  UNCHANGED Commits!vars
  BY <1>7 DEF Commits!vars
<1>11. ASSUME NEW t \in Queued \cup Singles, Post(t) PROVE Commits!Next
  BY <1>4, <1>11 DEF Post, serverVars, Transactions
<1>12. ASSUME NEW e \in Callers, NEW c \in Synch, NEW t \in Directs, DirectCommit(e, c, t)
       PROVE  Commits!Next
  BY <1>4, <1>12 DEF DirectCommit, serverVars, Transactions
<1>13. ASSUME NEW w \in Workers, TakeTask(w) PROVE UNCHANGED Commits!vars
  BY <1>7, <1>13 DEF TakeTask, serverVars
<1>14. ASSUME NEW e \in Threads, BeginTransaction(e) PROVE UNCHANGED Commits!vars
  <2>1. conn[e] \in Connections /\ ~Inside(e)
    BY <1>3, <1>14 DEF BeginTransaction, Busy, Inside
  <2>2. work[conn[e]] = <<>>
    BY <1>1, <2>1 DEF PoolInv, OpenInside, Owners
  <2>3. log \o <<>> = log
    BY <1>1, ConcatEmptySeq DEF TypeOK
  <2> QED
    BY <1>7, <1>14, <2>2, <2>3 DEF BeginTransaction
<1>15. ASSUME NEW e \in Threads, ExecuteStatement(e)
       PROVE  Commits!Next \/ UNCHANGED Commits!vars
  <2>1. Busy(e) /\ OnTheWay(e) /\ pc[e] = "statement"
    BY <1>2, <1>15 DEF ExecuteStatement, Busy
  <2>2. CASE task[e] \in Singles
    <3>1. ~open[conn[e]]
      BY <2>1, <2>2, SingleOutside
    <3>2. Size[task[e]] = 1 /\ at[e] = 1
      BY <2>1, <2>2 DEF OnTheWay
    <3>3. log' = Append(log, <<task[e], 1>>) /\ Finish(e, "done") /\ UNCHANGED posted
      BY <1>15, <2>2, <3>1, <3>2 DEF ExecuteStatement
    <3>4. Append(log, <<task[e], 1>>) = log \o <<<<task[e], 1>>>>
      <4>1. log \in Seq(Transactions \X Nat) /\ <<task[e], 1>> \in Transactions \X Nat
        BY <1>1, <1>3, <2>1 DEF TypeOK
      <4> QED
        BY <4>1, AppendIsConcat
    <3>5. <<<<task[e], 1>>>> = Commits!Statements(task[e])
      BY <3>2 DEF Commits!Statements
    <3> QED
      BY <1>6, <2>1, <3>3, <3>4, <3>5
  <2>3. CASE task[e] \notin Singles
    <3>1. open[conn[e]]
      BY <2>1, <2>3 DEF OnTheWay
    <3> QED
      BY <1>7, <1>15, <2>3, <3>1 DEF ExecuteStatement
  <2> QED
    BY <2>2, <2>3
<1>16. ASSUME NEW e \in Threads, RollbackTransaction(e) PROVE UNCHANGED Commits!vars
  BY <1>7, <1>16 DEF RollbackTransaction
<1>17. ASSUME NEW e \in Threads, CommitTransaction(e) PROVE Commits!Next
  <2>1. Busy(e) /\ OnTheWay(e) /\ pc[e] = "commit"
    BY <1>2, <1>17 DEF CommitTransaction, Busy
  <2>2. work[conn[e]] = Commits!Statements(task[e])
    BY <2>1 DEF OnTheWay
  <2> QED
    BY <1>6, <1>17, <2>1, <2>2 DEF CommitTransaction
<1>18. ASSUME NEW e \in Threads, NEW err \in {"deadlock", "error"}, StatementFails(e, err)
       PROVE  Commits!Next \/ UNCHANGED Commits!vars
  BY <1>5, <1>7, <1>18 DEF StatementFails, Busy
<1>19. ASSUME NEW e \in Threads, GiveUp(e) PROVE Commits!Next
  BY <1>5, <1>19 DEF GiveUp, Busy, serverVars
<1>20. ASSUME NEW w \in Workers, LockDeadlock(w) \/ RetryAsync(w)
       PROVE  UNCHANGED Commits!vars
  BY <1>7, <1>20 DEF LockDeadlock, RetryAsync, serverVars
<1>21. ASSUME NEW e \in Callers, RetryDirect(e) PROVE UNCHANGED Commits!vars
  BY <1>7, <1>21 DEF RetryDirect, serverVars
<1>22. ASSUME NEW e \in Threads PROVE ~Reconnect(e) /\ ~Abort(e)
  BY <1>1 DEF Reconnect, Abort
<1>23. CASE StopContext \/ CloseConnections
  BY <1>7, <1>23 DEF StopContext, CloseConnections, serverVars
<1>24. CASE Terminated \/ UNCHANGED vars
  BY <1>7, <1>24 DEF Terminated, vars, serverVars
<1> QED
  BY <1>11, <1>12, <1>13, <1>14, <1>15, <1>16, <1>17, <1>18, <1>19, <1>20, <1>21, <1>22,
     <1>23, <1>24
  DEF Next, WorkerStep, CallerStep, Execution, Threads

(* As long as no session is lost, the pool is an implementation of         *)
(* AtomicCommits: each step posts a transaction, applies one as a whole    *)
(* and reports it done, reports one failed of which nothing was applied,   *)
(* or changes nothing that the users can see.                              *)
THEOREM CommitsCorrect == ASSUME MaxLosses = 0 PROVE Spec => CommitsSpec
<1>1. Init => Progress
  <2> SUFFICES ASSUME Init PROVE Progress
    OBVIOUS
  <2> QED
    BY DEF Init, Progress, OnTheWay
<1>2. MaxLosses = 0 => (PoolInv /\ Progress /\ [Next]_vars => Progress')
  BY ProgressStep
<1>3. Init => Commits!Init
  BY DEF Init, Commits!Init
<1>4. MaxLosses = 0 =>
         (PoolInv /\ Requests /\ Progress /\ [Next]_vars => [Commits!Next]_(Commits!vars))
  BY CommitsStep
<1> QED
  BY <1>1, <1>2, <1>3, <1>4, RequestsCorrect, PTL DEF Spec, CommitsSpec, Commits!Spec
==============================================================================
