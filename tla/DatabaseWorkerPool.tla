-------------------------- MODULE DatabaseWorkerPool --------------------------
(***************************************************************************)
(* DatabaseWorkerPool, TransactionTask and MySQLConnection: how statements *)
(* and transactions reach the MySQL server.                                *)
(*                                                                         *)
(* An asynchronous connection owns a worker thread that takes tasks from   *)
(* the pool's io_context, a FIFO.  Any other thread that needs an answer   *)
(* at once (DirectExecute, DirectCommitTransaction) spins until it has     *)
(* locked one of the synchronous connections.                              *)
(*                                                                         *)
(* The server is external: of a session it keeps whether a transaction is  *)
(* open and what that transaction has done; without one, each statement    *)
(* commits by itself (autocommit).  It may reject a statement, choose a    *)
(* transaction as the victim of a deadlock, which rolls it back, or lose   *)
(* the session, which rolls back what is open; the answer to the statement *)
(* being executed is lost with the session.                                *)
(***************************************************************************)
EXTENDS Integers, SequencesExt

CONSTANTS Workers,      \* asynchronous connections, each with its thread
          Callers,      \* threads that use the synchronous connections
          Synch,        \* synchronous connections
          Queued,       \* transactions given to (Async)CommitTransaction
          Singles,      \* statements given to Execute
          Directs,      \* transactions given to DirectCommitTransaction
          Size,         \* the number of statements of each of these
          MaxRetries,   \* bound: what fits in DEADLOCK_MAX_RETRY_TIME_MS
          LoopBreaker,  \* retries of DirectCommitTransaction (5)
          MaxLosses,    \* bound: how often the server is lost
          None

Transactions == Queued \cup Singles \cup Directs
Connections == Workers \cup Synch
Threads == Workers \cup Callers

ASSUME ThreadsAssumption ==
    /\ Workers \cap Callers = {}
    /\ Workers \cap Synch = {}
    /\ None \notin Transactions \cup Connections \cup Threads

ASSUME TransactionsAssumption ==
    /\ Queued \cap Singles = {} /\ Queued \cap Directs = {} /\ Singles \cap Directs = {}
    /\ Size \in [Transactions -> Nat]
    /\ \A t \in Singles : Size[t] = 1

ASSUME BoundsAssumption == MaxRetries \in Nat /\ LoopBreaker \in Nat /\ MaxLosses \in Nat

VARIABLES
    pool,           \* "open", "closing", "closed" or "aborted" (the process)
    queue,          \* the tasks of _ioContext
    deadlockLock,   \* the thread that holds TransactionTask::_deadlockLock
    pc,             \* where each thread stands
    task,           \* the transaction it executes
    conn,           \* the connection it uses
    at,             \* its position in m_queries
    tries,          \* retries it has begun
    code,           \* errorCode: "none", "deadlock" or "error"
    open, work,     \* sessions at the server: a transaction is open, what it did
    losses,         \* sessions lost so far
    log,            \* the statements the database has committed, in order
    posted, answer  \* the transactions handed over, their results (history)

threadVars == <<pc, task, conn, at, tries, code>>
serverVars == <<open, work, log>>
vars == <<pool, queue, deadlockLock, threadVars, serverVars, losses, posted, answer>>

Init ==
    /\ pool = "open"
    /\ queue = <<>>
    /\ deadlockLock = None
    /\ pc = [e \in Threads |-> "idle"]
    /\ task = [e \in Threads |-> None]
    /\ conn = [e \in Threads |-> IF e \in Workers THEN e ELSE None]
    /\ at = [e \in Threads |-> 1]
    /\ tries = [e \in Threads |-> 0]
    /\ code = [e \in Threads |-> "none"]
    /\ open = [c \in Connections |-> FALSE]
    /\ work = [c \in Connections |-> <<>>]
    /\ losses = 0
    /\ log = <<>>
    /\ posted = <<>>
    /\ answer = [t \in Transactions |-> "none"]

-----------------------------------------------------------------------------
(* Handing over. *)

(* Execute, CommitTransaction and AsyncCommitTransaction. *)
Post(t) ==
    /\ pool = "open"
    /\ t \notin ToSet(posted)
    /\ queue' = Append(queue, t)
    /\ posted' = Append(posted, t)
    /\ UNCHANGED <<pool, deadlockLock, threadVars, serverVars, losses, answer>>

(* The beginning of ExecuteTransaction, which fails at once on an empty    *)
(* transaction, or of the Execute of a single statement.                   *)
Begin(e, t) ==
    /\ task' = [task EXCEPT ![e] = t]
    /\ at' = [at EXCEPT ![e] = 1]
    /\ code' = [code EXCEPT ![e] = IF Size[t] = 0 THEN "error" ELSE "none"]
    /\ pc' = [pc EXCEPT ![e] = IF Size[t] = 0 THEN "failed"
                               ELSE IF t \in Singles THEN "statement" ELSE "begin"]

(* A worker thread runs the next handler, unless the context is stopped. *)
TakeTask(w) ==
    /\ pool = "open"
    /\ pc[w] = "idle"
    /\ queue # <<>>
    /\ Begin(w, Head(queue))
    /\ queue' = Tail(queue)
    /\ UNCHANGED <<pool, deadlockLock, conn, tries, serverVars, losses, posted, answer>>

LockIfReady(c) == \A e \in Threads : conn[e] # c

(* DirectCommitTransaction, once GetFreeConnection has locked c. *)
DirectCommit(e, c, t) ==
    /\ pool = "open"
    /\ pc[e] = "idle"
    /\ t \notin ToSet(posted)
    /\ LockIfReady(c)
    /\ conn' = [conn EXCEPT ![e] = c]
    /\ Begin(e, t)
    /\ posted' = Append(posted, t)
    /\ UNCHANGED <<pool, queue, deadlockLock, tries, serverVars, losses, answer>>

-----------------------------------------------------------------------------
(* MySQLConnection::ExecuteTransaction. *)

(* START TRANSACTION commits what the session has left open. *)
BeginTransaction(e) ==
    /\ pc[e] = "begin"
    /\ log' = log \o work[conn[e]]
    /\ work' = [work EXCEPT ![conn[e]] = <<>>]
    /\ open' = [open EXCEPT ![conn[e]] = TRUE]
    /\ pc' = [pc EXCEPT ![e] = "statement"]
    /\ UNCHANGED <<pool, queue, deadlockLock, task, conn, at, tries, code, losses, posted, answer>>

(* Mutant: _deadlockLock stays locked. *)
FinishLocked(e, result) ==
    /\ answer' = [answer EXCEPT ![task[e]] = result]
    /\ task' = [task EXCEPT ![e] = None]
    /\ pc' = [pc EXCEPT ![e] = "idle"]
    /\ conn' = [conn EXCEPT ![e] = IF e \in Workers THEN e ELSE None]
    /\ at' = [at EXCEPT ![e] = 1]
    /\ tries' = [tries EXCEPT ![e] = 0]
    /\ code' = [code EXCEPT ![e] = "none"]
    /\ UNCHANGED deadlockLock

(* The thread is done with its transaction: the deadlock lock and the      *)
(* synchronous connection are released.                                    *)
Finish(e, result) ==
    /\ answer' = [answer EXCEPT ![task[e]] = result]
    /\ task' = [task EXCEPT ![e] = None]
    /\ pc' = [pc EXCEPT ![e] = "idle"]
    /\ conn' = [conn EXCEPT ![e] = IF e \in Workers THEN e ELSE None]
    /\ at' = [at EXCEPT ![e] = 1]
    /\ tries' = [tries EXCEPT ![e] = 0]
    /\ code' = [code EXCEPT ![e] = "none"]
    /\ deadlockLock' = IF deadlockLock = e THEN None ELSE deadlockLock

(* MySQLConnection::Execute succeeds. *)
ExecuteStatement(e) ==
    /\ pc[e] = "statement"
    /\ LET c == conn[e]
           s == <<task[e], at[e]>>
       IN  IF open[c]
           THEN work' = [work EXCEPT ![c] = Append(@, s)] /\ UNCHANGED log
           ELSE log' = Append(log, s) /\ UNCHANGED work
    /\ IF task[e] \in Singles
       THEN Finish(e, "done")
       ELSE /\ at' = [at EXCEPT ![e] = @ + 1]
            /\ pc' = [pc EXCEPT ![e] = IF at[e] < Size[task[e]] THEN "statement" ELSE "commit"]
            /\ UNCHANGED <<task, conn, tries, code, deadlockLock, answer>>
    /\ UNCHANGED <<pool, queue, open, losses, posted>>

(* Another session holds locks. *)
Contended(c) == \E d \in Connections \ {c} : open[d] /\ work[d] # <<>>

(* Mutant: ExecuteTransaction goes on with the next statement. *)
StatementSkipped(e, err) ==
    /\ pc[e] = "statement"
    /\ err = "error"
    /\ at' = [at EXCEPT ![e] = @ + 1]
    /\ pc' = [pc EXCEPT ![e] = IF at[e] < Size[task[e]] THEN "statement" ELSE "commit"]
    /\ UNCHANGED <<pool, queue, deadlockLock, task, conn, tries, code, serverVars, losses,
                   posted, answer>>

(* MySQLConnection::Execute returns false.  The victim of a deadlock is    *)
(* rolled back by the server.                                              *)
StatementFails(e, err) ==
    /\ pc[e] = "statement"
    /\ err = "deadlock" => Contended(conn[e])
    /\ IF err = "deadlock"
       THEN /\ open' = [open EXCEPT ![conn[e]] = FALSE]
            /\ work' = [work EXCEPT ![conn[e]] = <<>>]
       ELSE UNCHANGED <<open, work>>
    /\ IF task[e] \in Singles
       THEN Finish(e, "failed")
       ELSE /\ code' = [code EXCEPT ![e] = err]
            /\ pc' = [pc EXCEPT ![e] = "rollback"]
            /\ UNCHANGED <<task, conn, at, tries, deadlockLock, answer>>
    /\ UNCHANGED <<pool, queue, log, losses, posted>>

(* Mutant: no ROLLBACK after a failed statement. *)
NoRollback(e) ==
    /\ pc[e] = "rollback"
    /\ pc' = [pc EXCEPT ![e] = "failed"]
    /\ UNCHANGED <<pool, queue, deadlockLock, task, conn, at, tries, code, serverVars, losses,
                   posted, answer>>

RollbackTransaction(e) ==
    /\ pc[e] = "rollback"
    /\ open' = [open EXCEPT ![conn[e]] = FALSE]
    /\ work' = [work EXCEPT ![conn[e]] = <<>>]
    /\ pc' = [pc EXCEPT ![e] = "failed"]
    /\ UNCHANGED <<pool, queue, deadlockLock, task, conn, at, tries, code, log, losses, posted, answer>>

(* COMMIT; its result is not looked at. *)
CommitTransaction(e) ==
    /\ pc[e] = "commit"
    /\ log' = log \o work[conn[e]]
    /\ open' = [open EXCEPT ![conn[e]] = FALSE]
    /\ work' = [work EXCEPT ![conn[e]] = <<>>]
    /\ Finish(e, "done")
    /\ UNCHANGED <<pool, queue, losses, posted>>

-----------------------------------------------------------------------------
(* After a failure: TransactionTask::Execute in a worker thread,           *)
(* DirectCommitTransaction in a caller.                                    *)

TryAgain(e) ==
    /\ tries' = [tries EXCEPT ![e] = @ + 1]
    /\ at' = [at EXCEPT ![e] = 1]
    /\ pc' = [pc EXCEPT ![e] = "begin"]

(* Mutant: the transaction goes back to the end of the queue. *)
RequeueDeadlocked(w) ==
    /\ pc[w] = "failed"
    /\ tries[w] = 0 /\ code[w] = "deadlock"
    /\ queue' = Append(queue, task[w])
    /\ task' = [task EXCEPT ![w] = None]
    /\ pc' = [pc EXCEPT ![w] = "idle"]
    /\ UNCHANGED <<pool, deadlockLock, conn, at, tries, code, serverVars, losses, posted, answer>>

(* The first ER_LOCK_DEADLOCK of a worker: it retries under _deadlockLock. *)
LockDeadlock(w) ==
    /\ pc[w] = "failed"
    /\ tries[w] = 0 /\ code[w] = "deadlock"
    /\ deadlockLock = None
    /\ deadlockLock' = w
    /\ TryAgain(w)
    /\ UNCHANGED <<pool, queue, task, conn, code, serverVars, losses, posted, answer>>

(* The retry loops go on after any error; only the first one must have     *)
(* been a deadlock.                                                        *)
RetryAsync(w) ==
    /\ pc[w] = "failed"
    /\ tries[w] \in 1..(MaxRetries - 1)
    /\ TryAgain(w)
    /\ UNCHANGED <<pool, queue, deadlockLock, task, conn, code, serverVars, losses, posted, answer>>

RetryDirect(e) ==
    /\ pc[e] = "failed"
    /\ tries[e] > 0 \/ code[e] = "deadlock"
    /\ tries[e] < LoopBreaker
    /\ TryAgain(e)
    /\ UNCHANGED <<pool, queue, deadlockLock, task, conn, code, serverVars, losses, posted, answer>>

(* Not a deadlock, or the time or the number of retries is used up. *)
GiveUp(e) ==
    /\ pc[e] = "failed"
    /\ IF e \in Workers
       THEN tries[e] > 0 \/ code[e] # "deadlock"
       ELSE tries[e] = LoopBreaker \/ (tries[e] = 0 /\ code[e] # "deadlock")
    /\ Finish(e, "failed")
    /\ UNCHANGED <<pool, queue, serverVars, losses, posted>>

-----------------------------------------------------------------------------
(* _HandleMySQLErrno. *)

(* What the server may have done with the statement whose answer is lost. *)
LostOutcomes(e) ==
    LET c == conn[e]
    IN  CASE pc[e] = "commit" -> {log, log \o work[c]}
          [] pc[e] = "statement" /\ ~open[c] -> {log, Append(log, <<task[e], at[e]>>)}
          [] OTHER -> {log}

Executing(e) == pc[e] \in {"begin", "statement", "rollback", "commit"}

(* The session is lost and opened again, with autocommit; Execute tries    *)
(* the same statement again.                                               *)
Reconnect(e) ==
    /\ Executing(e)
    /\ losses < MaxLosses
    /\ losses' = losses + 1
    /\ log' \in LostOutcomes(e)
    /\ open' = [open EXCEPT ![conn[e]] = FALSE]
    /\ work' = [work EXCEPT ![conn[e]] = <<>>]
    /\ UNCHANGED <<pool, queue, deadlockLock, threadVars, posted, answer>>

(* The server cannot be reached in 5 attempts: the process aborts, which   *)
(* ends every session.                                                     *)
Abort(e) ==
    /\ Executing(e)
    /\ losses < MaxLosses
    /\ losses' = losses + 1
    /\ log' \in LostOutcomes(e)
    /\ open' = [c \in Connections |-> FALSE]
    /\ work' = [c \in Connections |-> <<>>]
    /\ pool' = "aborted"
    /\ pc' = [f \in Threads |-> "dead"]
    /\ queue' = <<>>
    /\ UNCHANGED <<deadlockLock, task, conn, at, tries, code, posted, answer>>

-----------------------------------------------------------------------------
(* Close, when no other thread of the process uses the pool any more: the  *)
(* context is stopped, so that a worker thread ends after its handler;     *)
(* when all are joined the context is destroyed with the tasks in it.      *)
StopContext ==
    /\ pool = "open"
    /\ \A e \in Callers : pc[e] = "idle"
    /\ pool' = "closing"
    /\ UNCHANGED <<queue, deadlockLock, threadVars, serverVars, losses, posted, answer>>

CloseConnections ==
    /\ pool = "closing"
    /\ \A w \in Workers : pc[w] = "idle"
    /\ queue' = <<>>
    /\ open' = [c \in Connections |-> FALSE]
    /\ work' = [c \in Connections |-> <<>>]
    /\ pool' = "closed"
    /\ UNCHANGED <<deadlockLock, threadVars, log, losses, posted, answer>>

(* The process is over. *)
Terminated ==
    /\ pool \in {"closed", "aborted"}
    /\ UNCHANGED vars

-----------------------------------------------------------------------------
Execution(e) ==
    \/ BeginTransaction(e) \/ ExecuteStatement(e) \/ RollbackTransaction(e) \/ CommitTransaction(e)
    \/ \E err \in {"deadlock", "error"} : StatementFails(e, err)
    \/ GiveUp(e)

WorkerStep(w) == TakeTask(w) \/ Execution(w) \/ LockDeadlock(w) \/ RetryAsync(w)

CallerStep(e) == Execution(e) \/ RetryDirect(e)

Next ==
    \/ \E t \in Queued \cup Singles : Post(t)
    \/ \E e \in Callers, c \in Synch, t \in Directs : DirectCommit(e, c, t)
    \/ \E w \in Workers : WorkerStep(w)
    \/ \E e \in Callers : CallerStep(e)
    \/ \E e \in Threads : Reconnect(e) \/ Abort(e)
    \/ StopContext \/ CloseConnections
    \/ Terminated

Spec == Init /\ [][Next]_vars

(* The server answers, and a thread that can run is scheduled by the OS.   *)
(* The retries of a worker stop: its loop is bounded by the clock.         *)
FairSpec ==
    /\ Spec
    /\ \A w \in Workers : WF_vars(WorkerStep(w))
    /\ \A e \in Callers : WF_vars(CallerStep(e))

-----------------------------------------------------------------------------
(* Type invariant. *)
TypeOK ==
    /\ pool \in {"open", "closing", "closed", "aborted"}
    /\ queue \in Seq(Queued \cup Singles)
    /\ deadlockLock \in Workers \cup {None}
    /\ pc \in [Threads -> {"idle", "begin", "statement", "rollback", "commit", "failed", "dead"}]
    /\ task \in [Threads -> Transactions \cup {None}]
    /\ conn \in [Threads -> Connections \cup {None}]
    /\ \A w \in Workers : conn[w] = w
    /\ at \in [Threads -> Nat]
    /\ tries \in [Threads -> Nat]
    /\ code \in [Threads -> {"none", "deadlock", "error"}]
    /\ open \in [Connections -> BOOLEAN]
    /\ work \in [Connections -> Seq(Transactions \X Nat)]
    /\ losses \in 0..MaxLosses
    /\ log \in Seq(Transactions \X Nat)
    /\ posted \in Seq(Transactions)
    /\ answer \in [Transactions -> {"none", "done", "failed"}]

(* As long as no session is lost, the pool keeps the promise of            *)
(* AtomicCommits, whatever deadlocks, failures and retries interleave.     *)
Commits == INSTANCE AtomicCommits

CommitsSpec == Commits!Spec

(* A transaction takes effect as a whole or not at all: BeginTransaction   *)
(* promises an automatic rollback of what has not been committed.          *)
AllOrNothing ==
    \A t \in Transactions : answer[t] # "none" =>
        LET applied == {k \in 1..Size[t] : <<t, k>> \in ToSet(log)}
        IN  applied \in {{}, 1..Size[t]}

(* A connection that nobody is in the middle of a transaction on has none  *)
(* open at the server, in spite of failures and lost sessions: otherwise   *)
(* the next single statement would become part of it and be lost.          *)
NoTransactionLeftOpen ==
    \A c \in Connections :
        open[c] => \E e \in Threads : conn[e] = c /\ pc[e] \in {"statement", "rollback", "commit"}

(* With one worker thread, the default, what is posted is applied in the   *)
(* order of the posts: a save that follows another is not overtaken by it  *)
(* because of a deadlock or a lost session.                                *)
PostOrder ==
    \A i, j \in DOMAIN posted :
        i < j /\ {posted[i], posted[j]} \subseteq Queued \cup Singles =>
            \A k, l \in DOMAIN log :
                log[k][1] = posted[i] /\ log[l][1] = posted[j] => k < l

(* Nothing that was posted is lost by an orderly shutdown.  Violated: the   *)
(* io_context is stopped with tasks in its queue.                           *)
ClosedMeansDone ==
    pool = "closed" => \A i \in DOMAIN posted : answer[posted[i]] # "none"

(* Everything posted is answered, unless the process ends first: no thread *)
(* keeps the deadlock lock or a synchronous connection for ever.           *)
Answered ==
    \A t \in Transactions :
        t \in ToSet(posted) ~> answer[t] # "none" \/ pool # "open"
=============================================================================
