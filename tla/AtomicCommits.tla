---------------------------- MODULE AtomicCommits ----------------------------
(***************************************************************************)
(* What the users of DatabaseWorkerPool rely on: a transaction is applied  *)
(* as a whole and once, its statements in the order they were appended,    *)
(* and a success that is reported is true, as is a failure.  Nothing is    *)
(* promised of a transaction that has not been answered.                   *)
(***************************************************************************)
EXTENDS Integers, Sequences

CONSTANTS Transactions,
          Size          \* the number of statements of each transaction

VARIABLES posted,       \* the transactions handed to the pool, in order
          answer,       \* what became of each: "none", "done" or "failed"
          log           \* the statements the database has applied, in order

vars == <<posted, answer, log>>

Statements(t) == [k \in 1..Size[t] |-> <<t, k>>]

Init ==
    /\ posted = <<>>
    /\ answer = [t \in Transactions |-> "none"]
    /\ log = <<>>

Post(t) ==
    /\ \A i \in DOMAIN posted : posted[i] # t
    /\ posted' = Append(posted, t)
    /\ UNCHANGED <<answer, log>>

Pending(t) ==
    /\ \E i \in DOMAIN posted : posted[i] = t
    /\ answer[t] = "none"

Succeed(t) ==
    /\ Pending(t)
    /\ answer' = [answer EXCEPT ![t] = "done"]
    /\ log' = log \o Statements(t)
    /\ UNCHANGED posted

Fail(t) ==
    /\ Pending(t)
    /\ answer' = [answer EXCEPT ![t] = "failed"]
    /\ UNCHANGED <<posted, log>>

Next == \E t \in Transactions : Post(t) \/ Succeed(t) \/ Fail(t)

Spec == Init /\ [][Next]_vars
=============================================================================
