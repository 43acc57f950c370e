------------------------------- MODULE TxGate -------------------------------
(***************************************************************************)
(* PostgresOperationsStore.transaction: a serializable unit of work, with  *)
(* its connection from the pool, the gate (an advisory lock held shared by *)
(* a first attempt, alone by a retry), PostgreSQL's serialization failures *)
(* and the retry loop.                                                     *)
(*                                                                         *)
(* PostgreSQL is external, and modelled by what the code relies on: the    *)
(* lock's queue is first come first served; a snapshot is taken when the   *)
(* transaction begins; one cannot commit if another that committed since   *)
(* wrote what it read (its own pool); any transaction that ran beside      *)
(* another may be cancelled, since predicate locks are coarse; and a       *)
(* session that is lost gives its locks back.                              *)
(***************************************************************************)
EXTENDS SerialStore, Sequences, SequencesExt

CONSTANTS
    PoolSize,   \* connections of the instance's pool
    Attempts,   \* TRANSACTION_ATTEMPTS
    CanLose     \* whether connections can be lost

ASSUME GateAssumption ==
    PoolSize \in Nat \ {0} /\ Attempts \in Nat \ {0} /\ CanLose \in BOOLEAN

VARIABLES
    pc,         \* [Units -> where its attempt is]
    attempt,    \* [Units -> Nat]
    gate,       \* units whose session holds the gate
    queue,      \* units whose session waits for it, first come first
    snapshot,   \* [Units -> the rows its transaction sees]
    beside,     \* units whose transaction ran beside another one
    stale,      \* units whose pool another transaction wrote and committed since their snapshot
    outcome     \* [Units -> what the attempt came to]

gateVars == <<rows, answer, pc, attempt, gate, queue, snapshot, beside, stale, outcome>>

\* Mutant: a retry takes the gate shared, as a first attempt does.
NeverAlone(t) == FALSE

Alone(t) == attempt[t] > 1
Connected == {t \in Units : pc[t] \in {"waiting", "gated", "running", "ended", "unlocked"}}
Running == {t \in Units : pc[t] = "running"}

Goto(t, at) == pc' = [pc EXCEPT ![t] = at]
Session == <<gate, queue>>
Tx == <<snapshot, beside, stale>>

-----------------------------------------------------------------------------
(* Getting a connection and the gate                                       *)

Start(t) ==
    /\ pc[t] = "idle"
    /\ attempt' = [attempt EXCEPT ![t] = 1]
    /\ Goto(t, "connecting")
    /\ UNCHANGED <<rows, answer, outcome, Session, Tx>>

\* pool.connect, then pg_advisory_lock or pg_advisory_lock_shared joins the queue.
Connect(t) ==
    /\ pc[t] = "connecting"
    /\ Cardinality(Connected) < PoolSize
    /\ Goto(t, "waiting")
    /\ queue' = Append(queue, t)
    /\ UNCHANGED <<rows, answer, attempt, gate, outcome, Tx>>

\* Mutant: a retry does not wait for the transactions in flight.
GrantAtOnce(t) ==
    /\ pc[t] = "waiting" /\ t = Head(queue)
    /\ gate' = gate \cup {t}
    /\ queue' = Tail(queue)
    /\ Goto(t, "gated")
    /\ UNCHANGED <<rows, answer, attempt, outcome, Tx>>

Grant(t) ==
    /\ pc[t] = "waiting" /\ t = Head(queue)
    /\ IF Alone(t) THEN gate = {} ELSE \A u \in gate : ~Alone(u)
    /\ gate' = gate \cup {t}
    /\ queue' = Tail(queue)
    /\ Goto(t, "gated")
    /\ UNCHANGED <<rows, answer, attempt, outcome, Tx>>

-----------------------------------------------------------------------------
(* The transaction                                                         *)

\* BEGIN ISOLATION LEVEL SERIALIZABLE and the first statement of the work.
Begin(t) ==
    /\ pc[t] = "gated"
    /\ Goto(t, "running")
    /\ snapshot' = [snapshot EXCEPT ![t] = rows]
    /\ beside' = IF Running = {} THEN beside \ {t} ELSE beside \cup Running \cup {t}
    /\ stale' = stale \ {t}
    /\ UNCHANGED <<rows, answer, attempt, outcome, Session>>

HasRoom(t) == Sold(snapshot[t], PoolOf[t]) < Seats
Write(t) ==
    /\ HasRoom(t) /\ t \notin stale
    /\ rows' = rows \cup {<<t, attempt[t]>>}
    /\ stale' = stale \cup {u \in Running \ {t} : PoolOf[u] = PoolOf[t]}
    /\ UNCHANGED <<snapshot, beside>>

End(t, with) == Goto(t, "ended") /\ outcome' = [outcome EXCEPT ![t] = with]

Commit(t) ==
    /\ pc[t] = "running"
    /\ Write(t)
    /\ End(t, "committed")
    /\ UNCHANGED <<answer, attempt, Session>>

\* The work refuses: no room left. Its error is not retryable.
Refuse(t) ==
    /\ pc[t] = "running" /\ ~HasRoom(t)
    /\ End(t, "failed")
    /\ UNCHANGED <<rows, answer, attempt, Session, Tx>>

\* 40001 or 40P01, at any statement or at the commit: rolled back, and retried unless it was the last attempt.
Cancelled(t) ==
    /\ pc[t] = "running" /\ t \in beside
    /\ End(t, IF attempt[t] >= Attempts THEN "failed" ELSE "retry")
    /\ UNCHANGED <<rows, answer, attempt, Session, Tx>>

-----------------------------------------------------------------------------
(* Giving the gate and the connection back                                 *)

\* Mutant: the gate is not given back.
UnlockNothing(t) ==
    /\ pc[t] = "ended"
    /\ Goto(t, "unlocked")
    /\ UNCHANGED <<rows, answer, attempt, gate, queue, outcome, Tx>>

Unlock(t) ==
    /\ pc[t] = "ended"
    /\ gate' = gate \ {t}
    /\ Goto(t, "unlocked")
    /\ UNCHANGED <<rows, answer, attempt, queue, outcome, Tx>>

\* Mutant: the attempt's outcome is answered as it is.
ReleaseOutcome(t) ==
    /\ pc[t] = "unlocked"
    /\ Goto(t, "over")
    /\ answer' = [answer EXCEPT ![t] = outcome[t]]
    /\ UNCHANGED <<rows, attempt, outcome, Session, Tx>>

\* The client goes back to the pool; the caller is answered, or the loop goes round.
Release(t) ==
    /\ pc[t] = "unlocked"
    /\ IF outcome[t] = "retry"
       THEN Goto(t, "pausing") /\ UNCHANGED answer
       ELSE /\ Goto(t, "over")
            /\ answer' = [answer EXCEPT ![t] = IF outcome[t] = "committed" THEN "done" ELSE "failed"]
    /\ UNCHANGED <<rows, attempt, outcome, Session, Tx>>

Retry(t) ==
    /\ pc[t] = "pausing"
    /\ attempt' = [attempt EXCEPT ![t] = @ + 1]
    /\ Goto(t, "connecting")
    /\ UNCHANGED <<rows, answer, outcome, Session, Tx>>

\* Mutants: a lost connection is retried, its commit perhaps done; or goes back to the pool with its lock.
LoseAndRetry(t) ==
    /\ CanLose /\ pc[t] = "running" /\ attempt[t] < Attempts
    /\ gate' = gate \ {t}
    /\ Goto(t, "unlocked")
    /\ outcome' = [outcome EXCEPT ![t] = "retry"]
    /\ UNCHANGED <<rows, Tx>> \/ Write(t)
    /\ UNCHANGED <<answer, attempt, queue>>
LoseAndPool(t) ==
    /\ CanLose /\ pc[t] = "running"
    /\ Goto(t, "unlocked")
    /\ outcome' = [outcome EXCEPT ![t] = "failed"]
    /\ UNCHANGED <<rows, answer, attempt, Session, Tx>>

(* The connection is lost, before the commit or after it: the session's    *)
(* locks go, the connection is closed instead of pooled. An attempt that   *)
(* had ended keeps its outcome; one still running fails, its commit        *)
(* perhaps done.                                                           *)
Lose(t) ==
    /\ CanLose /\ pc[t] \in {"waiting", "gated", "running", "ended"}
    /\ gate' = gate \ {t}
    /\ IF pc[t] = "waiting" THEN \E i \in 1..Len(queue) : queue[i] = t /\ queue' = RemoveAt(queue, i) ELSE UNCHANGED queue
    /\ Goto(t, "unlocked")
    /\ outcome' = IF pc[t] = "ended" THEN outcome ELSE [outcome EXCEPT ![t] = "failed"]
    /\ UNCHANGED <<rows, Tx>> \/ (pc[t] = "running" /\ Write(t))
    /\ UNCHANGED <<answer, attempt>>

-----------------------------------------------------------------------------
GateInit ==
    /\ Init
    /\ pc = [t \in Units |-> "idle"]
    /\ attempt = [t \in Units |-> 0]
    /\ gate = {} /\ queue = <<>>
    /\ snapshot = [t \in Units |-> {}]
    /\ beside = {} /\ stale = {}
    /\ outcome = [t \in Units |-> "none"]

Step(t) ==
    \/ Start(t) \/ Connect(t) \/ Grant(t)
    \/ Begin(t) \/ Commit(t) \/ Refuse(t) \/ Cancelled(t)
    \/ Unlock(t) \/ Release(t) \/ Retry(t)

AllOver == (\A t \in Units : pc[t] = "over") /\ UNCHANGED gateVars

GateNext == (\E t \in Units : Step(t) \/ Lose(t)) \/ AllOver

(* Every step of an attempt is a query PostgreSQL answers or a promise the *)
(* event loop settles; connections may be lost, but need not be.           *)
GateSpec == GateInit /\ [][GateNext]_gateVars /\ \A t \in Units : WF_gateVars(Step(t))

-----------------------------------------------------------------------------
(* Properties                                                              *)

GateTypeOK ==
    /\ rows \subseteq Units \X Nat /\ gate \subseteq Units /\ beside \subseteq Units /\ stale \subseteq Units
    /\ answer \in [Units -> {"open", "done", "failed"}]
    /\ pc \in [Units -> {"idle", "connecting", "waiting", "gated", "running", "ended", "unlocked", "pausing", "over"}]
    /\ attempt \in [Units -> Nat]
    /\ queue \in Seq(Units)
    /\ snapshot \in [Units -> SUBSET (Units \X Nat)]
    /\ outcome \in [Units -> {"none", "committed", "failed", "retry"}]

(* A retry runs alone: while its session holds the gate no other           *)
(* transaction of the store is open (README: none runs beside it).         *)
RetryRunsAlone == \A t \in Running : Alone(t) => Running = {t}

(* A collision costs one retry, not a 500: no unit is cancelled twice,     *)
(* whatever the other writers do, so none runs out of attempts.            *)
CollisionCostsOneRetry == \A t \in Units : attempt[t] <= 2

(* The gate is never leaked: a session holds it or waits for it only       *)
(* while its attempt has a connection, so no later writer waits for ever.  *)
GateNotLeaked ==
    \A t \in Units :
        /\ t \in gate => pc[t] \in {"gated", "running", "ended"}
        /\ (\E i \in 1..Len(queue) : queue[i] = t) => pc[t] = "waiting"

\* The gate's state is one the store and PostgreSQL can be in, and holds nobody who is gone.
GateKept == GateTypeOK /\ GateNotLeaked

\* The store does what SerialStore promises, through every retry and lost connection.
ImplementsSerialStore == Spec

\* Every unit of work is answered in the end.
EveryUnitAnswered == \A t \in Units : <>(answer[t] # "open")
=============================================================================
