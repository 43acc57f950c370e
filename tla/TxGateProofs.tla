---------------------------- MODULE TxGateProofs ----------------------------
(***************************************************************************)
(* What the transaction gate guarantees for any number of units, attempts  *)
(* and connections: a retry runs alone, so nothing is retried twice, and   *)
(* store.transaction is a SerialStore through retries and lost sessions.   *)
(***************************************************************************)
EXTENDS TxGate, FiniteSetTheorems, SequenceTheorems, TLAPS

Types ==
    /\ rows \subseteq Units \X Nat /\ gate \subseteq Units /\ beside \subseteq Units /\ stale \subseteq Units
    /\ answer \in [Units -> {"open", "done", "failed"}]
    /\ pc \in [Units -> {"idle", "connecting", "waiting", "gated", "running", "ended", "unlocked", "pausing", "over"}]
    /\ attempt \in [Units -> Nat]
    /\ snapshot \in [Units -> SUBSET (Units \X Nat)]
    /\ outcome \in [Units -> {"none", "committed", "failed", "retry"}]

\* A session holds the gate from its grant to its end, and a retry's holds it with no other.
Holding ==
    /\ \A t \in Units : t \in gate <=> pc[t] \in {"gated", "running", "ended"}
    /\ \A t \in gate : Alone(t) => gate = {t}

\* Only a first attempt runs beside another, so only a first attempt is cancelled.
CancelledOnce ==
    /\ \A t \in Units : pc[t] = "running" /\ t \in beside => ~Alone(t)
    /\ \A t \in Units : pc[t] \in {"ended", "unlocked"} /\ outcome[t] = "retry" => ~Alone(t)
    /\ \A t \in Units : pc[t] = "pausing" => ~Alone(t)
    /\ \A t \in Units : attempt[t] <= 2

\* What a transaction that may still commit read of its pool is what is there.
Fresh ==
    \A t \in Units : pc[t] = "running" /\ t \notin stale =>
        {r \in rows : PoolOf[r[1]] = PoolOf[t]} = {r \in snapshot[t] : PoolOf[r[1]] = PoolOf[t]}

\* A unit that can still run has not taken effect; one that committed has.
Effect ==
    \A t \in Units :
        /\ pc[t] \notin {"ended", "unlocked", "over"} => ~TookEffect(t)
        /\ pc[t] \in {"ended", "unlocked"} /\ outcome[t] = "retry" => ~TookEffect(t)
        /\ pc[t] \in {"ended", "unlocked"} /\ outcome[t] = "committed" => TookEffect(t)
        /\ pc[t] # "over" => answer[t] = "open"

Safe == Types /\ Holding /\ CancelledOnce

\* The gate's invariant holds throughout.
THEOREM GateIsSafe == GateSpec => []Safe
<1> USE DEF Safe, Types, Holding, CancelledOnce, Alone, Running
<1>1. GateInit => Safe
  BY DEF GateInit, Init
<1>2. Safe /\ [GateNext]_gateVars => Safe'
  <2> SUFFICES ASSUME Safe, [GateNext]_gateVars PROVE Safe'
    OBVIOUS
  <2>0. CASE UNCHANGED gateVars
    BY <2>0 DEF gateVars
  <2>1. ASSUME NEW t \in Units, Start(t) PROVE Safe'
    BY <2>1 DEF Start, Goto, Session, Tx
  <2>2. ASSUME NEW t \in Units, Connect(t) PROVE Safe'
    BY <2>2 DEF Connect, Goto, Tx
  <2>3. ASSUME NEW t \in Units, Grant(t) PROVE Safe'
    BY <2>3 DEF Grant, Goto, Tx
  <2>4. ASSUME NEW t \in Units, Begin(t) PROVE Safe'
    BY <2>4 DEF Begin, Goto, Session
  <2>5. ASSUME NEW t \in Units, Commit(t) PROVE Safe'
    BY <2>5 DEF Commit, Write, End, Goto, Session
  <2>6. ASSUME NEW t \in Units, Refuse(t) PROVE Safe'
    BY <2>6 DEF Refuse, End, Goto, Session, Tx
  <2>7. ASSUME NEW t \in Units, Cancelled(t) PROVE Safe'
    BY <2>7 DEF Cancelled, End, Goto, Session, Tx
  <2>8. ASSUME NEW t \in Units, Unlock(t) PROVE Safe'
    BY <2>8 DEF Unlock, Goto, Tx
  <2>9. ASSUME NEW t \in Units, Release(t) PROVE Safe'
    BY <2>9 DEF Release, Goto, Session, Tx
  <2>10. ASSUME NEW t \in Units, Retry(t) PROVE Safe'
    BY <2>10 DEF Retry, Goto, Session, Tx
  <2>11. ASSUME NEW t \in Units, Lose(t) PROVE Safe'
    BY <2>11 DEF Lose, Write, Goto, Tx
  <2> QED
    BY <2>0, <2>1, <2>2, <2>3, <2>4, <2>5, <2>6, <2>7, <2>8, <2>9, <2>10, <2>11
       DEF GateNext, Step, AllOver
<1> QED
  BY <1>1, <1>2, PTL DEF GateSpec

\* A retry's transaction has no other of the store beside it ("A retry runs alone").
THEOREM RetriesRunAlone == GateSpec => []RetryRunsAlone
<1>1. Safe => RetryRunsAlone
  BY DEF Safe, Types, Holding, RetryRunsAlone, Running
<1> QED
  BY <1>1, GateIsSafe, PTL

\* Nothing is retried twice, so no unit is refused for want of attempts ("costs one retry, not a 500").
THEOREM OneRetryIsEnough == GateSpec => []CollisionCostsOneRetry
<1>1. Safe => CollisionCostsOneRetry
  BY DEF Safe, CancelledOnce, CollisionCostsOneRetry
<1> QED
  BY <1>1, GateIsSafe, PTL

-----------------------------------------------------------------------------
(* The gate's queue                                                        *)

\* Each unit whose session waits is in the queue, once, and nobody else is.
Lined(q, waits) ==
    /\ q \in Seq(Units)
    /\ \A i \in 1..Len(q) : q[i] \in waits
    /\ \A t \in waits : \E i \in 1..Len(q) : q[i] = t
    /\ \A i, j \in 1..Len(q) : q[i] = q[j] => i = j

Waiters == {t \in Units : pc[t] = "waiting"}
Orderly == Lined(queue, Waiters)

\* A session that asks for the lock joins the end of the queue.
LEMMA JoinLine ==
    ASSUME NEW q, NEW W, Lined(q, W), NEW t \in Units \ W
    PROVE  Lined(Append(q, t), W \cup {t})
<1>1. /\ Append(q, t) \in Seq(Units) /\ Len(Append(q, t)) = Len(q) + 1
      /\ Append(q, t)[Len(q) + 1] = t
      /\ \A i \in 1..Len(q) : Append(q, t)[i] = q[i]
  BY DEF Lined
<1> QED
  BY <1>1 DEF Lined

\* Removing the i-th moves those behind it up by one.
LEMMA RemovedAt ==
    ASSUME NEW q \in Seq(Units), NEW i \in 1..Len(q)
    PROVE  /\ RemoveAt(q, i) \in Seq(Units) /\ Len(RemoveAt(q, i)) = Len(q) - 1
           /\ \A j \in 1..Len(q) - 1 : RemoveAt(q, i)[j] = IF j < i THEN q[j] ELSE q[j + 1]
<1> DEFINE before == SubSeq(q, 1, i - 1)
           after == SubSeq(q, i + 1, Len(q))
<1>1. /\ before \in Seq(Units) /\ Len(before) = i - 1
      /\ \A j \in 1..i - 1 : before[j] = q[j]
  OBVIOUS
<1>2. /\ after \in Seq(Units) /\ Len(after) = Len(q) - i
      /\ \A j \in 1..Len(q) - i : after[j] = q[j + i]
  OBVIOUS
<1>3. RemoveAt(q, i) = before \o after
  BY DEF RemoveAt
<1> HIDE DEF before, after
<1>4. /\ before \o after \in Seq(Units) /\ Len(before \o after) = Len(before) + Len(after)
      /\ \A j \in 1..Len(before) + Len(after) :
            (before \o after)[j] = IF j <= Len(before) THEN before[j] ELSE after[j - Len(before)]
  BY <1>1, <1>2, ConcatProperties
<1> QED
  BY <1>1, <1>2, <1>3, <1>4

\* The queue without its i-th holds the other units, once each.
LEMMA OneLess ==
    ASSUME NEW q, NEW W, Lined(q, W), NEW i \in 1..Len(q), NEW r \in Seq(Units), Len(r) = Len(q) - 1,
           \A j \in 1..Len(q) - 1 : r[j] = IF j < i THEN q[j] ELSE q[j + 1]
    PROVE  Lined(r, W \ {q[i]})
<1>1. \A j \in 1..Len(r) : r[j] \in W \ {q[i]}
  BY DEF Lined
<1>2. ASSUME NEW u \in W \ {q[i]} PROVE \E j \in 1..Len(r) : r[j] = u
  <2>1. PICK k \in 1..Len(q) : q[k] = u
    BY DEF Lined
  <2>2. CASE k < i
    <3>1. k \in 1..Len(r) /\ r[k] = u
      BY <2>1, <2>2 DEF Lined
    <3> QED
      BY <3>1
  <2>3. CASE k > i
    <3>1. k - 1 \in 1..Len(r) /\ r[k - 1] = u
      BY <2>1, <2>3 DEF Lined
    <3> QED
      BY <3>1
  <2> QED
    BY <2>1, <2>2, <2>3
<1>3. \A j, k \in 1..Len(r) : r[j] = r[k] => j = k
  BY DEF Lined
<1> QED
  BY <1>1, <1>2, <1>3 DEF Lined

\* The session at the head of the queue is granted the lock, and leaves it.
LEMMA HeadLeaves ==
    ASSUME NEW q, NEW W, Lined(q, W), q # <<>>
    PROVE  Lined(Tail(q), W \ {q[1]})
<1>1. 1 \in 1..Len(q)
  BY DEF Lined
<1> DEFINE r == Tail(q)
<1>2. r \in Seq(Units) /\ Len(r) = Len(q) - 1 /\ \A j \in 1..Len(r) : r[j] = q[j + 1]
  BY HeadTailProperties DEF Lined
<1>3. \A j \in 1..Len(q) - 1 : r[j] = IF j < 1 THEN q[j] ELSE q[j + 1]
  BY <1>2
<1> HIDE DEF r
<1>4. Lined(r, W \ {q[1]})
  BY <1>1, <1>2, <1>3, OneLess
<1> QED
  BY <1>4 DEF r

\* A lost session leaves the queue from wherever it stood.
LEMMA LeaveLine ==
    ASSUME NEW q, NEW W, Lined(q, W), NEW i \in 1..Len(q)
    PROVE  Lined(RemoveAt(q, i), W \ {q[i]})
<1> DEFINE r == RemoveAt(q, i)
<1>1. /\ r \in Seq(Units) /\ Len(r) = Len(q) - 1
      /\ \A j \in 1..Len(q) - 1 : r[j] = IF j < i THEN q[j] ELSE q[j + 1]
  BY RemovedAt DEF Lined
<1> HIDE DEF r
<1>2. Lined(r, W \ {q[i]})
  BY <1>1, OneLess
<1> QED
  BY <1>2 DEF r

\* The queue and what the units do agree throughout, through granted, lost and retried sessions.
THEOREM GateIsOrderly == GateSpec => []Orderly
<1>1. GateInit => Orderly
  BY DEF GateInit, Orderly, Lined, Waiters
<1>2. Safe /\ Orderly /\ [GateNext]_gateVars => Orderly'
  <2> SUFFICES ASSUME Safe, Orderly, [GateNext]_gateVars PROVE Orderly'
    OBVIOUS
  <2> USE DEF Safe, Types
  <2>0. ASSUME UNCHANGED queue, Waiters' = Waiters PROVE Orderly'
    BY <2>0 DEF Orderly, Lined
  <2>1. ASSUME NEW t \in Units, Connect(t) PROVE Orderly'
    <3>1. t \in Units \ Waiters /\ Waiters' = Waiters \cup {t} /\ queue' = Append(queue, t)
      BY <2>1 DEF Connect, Goto, Waiters
    <3> QED
      BY <3>1, JoinLine DEF Orderly
  <2>2. ASSUME NEW t \in Units, Grant(t) PROVE Orderly'
    <3>1. t \in Waiters /\ Waiters' = Waiters \ {t} /\ t = Head(queue) /\ queue' = Tail(queue)
      BY <2>2 DEF Grant, Goto, Waiters
    <3>2. queue # <<>> /\ queue \in Seq(Units)
      BY <3>1 DEF Orderly, Lined
    <3>3. queue[1] = t
      BY <3>1, <3>2
    <3> QED
      BY <3>1, <3>2, <3>3, HeadLeaves DEF Orderly
  <2>3. ASSUME NEW t \in Units, Lose(t) PROVE Orderly'
    <3>1. CASE pc[t] = "waiting"
      <4>1. PICK i \in 1..Len(queue) : queue[i] = t /\ queue' = RemoveAt(queue, i)
        BY <2>3, <3>1 DEF Lose
      <4>2. Waiters' = Waiters \ {t}
        BY <2>3 DEF Lose, Goto, Waiters
      <4> QED
        BY <4>1, <4>2, LeaveLine DEF Orderly
    <3>2. CASE pc[t] # "waiting"
      <4>1. UNCHANGED queue /\ Waiters' = Waiters
        BY <2>3, <3>2 DEF Lose, Goto, Waiters
      <4> QED
        BY <4>1, <2>0
    <3> QED
      BY <3>1, <3>2
  <2>4. ASSUME NEW t \in Units,
               Start(t) \/ Begin(t) \/ Commit(t) \/ Refuse(t) \/ Cancelled(t) \/ Unlock(t) \/ Release(t) \/ Retry(t)
        PROVE  Orderly'
    <3>1. UNCHANGED queue
      BY <2>4 DEF Start, Begin, Commit, Refuse, Cancelled, Unlock, Release, Retry, Session
    <3>2. Waiters' = Waiters
      BY <2>4 DEF Start, Begin, Commit, Refuse, Cancelled, Unlock, Release, Retry, End, Goto, Waiters
    <3> QED
      BY <3>1, <3>2, <2>0
  <2>5. CASE UNCHANGED gateVars
    BY <2>5, <2>0 DEF gateVars, Waiters
  <2> QED
    BY <2>1, <2>2, <2>3, <2>4, <2>5 DEF GateNext, Step, AllOver
<1> QED
  BY <1>1, <1>2, GateIsSafe, PTL DEF GateSpec

(* A session holds the gate or waits for it only while its attempt has a   *)
(* connection (transaction's finally): a lost session, an error or a       *)
(* finished attempt never leaves the lock behind for a later retry to wait *)
(* on.                                                                     *)
THEOREM GateStaysKept == GateSpec => []GateKept
<1>1. Safe /\ Orderly => GateKept
  BY DEF Safe, Types, Holding, Orderly, Lined, Waiters, GateKept, GateTypeOK, GateNotLeaked
<1> QED
  BY <1>1, GateIsSafe, GateIsOrderly, PTL

-----------------------------------------------------------------------------
Serial == Types /\ Fresh /\ Effect

\* What is read and what is answered agree with the rows throughout.
THEOREM GateIsSerial == GateSpec => []Serial
<1> USE DEF Serial, Types, Fresh, Effect, TookEffect, Running
<1>1. GateInit => Serial
  BY DEF GateInit, Init
<1>2. Serial /\ [GateNext]_gateVars => Serial'
  <2> SUFFICES ASSUME Serial, [GateNext]_gateVars PROVE Serial'
    OBVIOUS
  <2>0. CASE UNCHANGED gateVars
    BY <2>0 DEF gateVars
  <2>1. ASSUME NEW t \in Units, Start(t) PROVE Serial'
    BY <2>1 DEF Start, Goto, Session, Tx
  <2>2. ASSUME NEW t \in Units, Connect(t) PROVE Serial'
    BY <2>2 DEF Connect, Goto, Tx
  <2>3. ASSUME NEW t \in Units, Grant(t) PROVE Serial'
    BY <2>3 DEF Grant, Goto, Tx
  <2>4. ASSUME NEW t \in Units, Begin(t) PROVE Serial'
    BY <2>4 DEF Begin, Goto, Session
  <2>5. ASSUME NEW t \in Units, Commit(t) PROVE Serial'
    <3> DEFINE row == <<t, attempt[t]>>
    <3>1. rows' = rows \cup {row} /\ row[1] = t /\ row \in Units \X Nat
      BY <2>5 DEF Commit, Write
    <3>2. pc' = [pc EXCEPT ![t] = "ended"] /\ outcome' = [outcome EXCEPT ![t] = "committed"]
      BY <2>5 DEF Commit, End, Goto
    <3>3. stale' = stale \cup {u \in Running \ {t} : PoolOf[u] = PoolOf[t]} /\ beside' = beside
      BY <2>5 DEF Commit, Write
    <3>4. UNCHANGED <<answer, attempt, gate, snapshot>>
      BY <2>5 DEF Commit, Write, Session
    <3> HIDE DEF row
    <3>5. Types'
      BY <3>1, <3>2, <3>3, <3>4
    <3>6. Fresh'
      BY <3>1, <3>2, <3>3, <3>4
    <3>7. Effect'
      BY <3>1, <3>2, <3>4, <2>5 DEF Commit
    <3> QED
      BY <3>5, <3>6, <3>7
  <2>6. ASSUME NEW t \in Units, Refuse(t) PROVE Serial'
    BY <2>6 DEF Refuse, End, Goto, Session, Tx
  <2>7. ASSUME NEW t \in Units, Cancelled(t) PROVE Serial'
    BY <2>7 DEF Cancelled, End, Goto, Session, Tx
  <2>8. ASSUME NEW t \in Units, Unlock(t) PROVE Serial'
    BY <2>8 DEF Unlock, Goto, Tx
  <2>9. ASSUME NEW t \in Units, Release(t) PROVE Serial'
    BY <2>9 DEF Release, Goto, Session, Tx
  <2>10. ASSUME NEW t \in Units, Retry(t) PROVE Serial'
    BY <2>10 DEF Retry, Goto, Session, Tx
  <2>11. ASSUME NEW t \in Units, Lose(t) PROVE Serial'
    BY <2>11 DEF Lose, Write, Goto, Tx
  <2> QED
    BY <2>0, <2>1, <2>2, <2>3, <2>4, <2>5, <2>6, <2>7, <2>8, <2>9, <2>10, <2>11
       DEF GateNext, Step, AllOver
<1> QED
  BY <1>1, <1>2, PTL DEF GateSpec

\* A transaction that may write its row applies its unit: the room it saw is the room there is.
LEMMA WriteApplies ==
    ASSUME Serial, NEW t \in Units, pc[t] = "running", Write(t), answer' = answer
    PROVE  Apply(t)
<1>1. Sold(rows, PoolOf[t]) = Sold(snapshot[t], PoolOf[t])
  BY DEF Serial, Fresh, Write, Sold
<1> QED
  BY <1>1 DEF Serial, Effect, Write, HasRoom, Apply

(* The store implements SerialStore: every step of an attempt, whatever    *)
(* retries and lost connections do, applies a unit once, answers it, or    *)
(* does nothing a caller can see.                                          *)
THEOREM TransactionIsSerial == GateSpec => ImplementsSerialStore
<1>1. GateInit => Init
  BY DEF GateInit
<1>2. Serial /\ [GateNext]_gateVars => [Next]_vars
  <2> SUFFICES ASSUME Serial, [GateNext]_gateVars PROVE [Next]_vars
    OBVIOUS
  <2> USE DEF vars
  <2>1. CASE UNCHANGED gateVars
    BY <2>1 DEF gateVars
  <2>2. ASSUME NEW t \in Units, Commit(t) PROVE [Next]_vars
    BY <2>2, WriteApplies DEF Commit, Next
  <2>3. ASSUME NEW t \in Units, Release(t) PROVE [Next]_vars
    <3>1. CASE outcome[t] = "retry"
      BY <2>3, <3>1 DEF Release
    <3>2. CASE outcome[t] = "committed"
      BY <2>3, <3>2 DEF Release, Serial, Effect, Succeed, Next
    <3>3. CASE outcome[t] \notin {"retry", "committed"}
      BY <2>3, <3>3 DEF Release, Serial, Effect, Fail, Next
    <3> QED
      BY <3>1, <3>2, <3>3
  <2>4. ASSUME NEW t \in Units, Lose(t) PROVE [Next]_vars
    BY <2>4, WriteApplies DEF Lose, Next
  <2>5. ASSUME NEW t \in Units, Step(t) PROVE [Next]_vars
    BY <2>2, <2>3, <2>5
       DEF Step, Start, Connect, Grant, Begin, Refuse, Cancelled, Unlock, Retry
  <2> QED
    BY <2>1, <2>4, <2>5 DEF GateNext, AllOver
<1> QED
  BY <1>1, <1>2, GateIsSerial, PTL DEF GateSpec, ImplementsSerialStore, Spec

-----------------------------------------------------------------------------
\* A new row counts one more for its pool, and none for the others.
LEMMA SoldOneMore ==
    ASSUME NEW rs, IsFiniteSet(rs), NEW r, r \notin rs, NEW p
    PROVE  Sold(rs \cup {r}, p) = IF PoolOf[r[1]] = p THEN Sold(rs, p) + 1 ELSE Sold(rs, p)
<1> DEFINE S == {q \in rs : PoolOf[q[1]] = p}
<1>1. IsFiniteSet(S)
  BY FS_Subset
<1>2. CASE PoolOf[r[1]] = p
  <2>1. {q \in rs \cup {r} : PoolOf[q[1]] = p} = S \cup {r}
    BY <1>2
  <2>2. Cardinality(S \cup {r}) = Cardinality(S) + 1
    BY <1>1, FS_AddElement
  <2> QED
    BY <1>2, <2>1, <2>2 DEF Sold
<1>3. CASE PoolOf[r[1]] # p
  <2>1. {q \in rs \cup {r} : PoolOf[q[1]] = p} = S
    BY <1>3
  <2> QED
    BY <1>3, <2>1 DEF Sold
<1> QED
  BY <1>2, <1>3

\* The abstract store never sells a pool past its seats.
THEOREM SerialNeverOversells == Spec => [](IsFiniteSet(rows) /\ NeverOversold)
<1> DEFINE I == IsFiniteSet(rows) /\ NeverOversold
<1>1. Init => I
  <2>1. ASSUME NEW p PROVE Sold({}, p) = 0
    <3>1. {r \in {} : PoolOf[r[1]] = p} = {}
      OBVIOUS
    <3> QED
      BY <3>1, FS_EmptySet DEF Sold
  <2> QED
    BY <2>1, FS_EmptySet, UnitAssumption DEF Init, NeverOversold
<1>2. I /\ [Next]_vars => I'
  <2> SUFFICES ASSUME I, [Next]_vars PROVE I'
    OBVIOUS
  <2>1. ASSUME NEW t \in Units, Apply(t) PROVE I'
    <3>1. PICK r \in rows' : r[1] = t /\ rows' = rows \cup {r}
      BY <2>1 DEF Apply
    <3>2. r \notin rows
      BY <2>1, <3>1 DEF Apply, TookEffect
    <3>3. ASSUME NEW p \in Pools PROVE Sold(rows', p) <= Seats
      <4>1. Sold(rows, p) \in Nat
        <5>1. IsFiniteSet({q \in rows : PoolOf[q[1]] = p})
          BY FS_Subset
        <5> QED
          BY <5>1, FS_CardinalityType DEF Sold
      <4>2. Sold(rows', p) = IF PoolOf[t] = p THEN Sold(rows, p) + 1 ELSE Sold(rows, p)
        BY <3>1, <3>2, SoldOneMore
      <4> QED
        BY <2>1, <4>1, <4>2, UnitAssumption DEF Apply, NeverOversold
    <3>4. IsFiniteSet(rows')
      BY <3>1, FS_AddElement
    <3> QED
      BY <3>3, <3>4 DEF NeverOversold
  <2>2. ASSUME UNCHANGED rows PROVE I'
    BY <2>2 DEF NeverOversold, Sold
  <2> QED
    BY <2>1, <2>2 DEF Next, Succeed, Fail, vars
<1> QED
  BY <1>1, <1>2, PTL DEF Spec

\* Two writers never sell a pool's last seat twice, whatever collides, is retried or is lost.
THEOREM GateNeverOversells == GateSpec => []NeverOversold
  BY TransactionIsSerial, SerialNeverOversells, PTL DEF ImplementsSerialStore
=============================================================================
