----------------------------- MODULE SerialStore -----------------------------
(***************************************************************************)
(* What a caller of store.transaction is promised: a unit of work takes    *)
(* effect at most once and all at once, in some order, on what the earlier *)
(* ones left; a success has taken effect. A failure may have: a connection *)
(* can be lost after the commit. The work here is the one that matters     *)
(* most, taking one of the last seats of a route's day.                    *)
(***************************************************************************)
EXTENDS Integers, FiniteSets

CONSTANTS
    Units,      \* units of work, each one call of transaction()
    Pools,      \* the route-day pools
    PoolOf,     \* [Units -> Pools]: the pool each unit sells from
    Seats       \* seats of a pool

ASSUME UnitAssumption == IsFiniteSet(Units) /\ PoolOf \in [Units -> Pools] /\ Seats \in Nat

VARIABLES
    rows,       \* what took effect: a booking row <<unit, attempt>> for each seat sold
    answer      \* [Units -> what its caller was told]

vars == <<rows, answer>>

Sold(rs, p) == Cardinality({r \in rs : PoolOf[r[1]] = p})
TookEffect(t) == \E r \in rows : r[1] = t

Init == rows = {} /\ answer = [t \in Units |-> "open"]

Apply(t) ==
    /\ answer[t] = "open" /\ ~TookEffect(t)
    /\ Sold(rows, PoolOf[t]) < Seats
    /\ \E r \in rows' : r[1] = t /\ rows' = rows \cup {r}
    /\ UNCHANGED answer

Succeed(t) == answer[t] = "open" /\ TookEffect(t) /\ answer' = [answer EXCEPT ![t] = "done"] /\ UNCHANGED rows
Fail(t) == answer[t] = "open" /\ answer' = [answer EXCEPT ![t] = "failed"] /\ UNCHANGED rows

Next == \E t \in Units : Apply(t) \/ Succeed(t) \/ Fail(t)

Spec == Init /\ [][Next]_vars

NeverOversold == \A p \in Pools : Sold(rows, p) <= Seats
=============================================================================
