------------------------------ MODULE MCTxGate ------------------------------
(* A small instance of TxGate: units of work on one pool of seats.         *)
EXTENDS TxGate

CONSTANTS u1, u2, u3, p1

OnePool == [t \in Units |-> p1]
=============================================================================
