------------------------------- MODULE Totals -------------------------------
(***************************************************************************)
(* The arithmetic the seats and the money share: sums of tables of         *)
(* amounts, tables, and numbers kept from falling below zero or past       *)
(* another.                                                                *)
(***************************************************************************)
EXTENDS Integers, FiniteSets

Clip(n) == IF n < 0 THEN 0 ELSE n
Least(m, n) == IF m < n THEN m ELSE n

\* A table with one entry put in, or put in place of the one there was.
With(f, x, v) == [y \in DOMAIN f \cup {x} |-> IF y = x THEN v ELSE f[y]]

\* The sum of a function to counts, counted as a set of units.
Total(f) == Cardinality(UNION {{x} \X (1..f[x]) : x \in DOMAIN f})
=============================================================================
