---------------------------- MODULE QuantitySums ----------------------------
(***************************************************************************)
(* Totals of quantities.  The program adds integer bag counts over rows of *)
(* a table; here a table of quantities is a function f from row keys to    *)
(* Nat and its total is the number of units it stands for: row x with      *)
(* quantity q contributes the q pairs <<x, 1>>, ..., <<x, q>>.  Counting   *)
(* the units keeps the definition free of recursion, so that the facts the *)
(* other modules need are proved in QuantitySumsProofs.                    *)
(***************************************************************************)
EXTENDS Integers, FiniteSets

UnitsOf(f, x) == {x} \X (1 .. f[x])

Units(f) == UNION {UnitsOf(f, x) : x \in DOMAIN f}

SumOf(f) == Cardinality(Units(f))

Lesser(m, n) == IF m <= n THEN m ELSE n

Greater(m, n) == IF m <= n THEN n ELSE m

\* How much of each row, in the given order, makes up the wanted weight: every
\* row gives what it has until the rest is small enough.
DrawInOrder(order, room, wanted) ==
    [i \in DOMAIN order |->
        Lesser(room[order[i]], Greater(wanted - SumOf([j \in 1 .. i - 1 |-> room[order[j]]]), 0))]
=============================================================================
