------------------------ MODULE MCAllocationPipeline ------------------------
(***************************************************************************)
(* Instances of AllocationPipeline for TLC.                                *)
(***************************************************************************)
EXTENDS AllocationPipeline, TLC

CONSTANTS s1, s2, p1, p2

\* The stores are interchangeable where both wait for the same quantity.
Permuted == Permutations(Store)

\* Two sessions in a row: the second takes orders after the first is due.
SuccessiveSnapshots == [n \in Session |-> 2 * n - 1]
SuccessiveFinals == [n \in Session |-> 2 * n]

\* Two sessions that take their snapshots together and fall due in turn.
CommonSnapshots == [n \in Session |-> 1]
StaggeredFinals == [n \in Session |-> n + 1]

OneInStock == [p \in Product |-> 1]
TwoInStock == [p \in Product |-> 2]

FirstStoreWaits == [pair \in Pair |-> IF pair = <<s1, p1>> THEN 2 ELSE 0]
EachPairWaits == [pair \in Pair |-> 1]
=============================================================================
