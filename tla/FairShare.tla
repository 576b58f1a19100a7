------------------------------ MODULE FairShare ------------------------------
(***************************************************************************)
(* What one product's allocation promises, without saying how it is found. *)
(* A claim is whatever competes for the stock of the product; want[c] is   *)
(* the quantity it asks for and tier[c] its priority (a smaller tier is    *)
(* served first, as ALLOCATION_PRIORITIES orders P0A before P1).           *)
(*                                                                         *)
(* RoundRobin shows that the loop of allocateInventory keeps this promise, *)
(* and AllocationPipeline uses the promise in place of the loop.           *)
(***************************************************************************)
EXTENDS Integers, FiniteSets, QuantitySums

\* No claim is granted more than it asked for.
Bounded(want, grant) ==
    \A c \in DOMAIN want : grant[c] \in 0 .. want[c]

\* The stock is used up, or every claim is satisfied.
Exhaustive(want, available, grant) ==
    SumOf(grant) = Lesser(available, SumOf(want))

\* Nothing reaches a tier while a claim of an earlier tier is short.
PriorityFirst(want, tier, grant) ==
    \A high, low \in DOMAIN want :
        tier[high] < tier[low] /\ grant[low] > 0 => grant[high] = want[high]

\* Inside a tier the rounds fill evenly: a claim that is left short is at
\* most one unit behind every other claim of its tier.
LevelFill(want, tier, grant) ==
    \A short, other \in DOMAIN want :
        tier[short] = tier[other] /\ grant[short] < want[short]
            => grant[other] <= grant[short] + 1

IsFairShare(want, tier, available, grant) ==
    /\ Bounded(want, grant)
    /\ Exhaustive(want, available, grant)
    /\ PriorityFirst(want, tier, grant)
    /\ LevelFill(want, tier, grant)
=============================================================================
