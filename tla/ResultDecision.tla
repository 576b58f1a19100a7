--------------------------- MODULE ResultDecision ---------------------------
(***************************************************************************)
(* What one store is promised about one allocation result, without         *)
(* sessions, tickets, stock or shipments of other results.  The granted    *)
(* quantity is fixed when the result is published; while the result waits  *)
(* for the store, goods may only go back to the warehouse; the store       *)
(* answers once, and only what it accepts is issued or sent.               *)
(***************************************************************************)
EXTENDS Integers

VARIABLES
    status,     \* the answer, as a label of allocation_result_decisions
    granted,    \* bags the run granted
    returned,   \* bags that went back to the warehouse
    issued,     \* bags that left the warehouse's books for the store
    sent        \* the result's shipment has left

vars == <<status, granted, returned, issued, sent>>

Init ==
    /\ status = "none"
    /\ granted = 0 /\ returned = 0 /\ issued = 0
    /\ sent = FALSE

\* A result without goods needs no answer; goods of earlier results may leave.
Publish ==
    /\ status = "none"
    /\ granted' \in Nat
    /\ \/ granted' > 0 /\ status' = "pending" /\ sent' = FALSE
       \/ granted' = 0 /\ status' = "not_required" /\ sent' \in BOOLEAN
    /\ UNCHANGED <<returned, issued>>

\* Part of the goods is taken back; when nothing is left the result closes.
TakeBack ==
    /\ status = "pending"
    /\ returned' \in returned + 1 .. granted
    /\ status' = IF returned' = granted THEN "cancelled" ELSE "pending"
    /\ UNCHANGED <<granted, issued, sent>>

Accept ==
    /\ status = "pending" /\ returned < granted
    /\ status' = "accepted"
    /\ issued' = granted - returned
    /\ sent' \in BOOLEAN
    /\ UNCHANGED <<granted, returned>>

SendBack ==
    /\ status = "pending" /\ returned < granted
    /\ status' = "waitlisted"
    /\ returned' = granted
    /\ UNCHANGED <<granted, issued, sent>>

Next == Publish \/ TakeBack \/ Accept \/ SendBack

Spec == Init /\ [][Next]_vars
=============================================================================
