----------------------------- MODULE RequestSlots -----------------------------
(***************************************************************************)
(* What ordering promises a store: at most Quota of its requests are live  *)
(* in all sessions together, each under a number of its own in its         *)
(* session; a request ends alone or with its session.                      *)
(***************************************************************************)
EXTENDS Naturals, FiniteSets

CONSTANTS Stores, Rows, Quota

VARIABLE live       \* <<store, session, number>> of every live request

Init == live = {}

OfStore(st) == {x \in live : x[1] = st}

Submit(st, s, n) ==
    /\ Cardinality(OfStore(st)) < Quota
    /\ <<st, s, n>> \notin live
    /\ live' = live \cup {<<st, s, n>>}

End(x) == live' = live \ {x}
EndSession(s) == live' = {x \in live : x[2] # s}

Next ==
    \/ \E st \in Stores, s \in Rows, n \in 1 .. Quota : Submit(st, s, n)
    \/ \E x \in live : End(x)
    \/ \E s \in Rows : EndSession(s)

Spec == Init /\ [][Next]_live
=============================================================================
