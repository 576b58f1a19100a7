--------------------------- MODULE ReshareHistory ---------------------------
(***************************************************************************)
(* The RE order of an allocation result, the acknowledgement managers set  *)
(* on it, and the history shown for both.  A store accepts its result,     *)
(* which creates the one RE order of that result and issues its goods; a   *)
(* manager marks the result ordered or not ordered from the page loaded    *)
(* before; an operator backfills RE orders of results accepted before RE   *)
(* orders existed, from a plan reviewed earlier; meanwhile goods are       *)
(* revoked and receipts settle.  A row of the page is one result.          *)
(*                                                                         *)
(* A commit locks the row of the result, so commits about one result are   *)
(* atomic here; each takes its time under that lock, so the order of the   *)
(* history is the order of the commits.                                    *)
(***************************************************************************)
EXTENDS Naturals, Sequences, FiniteSets, FiniteSetsExt

CONSTANTS Results,      \* published results: one store of one allocation run
          Lines,        \* allocation lines of a result that granted goods
          Granted,      \* bags each line was granted
          Legacy,       \* results accepted before RE orders existed
          Managers,     \* administrators and HTKD
          MaxVersion    \* acknowledgements modelled for one result

ReshareAssumption ==
    /\ Granted \in [Results -> [Lines -> Nat \ {0}]]
    /\ Legacy \subseteq Results
    /\ MaxVersion \in Nat

VARIABLES decision,   \* status of each result
          hold,       \* the hold of each line
          order,      \* the RE order of a result: at most one [origin, quantity]
          linked,     \* lines ordered from the supplier by hand
          manual,     \* the acknowledgement: "none", "ordered" or "not_ordered"
          version,    \* how often it was changed
          events,     \* the history of a result, oldest first
          page,       \* what each manager's page shows of a result
          plan,       \* eligible results of the reviewed cutover plan: at most one set
          left        \* how often the goods of a line left the warehouse

vars == <<decision, hold, order, linked, manual, version, events, page, plan, left>>

Statuses == {"ordered", "not_ordered"}

Quantity(d, S) == MapThenSumSet(LAMBDA l : Granted[d][l], S)

Held(d, status) == {l \in Lines : hold[d][l] = status}

Actionable(d) == Lines \ Held(d, "revoked")

\* The status a page shows: the acknowledgement wins over the document.
EffectiveOf(m, o) == IF m # "none" THEN m ELSE IF o = {} THEN "not_ordered" ELSE "ordered"

Effective(d) == EffectiveOf(manual[d], order[d])

Row(d) == [status |-> Effective(d), version |-> version[d]]

-----------------------------------------------------------------------------

Init ==
    /\ decision = [d \in Results |-> IF d \in Legacy THEN "accepted" ELSE "pending"]
    /\ hold \in [Results -> [Lines -> {"active", "received"}]]
    /\ \A d \in Results \ Legacy, l \in Lines : hold[d][l] = "active"
    /\ order = [d \in Results |-> {}]
    /\ linked = {}
    /\ manual = [d \in Results |-> "none"]
    /\ version = [d \in Results |-> 0]
    /\ events = [d \in Results |-> <<>>]
    /\ page = [u \in Managers |-> [d \in Results |-> Row(d)]]
    /\ plan = {}
    /\ left = [d \in Results |-> [l \in Lines |-> IF hold[d][l] = "received" THEN 1 ELSE 0]]

\* A manager opens or refreshes the page, which shows every answerable result.
Load(u) ==
    /\ page' = [page EXCEPT ![u] = [d \in Results |->
                    IF decision[d] \in {"pending", "accepted"} THEN Row(d) ELSE @[d]]]
    /\ UNCHANGED <<decision, hold, order, linked, manual, version, events, plan, left>>

\* A manager presses the button of a row: the other status, if the row is still
\* what the page shows.  A row asked for the status it has changes nothing.
Acknowledge(u, d) ==
    LET status == CHOOSE s \in Statuses : s # page[u][d].status IN
    /\ decision[d] \in {"pending", "accepted"}
    /\ Row(d) = page[u][d]
    /\ version[d] < MaxVersion
    /\ manual' = [manual EXCEPT ![d] = status]
    /\ version' = [version EXCEPT ![d] = @ + 1]
    /\ events' = [events EXCEPT ![d] =
            Append(@, [kind |-> "status_changed", before |-> Effective(d), after |-> status])]
    /\ UNCHANGED <<decision, hold, order, linked, page, plan, left>>

\* Mutant of Issued: the whole grant is written on the order.
IssuedGrant(d, origin) == {[origin |-> origin, quantity |-> Quantity(d, Lines)]}

\* The RE order of the active holds of a result.
Issued(d, origin) == {[origin |-> origin, quantity |-> Quantity(d, Held(d, "active"))]}

\* The holds after the issue, the goods that left, and the event of the creation.
HoldsIssued(d) == [l \in Lines |-> IF hold[d][l] = "active" THEN "issued" ELSE hold[d][l]]

LeftIssued(d) == [l \in Lines |-> left[d][l] + IF hold[d][l] = "active" THEN 1 ELSE 0]

Created(d) == [kind |-> "created", before |-> EffectiveOf(manual[d], {}),
               after |-> EffectiveOf(manual[d], Issued(d, "acceptance"))]

\* The store, the desk or an HTKD accepts the result.
Accept(d) ==
    /\ decision[d] = "pending"
    /\ Quantity(d, Held(d, "active")) = Quantity(d, Actionable(d))
    /\ decision' = [decision EXCEPT ![d] = "accepted"]
    /\ order' = [order EXCEPT ![d] = Issued(d, "acceptance")]
    /\ hold' = [hold EXCEPT ![d] = HoldsIssued(d)]
    /\ left' = [left EXCEPT ![d] = LeftIssued(d)]
    /\ events' = [events EXCEPT ![d] = Append(@, Created(d))]
    /\ UNCHANGED <<linked, manual, version, page, plan>>

\* The result goes back to the wait list: its holds are released.
Waitlist(d) ==
    /\ decision[d] = "pending"
    /\ decision' = [decision EXCEPT ![d] = "waitlisted"]
    /\ hold' = [hold EXCEPT ![d] = [l \in Lines |-> "revoked"]]
    /\ UNCHANGED <<order, linked, manual, version, events, page, plan, left>>

\* A cancelled wait ticket takes a line back while the answer is awaited.
Revoke(d, l) ==
    /\ decision[d] = "pending" /\ hold[d][l] = "active"
    /\ hold' = [hold EXCEPT ![d][l] = "revoked"]
    /\ decision' = [decision EXCEPT ![d] =
            IF Actionable(d) = {l} THEN "cancelled" ELSE @]
    /\ UNCHANGED <<order, linked, manual, version, events, page, plan, left>>

\* A receipt settles a line.  Issued goods left with the RE order; goods still
\* held leave now, or stay and their hold is released when they are missing.
Receive(d, l, got) ==
    /\ decision[d] = "accepted" /\ hold[d][l] \in {"active", "issued"}
    /\ hold' = [hold EXCEPT ![d][l] = IF got THEN "received" ELSE "missing"]
    /\ left' = [left EXCEPT ![d][l] = IF got /\ hold[d][l] = "active" THEN @ + 1 ELSE @]
    /\ UNCHANGED <<decision, order, linked, manual, version, events, page, plan>>

\* A manager records an order placed at the supplier by hand for a held line.
Link(d, l) ==
    /\ decision[d] = "accepted" /\ hold[d][l] = "active"
    /\ linked' = linked \cup {<<d, l>>}
    /\ UNCHANGED <<decision, hold, order, manual, version, events, page, plan, left>>

-----------------------------------------------------------------------------
(* The cutover *)

\* Accepted, no RE order, nothing ordered by hand, everything still held.
Eligible(d) ==
    /\ decision[d] = "accepted" /\ order[d] = {}
    /\ ~ \E l \in Lines : <<d, l>> \in linked
    /\ Held(d, "active") = Lines

EligibleSet == {d \in Results : Eligible(d)}

PlanCutover ==
    /\ plan' = {EligibleSet}
    /\ UNCHANGED <<decision, hold, order, linked, manual, version, events, page, left>>

\* The eligible results are still exactly those the operator reviewed.
Reviewed == plan = {EligibleSet}

\* The listed results are issued if eligible, the rest is skipped.
ApplyCutover(chosen) ==
    LET issue == chosen \cap EligibleSet IN
    /\ chosen # {} /\ Reviewed
    /\ \A d \in chosen : decision[d] \in {"pending", "accepted"}
    /\ order' = [d \in Results |-> IF d \in issue THEN Issued(d, "backfill") ELSE order[d]]
    /\ hold' = [d \in Results |-> IF d \in issue THEN HoldsIssued(d) ELSE hold[d]]
    /\ left' = [d \in Results |-> IF d \in issue THEN LeftIssued(d) ELSE left[d]]
    /\ events' = [d \in Results |-> IF d \in issue THEN Append(events[d], Created(d))
                                                   ELSE events[d]]
    /\ UNCHANGED <<decision, linked, manual, version, page, plan>>

Next ==
    \/ \E u \in Managers : Load(u) \/ \E d \in Results : Acknowledge(u, d)
    \/ \E d \in Results : Accept(d) \/ Waitlist(d)
    \/ \E d \in Results, l \in Lines : Revoke(d, l) \/ Link(d, l)
    \/ \E d \in Results, l \in Lines, got \in BOOLEAN : Receive(d, l, got)
    \/ PlanCutover
    \/ \E chosen \in SUBSET Results : ApplyCutover(chosen)

Spec == Init /\ [][Next]_vars

-----------------------------------------------------------------------------
(* Properties *)

TypeOK ==
    /\ decision \in [Results -> {"pending", "accepted", "waitlisted", "cancelled"}]
    /\ hold \in [Results -> [Lines -> {"active", "issued", "received", "missing", "revoked"}]]
    /\ \A d \in Results : Cardinality(order[d]) <= 1
    /\ linked \subseteq Results \X Lines
    /\ manual \in [Results -> Statuses \cup {"none"}]
    /\ version \in [Results -> 0..MaxVersion]
    /\ \A d \in Results : (version[d] = 0) = (manual[d] = "none")

\* The history of a result is a chain: each event starts from the status the
\* one before ended with, the last ends with the status shown now, and the
\* creation of the RE order is recorded exactly when there is one.
HistoryChains ==
    \A d \in Results :
        LET h == events[d]
            creations == {i \in DOMAIN h : h[i].kind = "created"}
            \* a legacy accepted result has shown "not ordered" from the start
        IN  /\ \A i \in 1..Len(h) :
                 h[i].before = IF i = 1 THEN "not_ordered" ELSE h[i - 1].after
            /\ h # <<>> => h[Len(h)].after = Effective(d)
            /\ h = <<>> => Effective(d) = "not_ordered"
            /\ Cardinality(creations) = Cardinality(order[d])
            /\ \A i \in DOMAIN h \ creations : h[i].before # h[i].after

\* Goods of a line leave the warehouse once: with the RE order, or at the
\* receipt when they were accepted before RE orders existed.  Revoked goods
\* never leave.
LeavesOnce ==
    \A d \in Results, l \in Lines :
        /\ left[d][l] <= 1
        /\ hold[d][l] \in {"issued", "received"} => left[d][l] = 1
        /\ hold[d][l] \in {"active", "revoked"} => left[d][l] = 0

\* An RE order carries what was granted and not revoked, and no bag of it was
\* also ordered from the supplier by hand.
OrderIsActionable ==
    \A d \in Results : \A o \in order[d] :
        /\ o.quantity = Quantity(d, Lines) - Quantity(d, Held(d, "revoked"))
        /\ \A l \in Lines : <<d, l>> \notin linked

\* An acknowledgement is changed only by a manager whose page showed the very
\* status and version that are replaced; an acceptance, a backfill or a receipt
\* leaves it alone, and a later RE order does not change an acknowledged status.
AcknowledgedSeen ==
    \A d \in Results :
     /\ manual'[d] # manual[d] \/ version'[d] # version[d] =>
          \E u \in Managers : page[u][d].version = version[d]
                           /\ page[u][d].status = EffectiveOf(manual[d], order[d])
     /\ manual[d] # "none" /\ order'[d] # order[d] =>
          EffectiveOf(manual'[d], order'[d]) = EffectiveOf(manual[d], order[d])

\* A backfill issues only results the operator saw in the reviewed plan, and
\* the plan is worthless once a listed result was received, linked or issued.
BackfillReviewed ==
    \A d \in Results : order[d] = {} /\ order'[d] # {} /\ decision[d] = "accepted" =>
     /\ \E s \in plan : d \in s
     /\ \A s \in plan : \A e \in s : /\ order[e] = {}
                                 /\ \A l \in Lines : hold[e][l] = "active"
                                                  /\ <<e, l>> \notin linked
=============================================================================
