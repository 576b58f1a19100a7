------------------------------ MODULE Shipments ------------------------------
(***************************************************************************)
(* How every bag held for a store comes to ride exactly one shipment.      *)
(*                                                                         *)
(* A hold is a reservation of an allocation line (or of an emergency       *)
(* order). The store's next ordinary request materialises a shipment       *)
(* (apps/worker postgres-repository.ts, materializeOutboundRequests) that  *)
(* takes the run's own holds and every earlier hold of an answered result  *)
(* that rides nothing. The answer to the result releases it, a revocation  *)
(* shrinks or cancels it, an emergency order (priority-orders.ts) picks    *)
(* waiting holds from a page that may be old, and an operator's backfill   *)
(* (stranded-outbounds.ts) releases shipments of results from before       *)
(* confirmation. One store; each action is one serializable transaction.   *)
(***************************************************************************)
EXTENDS Naturals, FiniteSets, FiniteSetsExt

CONSTANTS
    Products,      \* products of the store
    Users,         \* managers with an emergency form open
    MaxRun,        \* allocation runs after the legacy result (bound)
    MaxOrders,     \* emergency orders (bound)
    MaxGrant,      \* bags one source grants (bound)
    Stock,         \* bags of each product in the central warehouse
    MaxUpdates     \* status updates of an emergency order (bound)

ShipmentBounds ==
    /\ MaxRun \in Nat /\ MaxOrders \in Nat /\ MaxUpdates \in Nat
    /\ MaxGrant \in Nat /\ Stock \in Nat

VARIABLES
    hold,      \* reservations, by the source they serve
    decision,  \* the store's result of each run
    shipment,  \* outbound_requests with their lines, by run or emergency order
    onHand, reserved,   \* warehouse_balances
    form,      \* the emergency form of each manager
    listed,    \* the backfill's list of stranded shipments
    reshare,   \* reshare status of each emergency order, with its version
    read       \* the order page each manager last opened

vars == <<hold, decision, shipment, onHand, reserved, form, listed, reshare, read>>

Legacy == 0
Runs == 0 .. MaxRun
Orders == (MaxRun + 1) .. (MaxRun + MaxOrders)
Kinds == {"wait", "ordinary", "added"}
Sources == (Runs \X Products \X {"wait", "ordinary"}) \cup (Orders \X Products \X {"added"})

RunOf(s) == s[1]
ProductOf(s) == s[2]

Nowhere == MaxRun + MaxOrders + 1
NoHold == [status |-> "none", quantity |-> 0, ship |-> Nowhere, stamp |-> 0]
NoLines == [p \in Products |-> 0]
NoShipment == [status |-> "none", version |-> 0, lines |-> NoLines]
NoForm == [sources |-> {}, extra |-> NoLines]

Shippable == {"accepted", "not_required", "legacy"}
InFlight == {"active", "issued"}

Live(s) == hold[s].status \in InFlight
Total(S) == MapThenSumSet(LAMBDA s : hold[s].quantity, S)
OfProduct(S, p) == {s \in S : ProductOf(s) = p}
Load(S) == [p \in Products |-> Total(OfProduct(S, p))]
Free(p) == onHand[p] - reserved[p]

-----------------------------------------------------------------------------
(* A result of the time before confirmation: its goods wait, or ride a     *)
(* shipment that never left.                                               *)

LegacySources == {s \in Sources : RunOf(s) = Legacy /\ s[3] = "wait"}

Init ==
    \E waiting \in SUBSET LegacySources : \E stranded \in SUBSET (LegacySources \ waiting) :
        /\ hold = [s \in Sources |->
                    IF s \in waiting \cup stranded
                    THEN [status |-> "active", quantity |-> 1, stamp |-> 0,
                          ship |-> IF s \in stranded THEN Legacy ELSE Nowhere]
                    ELSE NoHold]
        /\ shipment = [d \in Runs \cup Orders |->
                        IF d = Legacy /\ stranded # {}
                        THEN [status |-> "reserved", version |-> 0,
                              lines |-> [p \in Products |->
                                          Cardinality(OfProduct(stranded, p))]]
                        ELSE NoShipment]
        /\ decision = [r \in Runs |-> IF r = Legacy THEN "legacy" ELSE "none"]
        /\ onHand = [p \in Products |-> Stock]
        /\ reserved = [p \in Products |-> Cardinality(OfProduct(waiting \cup stranded, p))]
        /\ form = [u \in Users |-> NoForm]
        /\ listed = {}
        /\ reshare = [o \in Orders |-> [status |-> "none", version |-> 0]]
        /\ read = [u \in Users |-> {}]

-----------------------------------------------------------------------------
(* Dispatch: the only step of a shipment from reserved to dispatched. *)

Riding(d) == {s \in Sources : Live(s) /\ hold[s].ship = d}

\* The gate: the shipment's own result and every source it carries.
MayDispatch(d) ==
    /\ decision[d] \in Shippable
    /\ \A s \in Riding(d) : RunOf(s) \in Runs /\ decision[RunOf(s)] \in Shippable

LinesCovered(d) ==
    \A p \in Products : Total(OfProduct(Riding(d), p)) = shipment[d].lines[p]

Dispatched(row) == [row EXCEPT !.status = "dispatched", !.version = @ + 1]

DispatchReady(d, version) ==
    /\ shipment[d].status = "reserved"
    /\ shipment[d].version = version
    /\ shipment[d].lines # NoLines
    /\ LinesCovered(d)
    /\ MayDispatch(d)

-----------------------------------------------------------------------------
(* The run of a session. An ordinary request of the store makes the        *)
(* shipment; without one the goods wait for the next.                      *)

\* Earlier holds that ride nothing and whose result may ship.
Carried(r) ==
    {s \in Sources : /\ RunOf(s) < r
                     /\ Live(s)
                     /\ hold[s].ship = Nowhere
                     /\ decision[RunOf(s)] \in Shippable}

OwnSources(r, ordinary) ==
    {s \in Sources : RunOf(s) = r /\ s[3] \in IF ordinary THEN {"wait", "ordinary"} ELSE {"wait"}}

Run(r, ordinary) ==
    /\ decision[r] = "none"
    /\ \A q \in Runs : q < r => decision[q] # "none"
    /\ \E grant \in [OwnSources(r, ordinary) -> 0 .. MaxGrant] :
        LET own == {s \in DOMAIN grant : grant[s] > 0}
            bags(p) == MapThenSumSet(LAMBDA s : grant[s], OfProduct(own, p))
            ship == IF ordinary THEN own \cup Carried(r) ELSE {}
            given == [s \in Sources |->
                        IF s \in own
                        THEN [status |-> "active", quantity |-> grant[s], ship |-> Nowhere, stamp |-> 0]
                        ELSE hold[s]]
            load == [p \in Products |->
                        MapThenSumSet(LAMBDA s : given[s].quantity, OfProduct(ship, p))]
            \* A store granted nothing has nothing to answer.
            answer == IF own # {} THEN "pending" ELSE "not_required"
            row == [status |-> "reserved", version |-> 0, lines |-> load]
        IN /\ \A p \in Products : bags(p) <= Free(p)
           /\ reserved' = [p \in Products |-> reserved[p] + bags(p)]
           /\ hold' = [s \in Sources |->
                        IF s \in ship THEN [given[s] EXCEPT !.ship = r, !.stamp = @ + 1]
                                      ELSE given[s]]
           /\ decision' = [decision EXCEPT ![r] = answer]
           /\ shipment' = IF ship = {} THEN shipment
                          ELSE [shipment EXCEPT ![r] =
                                    IF own = {} THEN Dispatched(row) ELSE row]
    /\ UNCHANGED <<onHand, form, listed, reshare, read>>

-----------------------------------------------------------------------------
(* The answer to a result and the revocation of its goods. *)

Own(r) == {s \in Sources : RunOf(s) = r /\ Live(s)}

Issue(S) == [s \in Sources |->
    IF s \in S THEN [hold[s] EXCEPT !.status = "issued", !.stamp = @ + 1] ELSE hold[s]]

\* An acceptance issues the result's own goods and releases its shipment.
Accept(r) ==
    /\ decision[r] = "pending"
    /\ hold' = Issue(Own(r))
    /\ onHand' = [p \in Products |-> onHand[p] - Load(Own(r))[p]]
    /\ reserved' = [p \in Products |-> reserved[p] - Load(Own(r))[p]]
    /\ decision' = [decision EXCEPT ![r] = "accepted"]
    /\ IF shipment[r].status = "none"
       THEN UNCHANGED shipment
       ELSE /\ shipment[r].status = "reserved"
            /\ LinesCovered(r)
            /\ \A s \in Riding(r) : RunOf(s) = r \/ decision[RunOf(s)] \in Shippable
            /\ shipment' = [shipment EXCEPT ![r] = Dispatched(@)]
    /\ UNCHANGED <<form, listed, reshare, read>>

\* A shipment that stays live gives back exactly the revoked bags.
Shrunk(r, S) ==
    [shipment[r] EXCEPT !.version = @ + 1,
                        !.lines = [p \in Products |-> @[p] - Load(S)[p]]]

\* A carried hold of a closed shipment stays held: an issued one loses its
\* link, an active one is replaced by a new row.
Freed(s) == [hold[s] EXCEPT !.ship = Nowhere, !.stamp = @ + 1]

\* revokeResultHoldsInTransaction: S is released; the rest of the result stays
\* pending, or the result is closed with nothing left (or moved to waiting).
Revoke(r, S, closed) ==
    LET terminal == S = Own(r)
        back == [s \in Sources |->
                    IF s \in S
                    THEN [hold[s] EXCEPT !.status = "released", !.stamp = @ + 1,
                                         !.ship = IF terminal THEN @ ELSE Nowhere]
                    ELSE IF terminal /\ s \in Riding(r) THEN Freed(s)
                    ELSE hold[s]]
    IN /\ decision[r] = "pending"
       /\ S # {}
       /\ shipment[r].status \in {"none", "reserved"}
       /\ hold' = back
       /\ reserved' = [p \in Products |-> reserved[p] - Load(S)[p]]
       /\ decision' = [decision EXCEPT ![r] = IF terminal THEN closed ELSE "pending"]
       /\ shipment' = IF shipment[r].status = "none" THEN shipment
                      ELSE [shipment EXCEPT ![r] =
                              IF terminal
                              THEN [@ EXCEPT !.status = "cancelled", !.version = @ + 1]
                              ELSE Shrunk(r, S)]
       /\ UNCHANGED <<onHand, form, listed, reshare, read>>

\* The store moves the whole result to waiting.
Waitlist(r) == Revoke(r, Own(r), "waitlisted")

\* A cancelled ticket takes back what it was granted for one product.
CancelTicket(r, p) == Revoke(r, {s \in Own(r) : s[3] = "wait" /\ ProductOf(s) = p}, "cancelled")

-----------------------------------------------------------------------------
(* Emergency orders. *)

\* Mutant of Waiting: the answer of the result is not looked at.
WaitingAny == {s \in Sources : Live(s) /\ RunOf(s) \in Runs /\ hold[s].ship = Nowhere}
\* Holds the form offers: answered, riding nothing.
Waiting == {s \in Sources : /\ Live(s)
                            /\ RunOf(s) \in Runs
                            /\ decision[RunOf(s)] \in Shippable
                            /\ hold[s].ship = Nowhere}

OpenForm(u, S, extra) ==
    /\ S \subseteq Waiting
    /\ S # {} \/ extra # NoLines
    /\ \A p \in Products : extra[p] <= Free(p)
    /\ form' = [form EXCEPT ![u] =
                    [sources |-> {<<s, hold[s].status, hold[s].stamp>> : s \in S}, extra |-> extra]]
    /\ UNCHANGED <<hold, decision, shipment, onHand, reserved, listed, reshare, read>>

Chosen(u) == {x[1] : x \in form[u].sources}

\* Mutant of StillWaiting: only the status and the revision are compared.
StillWaitingLinked(u) ==
    \A x \in form[u].sources : Live(x[1]) /\ hold[x[1]].status = x[2]
\* The holds are read again under their lock: each one still waits, unchanged.
StillWaiting(u) ==
    \A x \in form[u].sources :
        x[1] \in Waiting /\ hold[x[1]].status = x[2] /\ hold[x[1]].stamp = x[3]

\* No more is added than is free.
StockSuffices(extra) == \A p \in Products : extra[p] <= Free(p)

\* Only goods without an RE are issued by the order.
ToIssue(chosen, added) == {s \in chosen : hold[s].status = "active"} \cup added

\* submitPriorityOrder: one transaction links, issues and dispatches.
SubmitOrder(u, o) ==
    LET extra == form[u].extra
        added == {s \in Sources : RunOf(s) = o /\ extra[ProductOf(s)] > 0}
        quantity(s) == IF s \in added THEN extra[ProductOf(s)] ELSE hold[s].quantity
        load(S) == [p \in Products |-> MapThenSumSet(quantity, OfProduct(S, p))]
        ship == Chosen(u) \cup added
        leaving == load(ToIssue(Chosen(u), added))
    IN /\ shipment[o].status = "none"
       /\ \A q \in Orders : q < o => shipment[q].status # "none"
       /\ form[u] # NoForm
       /\ StillWaiting(u)
       /\ StockSuffices(extra)
       /\ shipment' = [shipment EXCEPT ![o] =
                        [status |-> "dispatched", version |-> 1, lines |-> load(ship)]]
       /\ hold' = [s \in Sources |->
                    IF s \in ship
                    THEN [status |-> "issued", quantity |-> quantity(s), ship |-> o,
                          stamp |-> hold[s].stamp + 1]
                    ELSE hold[s]]
       /\ onHand' = [p \in Products |-> onHand[p] - leaving[p]]
       /\ reserved' = [p \in Products |-> reserved[p] + extra[p] - leaving[p]]
       /\ reshare' = [reshare EXCEPT ![o] = [status |-> "ORDERED", version |-> 1]]
       /\ form' = [form EXCEPT ![u] = NoForm]
       /\ UNCHANGED <<decision, listed, read>>

\* A refused form is closed; so is one its user gives up.
CloseForm(u) ==
    /\ form[u] # NoForm
    /\ form' = [form EXCEPT ![u] = NoForm]
    /\ UNCHANGED <<hold, decision, shipment, onHand, reserved, listed, reshare, read>>

OpenOrder(u, o) ==
    /\ reshare[o].version > 0
    /\ read' = [read EXCEPT ![u] = {<<o, reshare[o].status, reshare[o].version>>}]
    /\ UNCHANGED <<hold, decision, shipment, onHand, reserved, form, listed, reshare>>

\* Mutant of SameVersion: the version the page shows is not compared.
SameVersionAny(x) == TRUE
SameVersion(x) == reshare[x[1]].version = x[3]

\* updatePriorityReshareStatus, from the page the manager sees.
UpdateStatus(u, status) ==
    \E x \in read[u] :
        /\ SameVersion(x)
        /\ status # reshare[x[1]].status
        /\ reshare[x[1]].version <= MaxUpdates
        /\ reshare' = [reshare EXCEPT ![x[1]] = [status |-> status, version |-> @.version + 1]]
        /\ UNCHANGED <<hold, decision, shipment, onHand, reserved, form, listed, read>>

-----------------------------------------------------------------------------
(* Releases by hand and by the backfill, and the receipt. *)

\* A manager releases a shipment whose result needs no answer any more.
DispatchByUser(d) ==
    /\ d \in Runs
    /\ DispatchReady(d, shipment[d].version)
    /\ shipment' = [shipment EXCEPT ![d] = Dispatched(@)]
    /\ UNCHANGED <<hold, decision, onHand, reserved, form, listed, reshare, read>>

\* The backfill reads its list outside the transactions that release.
ListStranded ==
    /\ listed' = {<<d, shipment[d].version>> : d \in
                    {e \in Runs : /\ shipment[e].status = "reserved"
                                  /\ decision[e] # "pending"
                                  /\ LinesCovered(e)
                                  /\ MayDispatch(e)}}
    /\ listed' # listed
    /\ UNCHANGED <<hold, decision, shipment, onHand, reserved, form, reshare, read>>

\* Each listed shipment is released or, when it changed, left as it is.
ReleaseStranded(x) ==
    /\ listed' = listed \ {x}
    /\ shipment' = IF DispatchReady(x[1], x[2])
                   THEN [shipment EXCEPT ![x[1]] = Dispatched(@)]
                   ELSE shipment
    /\ UNCHANGED <<hold, decision, onHand, reserved, form, reshare, read>>

\* The store's receipt uses up the holds; goods that left without an RE leave
\* the warehouse now.
Receive(d) ==
    LET here == {s \in Riding(d) : hold[s].status = "active"}
    IN /\ shipment[d].status = "dispatched"
       /\ hold' = [s \in Sources |->
                    IF s \in Riding(d) THEN [hold[s] EXCEPT !.status = "consumed", !.stamp = @ + 1]
                                       ELSE hold[s]]
       /\ onHand' = [p \in Products |-> onHand[p] - Load(here)[p]]
       /\ reserved' = [p \in Products |-> reserved[p] - Load(here)[p]]
       /\ shipment' = [shipment EXCEPT ![d].status = "received"]
       /\ UNCHANGED <<decision, form, listed, reshare, read>>

Extras == [Products -> 0 .. MaxGrant]

Next ==
    \/ \E r \in Runs, ordinary \in BOOLEAN : Run(r, ordinary)
    \/ \E r \in Runs : Accept(r) \/ Waitlist(r)
    \/ \E r \in Runs, p \in Products : CancelTicket(r, p)
    \/ \E u \in Users, S \in SUBSET Waiting, extra \in Extras : OpenForm(u, S, extra)
    \/ \E u \in Users, o \in Orders : SubmitOrder(u, o) \/ OpenOrder(u, o)
    \/ \E u \in Users : CloseForm(u)
    \/ \E u \in Users, status \in {"ORDERED", "NOT_ORDERED"} : UpdateStatus(u, status)
    \/ \E d \in Runs : DispatchByUser(d)
    \/ ListStranded
    \/ \E x \in listed : ReleaseStranded(x)
    \/ \E d \in Runs \cup Orders : Receive(d)

Spec == Init /\ [][Next]_vars

-----------------------------------------------------------------------------
(* Properties. *)

\* Every row has the shape of its table.
TypeOK ==
    /\ hold \in [Sources -> [status : {"none", "active", "issued", "released", "consumed"},
                             quantity : Nat, ship : Runs \cup Orders \cup {Nowhere}, stamp : Nat]]
    /\ decision \in [Runs -> {"none", "pending", "accepted", "not_required", "legacy",
                              "waitlisted", "cancelled"}]
    /\ shipment \in [Runs \cup Orders ->
                        [status : {"none", "reserved", "dispatched", "received", "cancelled"},
                         version : Nat, lines : [Products -> Nat]]]
    /\ onHand \in [Products -> Nat] /\ reserved \in [Products -> Nat]

\* The lines of a shipment that is about to leave, or on its way, are the bags
\* of the holds that point at it, whatever was revoked, carried over from a
\* closed shipment or taken by an emergency order (the "conserve" checks of
\* outbound-requests.ts never fail).
LinesCarryTheirHolds ==
    \A d \in Runs \cup Orders :
        shipment[d].status \in {"reserved", "dispatched"} => LinesCovered(d)

\* Nothing leaves of a result the store did not accept, whichever of the four
\* paths released the shipment, and no answer is taken back afterwards.
OnlyAnsweredGoodsLeave ==
    \A s \in Sources :
        /\ hold[s].ship # Nowhere
        /\ shipment[hold[s].ship].status \in {"dispatched", "received"}
        => RunOf(s) \in Orders \/ decision[RunOf(s)] \in Shippable

\* The balance reserves exactly the active holds, and what is issued or received
\* left the shelf once: an emergency order does not issue again what its RE
\* already took, a replaced hold moves nothing.
StockAccounted ==
    \A p \in Products :
        LET of(st) == Total({s \in Sources : ProductOf(s) = p /\ hold[s].status \in st})
        IN /\ reserved[p] = of({"active"})
           /\ onHand[p] + of({"issued", "consumed"}) = Stock
           /\ reserved[p] <= onHand[p]

\* Goods that left stay on the shipment they left with: no later run, form or
\* backfill loads them again, and only the receipt touches them.
LeavesOnce ==
    \A s \in Sources :
     /\ Live(s)
     /\ hold[s].ship # Nowhere
     /\ shipment[hold[s].ship].status = "dispatched"
     => hold'[s].ship = hold[s].ship

\* Goods the store accepted are never lost with a shipment they happened to
\* ride: until they are received they are held for the store.
AcceptedGoodsKept ==
    \A s \in Sources :
     Live(s) /\ RunOf(s) \in Runs /\ decision[RunOf(s)] \in Shippable
     => hold'[s].status \in {"active", "issued", "consumed"}

\* After the run of an ordinary request nothing of an answered result is left
\* behind.
NothingLeftBehind ==
    \A r \in Runs :
     decision[r] = "none" /\ shipment'[r].status # "none" => Waiting' = {}

\* A manager changes only the status that was shown.
StatusChangedAsShown ==
    \A o \in Orders :
     reshare[o].version > 0 /\ reshare'[o] # reshare[o]
     => \E u \in Users : <<o, reshare[o].status, reshare[o].version>> \in read[u]
=============================================================================
