--------------------------- MODULE StoreReceipts ---------------------------
(***************************************************************************)
(* The goods one store receives of one product: what a run ships to it,    *)
(* the receipt the store declares and corrects, the review that settles    *)
(* the reservations and books the bags, the shortage that goes back to the *)
(* store's wait ticket, and the check the warehouse makes of bags that     *)
(* did not arrive.  Every command is one serializable transaction under    *)
(* the locks of the receipt and of the store's wait for the product.       *)
(***************************************************************************)
EXTENDS Integers, Sequences, FiniteSets, QuantitySums

CONSTANTS
    Shipments,      \* outbound requests with one line of the product
    Tickets,        \* wait tickets, numbered in the order they are created
    NoSource,       \* an allocation of an order, not of a ticket
    Emergency,      \* shipments of emergency orders
    Modes,          \* goods stay on hand until received, or left with an RE order
    InitialStock,
    MaxOrder,       \* bound: bags of one order
    MaxOrders,      \* bound: orders the store places
    MaxVersion,     \* bound: versions of a receipt
    MaxExcess       \* bound: bags more than were sent

ReceiptsAssumption ==
    /\ Tickets \subseteq Nat /\ NoSource \notin Tickets
    /\ Emergency \subseteq Shipments
    /\ Modes \subseteq {"held", "issued"}
    /\ {InitialStock, MaxOrder, MaxOrders, MaxVersion, MaxExcess} \subseteq Nat

VARIABLES
    tickets,    \* wait_tickets: status, quantities, whether a user cancelled it
    offers,     \* the live priority offer of a ticket and the bags held for it
    ordered,    \* bags of the store's order in the open session
    orders,     \* orders placed
    shipments,  \* outbound lines with the reservations they carry
    receipts,   \* store_receipts with the quantities of their line
    checks,     \* warehouse_shortage_checks
    stock,      \* the balance of the warehouse: onHand, reserved
    storeBags,  \* bags in the store's inventory
    queuedIn    \* history: the tickets a receipt's shortage was queued in

vars == <<tickets, offers, ordered, orders, shipments, receipts, checks, stock, storeBags, queuedIn>>

TicketStatus == {"none", "active", "fulfilled", "cancelled"}
NewTicket(quantity) == [status |-> "active", original |-> quantity, remaining |-> quantity,
                        fulfilled |-> 0, byUser |-> FALSE]

Active(ts) == {t \in Tickets : ts[t].status = "active"}
Unused(ts) == {t \in Tickets : ts[t].status = "none"}
FirstUnused(ts) == CHOOSE t \in Unused(ts) : \A u \in Unused(ts) : t <= u

Approved(s) == SumOf([i \in DOMAIN shipments[s].lines |-> shipments[s].lines[i].quantity])
Waiting(ts) == SumOf([t \in Active(ts) |-> ts[t].remaining])

-----------------------------------------------------------------------------
(* A shortage goes back to the wait it was allocated from.                 *)

-----------------------------------------------------------------------------
\* A ticket is open until nothing remains of it.
Settled(ticket) == IF ticket.remaining = 0 THEN "fulfilled" ELSE "active"

\* More demand joins the active ticket, or opens one.
Join(ts, quantity) ==
    IF Active(ts) = {} THEN [ts EXCEPT ![FirstUnused(ts)] = NewTicket(quantity)]
    ELSE LET t == CHOOSE x \in Active(ts) : TRUE
         IN  [ts EXCEPT ![t].original = @ + quantity, ![t].remaining = @ + quantity]

\* The source ticket takes its shortage back.
TakeBack(ts, t, quantity) ==
    [ts EXCEPT ![t].status = "active", ![t].remaining = @ + quantity, ![t].fulfilled = @ - quantity]

\* The source takes its shortage back and the demand of the active ticket.
MergedInto(ts, t, active, quantity) ==
    [ts EXCEPT ![active].status = "cancelled",
               ![t].status = "active",
               ![t].original = @ + ts[active].remaining,
               ![t].remaining = @ + quantity + ts[active].remaining,
               ![t].fulfilled = @ - quantity]

\* A ticket a user cancelled is not reopened: its shortage is new demand.
SourceOf(ts, t) == IF t # NoSource /\ ts[t].byUser THEN NoSource ELSE t

CanRestore(ts, source, quantity) ==
    LET t == SourceOf(ts, source)
    IN  IF t # NoSource THEN ts[t].fulfilled >= quantity
        ELSE Active(ts) # {} \/ Unused(ts) # {}

Restored(ts, source, quantity) ==
    LET t == SourceOf(ts, source)
    IN  IF t = NoSource THEN Join(ts, quantity)
        ELSE IF Active(ts) \subseteq {t} THEN TakeBack(ts, t, quantity)
        ELSE MergedInto(ts, t, CHOOSE x \in Active(ts) : TRUE, quantity)

\* A smaller shortage leaves the wait, unless the wait is gone: a ticket was
\* cancelled by a user after the shortage was declared.
CanUndo(ts, source, quantity, waitGone) ==
    waitGone \/ \E t \in Active(ts) :
                    /\ ts[t].remaining >= quantity
                    /\ source \in {NoSource, t}
                    /\ offers[t].status = "none"

Undone(ts, source, quantity, waitGone) ==
    IF waitGone THEN ts
    ELSE LET t == CHOOSE x \in Active(ts) : TRUE
             left == [ts[t] EXCEPT !.remaining = @ - quantity]
         IN  IF source # NoSource
             THEN [ts EXCEPT ![t] = [left EXCEPT !.fulfilled = @ + quantity, !.status = Settled(left)]]
             ELSE IF ts[t].original = quantity THEN [ts EXCEPT ![t].status = "cancelled"]
             ELSE [ts EXCEPT ![t] = [left EXCEPT !.original = @ - quantity, !.status = Settled(left)]]

\* What the first n reservations of a line get of the received bags.
Share(lines, received, n) ==
    LET before == SumOf([i \in 1..(n - 1) |-> lines[i].quantity])
    IN  Lesser(lines[n].quantity, Greater(0, received - before))

\* The tickets when the received bags of a line change from one number to
\* another, reservation by reservation, and whether that is possible.
Reconciled(s, from, to) ==
    LET lines == shipments[s].lines
        waitGone == receipts[s].queued > 0 /\ receipts[s].waitGone
        step[n \in 0..Len(lines)] ==
            IF n = 0 THEN [ok |-> TRUE, tickets |-> tickets]
            ELSE LET ts == step[n - 1].tickets
                     change == Share(lines, from, n) - Share(lines, to, n)
                 IN  IF ~step[n - 1].ok \/ change = 0 THEN step[n - 1]
                     ELSE IF change > 0
                     THEN IF CanRestore(ts, lines[n].source, change)
                          THEN [ok |-> TRUE, tickets |-> Restored(ts, lines[n].source, change)]
                          ELSE [ok |-> FALSE, tickets |-> ts]
                     ELSE IF CanUndo(ts, lines[n].source, -change, waitGone)
                          THEN [ok |-> TRUE, tickets |-> Undone(ts, lines[n].source, -change, waitGone)]
                          ELSE [ok |-> FALSE, tickets |-> ts]
    IN  IF s \in Emergency THEN step[0] ELSE step[Len(lines)]

\* A shortage is where the demand of the tickets that grew now is; the demand
\* of a merged ticket is where its quantities went.
MovedTo(ts, t) == IF ts[t].status = "cancelled" /\ ~ts[t].byUser THEN Active(ts) ELSE {t}
QueuedIn(s, shortage, ts) ==
    [x \in Shipments |->
        IF x = s THEN (IF shortage = 0 THEN {} ELSE
                       IF shortage > receipts[s].queued THEN Active(ts)
                       ELSE UNION {MovedTo(ts, t) : t \in queuedIn[s]})
        ELSE UNION {MovedTo(ts, t) : t \in queuedIn[x]}]

-----------------------------------------------------------------------------
NoReceipt == [status |-> "none", version |-> 0, received |-> 0, queued |-> 0,
              excess |-> 0, waitGone |-> FALSE]
NoOffer == [status |-> "none", held |-> 0]

Init ==
    /\ tickets = [t \in Tickets |-> [NewTicket(0) EXCEPT !.status = "none"]]
    /\ offers = [t \in Tickets |-> NoOffer]
    /\ ordered = 0 /\ orders = 0
    /\ shipments = [s \in Shipments |-> [lines |-> <<>>, mode |-> "none"]]
    /\ receipts = [s \in Shipments |-> NoReceipt]
    /\ checks = [s \in Shipments |-> [status |-> "none", quantity |-> 0]]
    /\ stock = [onHand |-> InitialStock, reserved |-> 0]
    /\ storeBags = 0
    /\ queuedIn = [s \in Shipments |-> {}]

\* A store orders a product it has no active wait for.
PlaceOrder(quantity) ==
    /\ ordered = 0 /\ orders < MaxOrders
    /\ Active(tickets) = {}
    /\ ordered' = quantity
    /\ orders' = orders + quantity
    /\ UNCHANGED <<tickets, offers, shipments, receipts, checks, stock, storeBags, queuedIn>>

\* The snapshot offers free bags to an active ticket and holds them.
Offer(t, quantity) ==
    /\ tickets[t].status = "active" /\ offers[t].status = "none"
    /\ quantity \in 1..Lesser(tickets[t].remaining, stock.onHand - stock.reserved)
    /\ offers' = [offers EXCEPT ![t] = [status |-> "offered", held |-> quantity]]
    /\ stock' = [stock EXCEPT !.reserved = @ + quantity]
    /\ UNCHANGED <<tickets, ordered, orders, shipments, receipts, checks, storeBags, queuedIn>>

Accept(t) ==
    /\ offers[t].status = "offered"
    /\ tickets[t].status = "active"
    /\ offers' = [offers EXCEPT ![t].status = "accepted"]
    /\ UNCHANGED <<tickets, ordered, orders, shipments, receipts, checks, stock, storeBags, queuedIn>>

\* A partial offer, or one whose ticket was closed, only gives its bags back.
DropOffer(t) ==
    /\ offers[t].status = "offered"
    /\ offers' = [offers EXCEPT ![t] = NoOffer]
    /\ stock' = [stock EXCEPT !.reserved = @ - offers[t].held]
    /\ UNCHANGED <<tickets, ordered, orders, shipments, receipts, checks, storeBags, queuedIn>>

\* A user cancels what is left of a wait, or declines a full offer for it.
CancelTicket(t) ==
    /\ tickets[t].status = "active"
    /\ tickets' = [tickets EXCEPT ![t].status = "cancelled", ![t].byUser = TRUE]
    /\ offers' = [offers EXCEPT ![t] = NoOffer]
    /\ stock' = [stock EXCEPT !.reserved = @ - offers[t].held]
    /\ receipts' = [s \in Shipments |-> [receipts[s] EXCEPT !.waitGone = TRUE]]
    /\ UNCHANGED <<ordered, orders, shipments, checks, storeBags, queuedIn>>

AcceptedOffers == {t \in Tickets : offers[t].status = "accepted"}

\* The sources a run allocates to the store, in any order of their rows.
Orderings(wait, served) ==
    LET fromWait == IF wait = {} THEN <<>>
                    ELSE LET t == CHOOSE x \in wait : TRUE
                         IN  <<[source |-> t, quantity |-> offers[t].held]>>
        fromOrder == IF served = 0 THEN <<>> ELSE <<[source |-> NoSource, quantity |-> served]>>
    IN  {fromWait \o fromOrder, fromOrder \o fromWait}

\* A run serves the accepted offer and a part of the order; the rest waits.
\* It fails as a whole when an accepted offer has lost its active ticket.
Run(s, served) ==
    /\ s \notin Emergency /\ shipments[s].mode = "none"
    /\ AcceptedOffers \subseteq Active(tickets)
    /\ AcceptedOffers # {} \/ ordered > 0
    /\ AcceptedOffers # {} \/ served > 0
    /\ served <= Lesser(ordered, stock.onHand - stock.reserved)
    /\ LET rest == ordered - served
           allocated == [t \in Tickets |->
                IF t \in AcceptedOffers
                THEN LET left == [tickets[t] EXCEPT !.remaining = @ - offers[t].held,
                                                    !.fulfilled = @ + offers[t].held]
                     IN  [left EXCEPT !.status = Settled(left)]
                ELSE tickets[t]]
       IN  /\ rest > 0 => Active(allocated) # {} \/ Unused(allocated) # {}
           /\ tickets' = IF rest = 0 THEN allocated ELSE Join(allocated, rest)
    /\ \E lines \in Orderings(AcceptedOffers, served) :
        shipments' = [shipments EXCEPT ![s] = [lines |-> lines, mode |-> "held"]]
    /\ offers' = [t \in Tickets |-> IF t \in AcceptedOffers THEN NoOffer ELSE offers[t]]
    /\ ordered' = 0
    /\ stock' = [stock EXCEPT !.reserved = @ + served]
    /\ UNCHANGED <<orders, receipts, checks, storeBags, queuedIn>>

\* An emergency order reserves free bags outside of the sessions.
OrderEmergency(s, quantity) ==
    /\ s \in Emergency /\ shipments[s].mode = "none"
    /\ quantity \in 1..(stock.onHand - stock.reserved)
    /\ shipments' = [shipments EXCEPT ![s] =
            [lines |-> <<[source |-> NoSource, quantity |-> quantity]>>, mode |-> "held"]]
    /\ stock' = [stock EXCEPT !.reserved = @ + quantity]
    /\ UNCHANGED <<tickets, offers, ordered, orders, receipts, checks, storeBags, queuedIn>>

\* An RE order takes the reserved bags of the shipment out of the warehouse.
Issue(s) ==
    /\ "issued" \in Modes
    /\ shipments[s].mode = "held" /\ receipts[s].status = "none"
    /\ shipments' = [shipments EXCEPT ![s].mode = "issued"]
    /\ stock' = [onHand |-> stock.onHand - Approved(s), reserved |-> stock.reserved - Approved(s)]
    /\ UNCHANGED <<tickets, offers, ordered, orders, receipts, checks, storeBags, queuedIn>>

-----------------------------------------------------------------------------
\* The store opens a receipt for a dispatched shipment.
Declare(s, received) ==
    /\ shipments[s].mode \in Modes
    /\ receipts[s].status = "none"
    /\ received \in 0..Approved(s)
    /\ receipts' = [receipts EXCEPT ![s] =
            [NoReceipt EXCEPT !.status = "draft", !.version = 1, !.received = received]]
    /\ UNCHANGED <<tickets, offers, ordered, orders, shipments, checks, stock, storeBags, queuedIn>>

\* A line has at most what was sent; bags more than were sent can only come
\* on top of a complete line.
Declarable(s, received, excess) ==
    /\ received \in 0..Approved(s)
    /\ excess > 0 => received = Approved(s)

Shortage(s, received) == IF s \in Emergency THEN 0 ELSE Approved(s) - received

\* The store submits what it received; its shortage is queued at once.
Submit(s, received, excess) ==
    /\ receipts[s].status \in {"draft", "returned"} /\ receipts[s].version < MaxVersion
    /\ Declarable(s, received, excess)
    /\ LET reconciled == Reconciled(s, Approved(s) - receipts[s].queued, received)
       IN  /\ reconciled.ok
           /\ tickets' = reconciled.tickets
           /\ queuedIn' = QueuedIn(s, Shortage(s, received), reconciled.tickets)
    /\ receipts' = [receipts EXCEPT ![s] =
            [status |-> "pending_htkd", version |-> receipts[s].version + 1, received |-> received,
             queued |-> Shortage(s, received), excess |-> excess, waitGone |-> FALSE]]
    /\ UNCHANGED <<offers, ordered, orders, shipments, checks, stock, storeBags>>

Return(s) ==
    /\ receipts[s].status = "pending_htkd" /\ receipts[s].version < MaxVersion
    /\ receipts' = [receipts EXCEPT ![s].status = "returned", ![s].version = @ + 1]
    /\ UNCHANGED <<tickets, offers, ordered, orders, shipments, checks, stock, storeBags, queuedIn>>

\* Missing bags that never left on hand stay reserved for a check.
HeldBack(s) == IF shipments[s].mode = "issued" THEN 0 ELSE Approved(s) - receipts[s].received

\* The reservations of the line end: what was received leaves on hand, unless
\* it left with an RE order.
SettledStock(s) ==
    IF shipments[s].mode = "issued" THEN stock
    ELSE [onHand   |-> stock.onHand - receipts[s].received,
          reserved |-> stock.reserved - Approved(s) + HeldBack(s)]

\* Excess bags can only come out of unreserved stock.
ExcessCovered(s) == SettledStock(s).onHand - receipts[s].excess >= SettledStock(s).reserved

OpenedChecks(s) ==
    IF receipts[s].received = Approved(s) THEN checks
    ELSE [checks EXCEPT ![s] = [status |-> "pending", quantity |-> Approved(s) - receipts[s].received]]

\* Every received bag becomes a bag of the store.
BookedBags(s) == storeBags + receipts[s].received + receipts[s].excess

\* The review settles the reservations, holds missing bags for a check and
\* books the bags in the store.
Finalize(s) ==
    /\ receipts[s].status = "pending_htkd"
    /\ ExcessCovered(s)
    /\ receipts' = [receipts EXCEPT ![s].status = "finalized", ![s].version = @ + 1]
    /\ stock' = [SettledStock(s) EXCEPT !.onHand = @ - receipts[s].excess]
    /\ checks' = OpenedChecks(s)
    /\ storeBags' = BookedBags(s)
    /\ UNCHANGED <<tickets, offers, ordered, orders, shipments, queuedIn>>

\* Mutant of ResolveCheck: lost goods of an RE order leave on hand again.
ResolveCheckTwice(s, decision) ==
    /\ checks[s].status = "pending"
    /\ checks' = [checks EXCEPT ![s].status = decision]
    /\ stock' = CASE shipments[s].mode = "held" /\ decision = "returned_to_stock" ->
                        [stock EXCEPT !.reserved = @ - checks[s].quantity]
                  [] decision = "lost" /\ stock.onHand - checks[s].quantity >= stock.reserved ->
                        [stock EXCEPT !.onHand = @ - checks[s].quantity]
                  [] shipments[s].mode = "issued" /\ decision = "returned_to_stock" ->
                        [stock EXCEPT !.onHand = @ + checks[s].quantity]
                  [] OTHER -> stock
    /\ UNCHANGED <<tickets, offers, ordered, orders, shipments, receipts, storeBags, queuedIn>>

\* An administrator finds the missing bags in the warehouse or gives them up.
ResolveCheck(s, decision) ==
    /\ checks[s].status = "pending"
    /\ checks' = [checks EXCEPT ![s].status = decision]
    /\ stock' = CASE shipments[s].mode = "held" /\ decision = "returned_to_stock" ->
                        [stock EXCEPT !.reserved = @ - checks[s].quantity]
                  [] shipments[s].mode = "held" /\ decision = "lost" ->
                        [onHand |-> stock.onHand - checks[s].quantity,
                         reserved |-> stock.reserved - checks[s].quantity]
                  [] shipments[s].mode = "issued" /\ decision = "returned_to_stock" ->
                        [stock EXCEPT !.onHand = @ + checks[s].quantity]
                  [] shipments[s].mode = "issued" /\ decision = "lost" -> stock
    /\ UNCHANGED <<tickets, offers, ordered, orders, shipments, receipts, storeBags, queuedIn>>

Next ==
    \/ \E q \in 1..MaxOrder : PlaceOrder(q)
    \/ \E t \in Tickets : Accept(t) \/ DropOffer(t) \/ CancelTicket(t)
    \/ \E t \in Tickets, q \in 1..InitialStock : Offer(t, q)
    \/ \E s \in Shipments, q \in 0..MaxOrder : Run(s, q) \/ OrderEmergency(s, q)
    \/ \E s \in Shipments : Issue(s) \/ Return(s) \/ Finalize(s)
    \/ \E s \in Shipments, r \in 0..InitialStock : Declare(s, r)
    \/ \E s \in Shipments, r \in 0..InitialStock, e \in 0..MaxExcess : Submit(s, r, e)
    \/ \E s \in Shipments, d \in {"returned_to_stock", "lost"} : ResolveCheck(s, d)

Spec == Init /\ [][Next]_vars

-----------------------------------------------------------------------------
Shipped == {s \in Shipments : shipments[s].mode # "none"}
InReview == {s \in Shipped : receipts[s].status # "finalized"}

\* Every row keeps its type and a ticket's quantities add up.
TypeOK ==
    /\ \A t \in Tickets : tickets[t].status \in TicketStatus
                           /\ tickets[t].remaining \in Nat /\ tickets[t].fulfilled \in Nat
                           /\ tickets[t].original = tickets[t].remaining + tickets[t].fulfilled
    /\ Cardinality(Active(tickets)) <= 1
    /\ \A s \in Shipments : receipts[s].version \in 0..(MaxVersion + 1)
                             /\ receipts[s].queued \in 0..Approved(s)
    /\ storeBags \in Nat /\ stock.onHand \in Nat /\ stock.reserved \in 0..stock.onHand

\* Bags neither appear nor vanish: each is in the warehouse, on its way with
\* an RE order, in the store, under a check of goods that left, or lost
\* (finalizeStoreReceiptInTransaction, resolveWarehouseShortageCheck).
BagsAccounted ==
    LET onTheWay == {s \in InReview : shipments[s].mode = "issued"}
        away == {s \in Shipments : \/ checks[s].status = "lost"
                                   \/ checks[s].status = "pending" /\ shipments[s].mode = "issued"}
    IN  stock.onHand + storeBags + SumOf([s \in onTheWay |-> Approved(s)])
            + SumOf([s \in away |-> checks[s].quantity]) = InitialStock

\* What is reserved is what shipments not yet received, checks and offers
\* hold (settleReservations, openWarehouseShortageCheck).
ReservedMatchesHolds ==
    stock.reserved =
        SumOf([s \in {x \in InReview : shipments[x].mode = "held"} |-> Approved(s)])
        + SumOf([s \in {x \in Shipments : checks[x].status = "pending" /\ shipments[x].mode = "held"}
                    |-> checks[s].quantity])
        + SumOf([t \in Tickets |-> offers[t].held])

\* What the store was sent without declaring it missing, waits for and has
\* ordered.
Owed == SumOf([s \in Shipped \ Emergency |-> Approved(s) - receipts[s].queued])
            + Waiting(tickets) + ordered

\* The same, and the demand its users gave up.
Demand == Owed + SumOf([t \in {x \in Tickets : tickets[x].byUser} |-> tickets[t].remaining])

\* No demand is lost: what a store ordered and no user cancelled is on its
\* way, received or waited for (restoreShortageWait).
NoDemandLost == Demand >= orders

\* Bags that a ticket still counts although they went to another one when the two
\* were merged: opened again, it waits for them a second time.
CountedAgain ==
    LET reopened == {t \in Tickets : tickets[t].status = "cancelled" /\ ~tickets[t].byUser
                                      /\ tickets'[t].status = "active"}
    IN  SumOf([t \in reopened |-> tickets[t].remaining])

\* Bags of a shortage that is reduced after a user cancelled a wait: the store has
\* them, and no wait is reduced for them.
PastTheWait ==
    LET reduced == {s \in Shipments : receipts[s].waitGone /\ receipts'[s].queued < receipts[s].queued}
    IN  SumOf([s \in reduced |-> receipts[s].queued - receipts'[s].queued])

\* Demand is made by orders only, however often a shortage is declared, corrected,
\* merged, cancelled and served again, but for the two cases above, by exactly
\* their bags: in them the store is owed more than it ordered
\* (planWaitShortageMerge, undoShortageWait).
DemandConserved ==
    Demand' - Demand = (orders' - orders) + CountedAgain + PastTheWait

\* A shortage is only reduced together with the wait it was queued in, unless
\* a user cancelled that wait (undoShortageWait).
ReductionFindsItsWait ==
    \A s \in Shipments :
     receipts'[s].queued < receipts[s].queued =>
         \/ Waiting(tickets') < Waiting(tickets)
         \/ \E t \in queuedIn[s] : tickets[t].byUser

\* An accepted offer keeps an active ticket, which the run demands of it
\* (planProductAllocation, restoreShortageWait).
AcceptedOfferIsOpen == AcceptedOffers \subseteq Active(tickets)

=============================================================================
