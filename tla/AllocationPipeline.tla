------------------------- MODULE AllocationPipeline -------------------------
(***************************************************************************)
(* The life of a bag of demand, from order to issue: stores order in a     *)
(* session, the worker takes the session's stock snapshot and holds goods  *)
(* for waiting tickets (priority offers), stores answer, the worker        *)
(* allocates, and each store accepts its result or sends it back to the    *)
(* wait list.  Tickets can be cancelled and stock adjusted at any moment.  *)
(*                                                                         *)
(* Every command of the program is one serializable database transaction,  *)
(* and the commands that move reservations take the stock-jobs lock, so    *)
(* one action is one committed transaction.  A transaction that throws     *)
(* rolls back: it is no step.  The worker keeps nothing in memory between  *)
(* jobs, so its crash and restart is a pause.                              *)
(***************************************************************************)
EXTENDS Integers, FiniteSets, QuantitySums, FairShare

CONSTANTS
    Store, Product,
    Session,         \* order sessions of one business date
    SnapshotDue,     \* inventorySnapshotDueAt of each session
    FinalDue,        \* requestDeadlineAt: offers lapse, the run is due
    RequestQuota,    \* requests a store may submit to a session
    NoShipment,
    InitialStock,    \* on-hand quantity of each product
    InitialDemand,   \* tickets waiting at the start, by store and product
    TicketSlots,     \* bound: tickets a store may ever have per product
    MaxOrder,        \* bound: quantity of one requested product
    MaxStock,        \* bound: on-hand quantity
    MaxTime          \* bound: the clock

ASSUME PipelineAssumption ==
    /\ IsFiniteSet(Store) /\ IsFiniteSet(Product) /\ IsFiniteSet(Session)
    /\ SnapshotDue \in [Session -> Nat] /\ FinalDue \in [Session -> Nat]
    /\ NoShipment \notin Session
    /\ RequestQuota \in Nat /\ TicketSlots \in Nat \ {0}
    /\ MaxOrder \in Nat /\ MaxStock \in Nat /\ MaxTime \in Nat
    /\ InitialStock \in [Product -> 0 .. MaxStock]
    /\ InitialDemand \in [Store \X Product -> Nat]

Pair   == Store \X Product
Ticket == Store \X Product \X (1 .. TicketSlots)
Claim  == Store \X Product \X (0 .. TicketSlots)  \* 0: the ordinary order
Offer  == Session \X Ticket
Line   == Session \X Claim      \* allocation lines; slot k > 0: ticket's offer
Result == Session \X Store

PairOf(c) == <<c[1], c[2]>>
ResultOf(l) == <<l[1], l[2][1]>>
SourceOf(l) == l[2]                  \* the claim a line was granted to
ProductOf(x) == x[2][2]              \* of an offer or of a line
IsOrdinary(c) == c[3] = 0

VARIABLES
    now,
    startedAt,         \* the clock reading all jobs of the worker's tick use
    onHand, reserved,  \* warehouse_balances
    dueStock,          \* available quantity at each session's SnapshotDue
    session,           \* order_sessions.status
    taken, snapshot,   \* inventory_snapshots completed, their items
    requests, ordered, \* order_requests and the quantities they ask for
    ticket,            \* wait_tickets
    offer,             \* daily_priority_offers
    hold,              \* allocation_lines with their reservation
    decision,          \* allocation_result_decisions
    shipment           \* outbound_requests, one per result

warehouse == <<onHand, reserved>>
sessions == <<session, taken, snapshot, dueStock, requests, ordered>>
results == <<hold, decision, shipment>>
clock == <<now, startedAt>>
vars == <<clock, warehouse, sessions, ticket, offer, results>>

TicketStatus == {"none", "active", "fulfilled", "cancelled"}
OfferStatus == {"none", "offered", "accepted", "declined", "expired", "cancelled"}
HoldStatus == {"none", "active", "issued", "revoked", "requeued", "skipped"}
DecisionStatus ==
    {"none", "pending", "not_required", "accepted", "waitlisted", "cancelled"}

NoTicket == [status |-> "none", original |-> 0, remaining |-> 0, fulfilled |-> 0]
NoOffer == [status |-> "none", qty |-> 0, eligible |-> 0, held |-> 0]
NoHold == [status |-> "none", qty |-> 0, ship |-> NoShipment]
NoDecision == [status |-> "none", granted |-> 0, revoked |-> 0]

NewTicket(q) ==
    [status |-> "active", original |-> q, remaining |-> q, fulfilled |-> 0]

Init ==
    /\ now = 0 /\ startedAt = 0
    /\ onHand = InitialStock
    /\ reserved = [p \in Product |-> 0]
    /\ dueStock = [n \in Session |-> [p \in Product |-> 0]]
    /\ session = [n \in Session |-> "open"]
    /\ taken = [n \in Session |-> FALSE]
    /\ snapshot = [n \in Session |-> [p \in Product |-> 0]]
    /\ requests = [r \in Result |-> 0]
    /\ ordered = [l \in Session \X Pair |-> 0]
    /\ ticket = [t \in Ticket |->
                    IF t[3] = 1 /\ InitialDemand[PairOf(t)] > 0
                    THEN NewTicket(InitialDemand[PairOf(t)]) ELSE NoTicket]
    /\ offer = [o \in Offer |-> NoOffer]
    /\ hold = [l \in Line |-> NoHold]
    /\ decision = [r \in Result |-> NoDecision]
    /\ shipment = [r \in Result |-> "none"]

-----------------------------------------------------------------------------
(* The warehouse.                                                          *)

Available(p) == onHand[p] - reserved[p]

\* The movement guard of applyWarehouseMovement.
Balanced(stock, pledged) ==
    \A p \in Product : stock[p] \in Nat /\ pledged[p] \in 0 .. stock[p]

\* What a set of offers holds of a product, and a set of lines.
OfferHeld(set, p) ==
    SumOf([o \in Offer |-> IF o \in set /\ ProductOf(o) = p THEN offer[o].held ELSE 0])

LineHeld(set, p) ==
    SumOf([l \in Line |-> IF l \in set /\ ProductOf(l) = p THEN hold[l].qty ELSE 0])

IncreaseStock(p) ==
    /\ onHand[p] < MaxStock
    /\ onHand' = [onHand EXCEPT ![p] = @ + 1]
    /\ UNCHANGED <<clock, reserved, sessions, ticket, offer, results>>

\* Mutant: the write-off looks at the stock and not at the reservations.
DecreaseReservedStock(p) ==
    /\ onHand[p] > 0
    /\ onHand' = [onHand EXCEPT ![p] = @ - 1]
    /\ UNCHANGED <<clock, reserved, sessions, ticket, offer, results>>

\* Only goods nobody holds can be written off.
DecreaseStock(p) ==
    /\ Available(p) > 0
    /\ onHand' = [onHand EXCEPT ![p] = @ - 1]
    /\ UNCHANGED <<clock, reserved, sessions, ticket, offer, results>>

\* The instant a snapshot falls due passes; loadWarehouseBalancesAt can
\* still read the balance of that instant from the ledger later.
Tick ==
    /\ now < MaxTime
    /\ now' = now + 1
    /\ dueStock' = [n \in Session |->
                      IF now = SnapshotDue[n]
                      THEN [p \in Product |-> Available(p)] ELSE dueStock[n]]
    /\ UNCHANGED <<startedAt, warehouse, session, taken, snapshot, requests,
                   ordered, ticket, offer, results>>

-----------------------------------------------------------------------------
(* Wait tickets.  A store has one active ticket per product; demand that   *)
(* comes back joins it, or opens a ticket in the next free slot.           *)

ActiveFor(tickets, pair) ==
    {t \in Ticket : PairOf(t) = pair /\ tickets[t].status = "active"}

IsReceiver(tickets, t) ==
    \/ tickets[t].status = "active"
    \/ /\ tickets[t].status = "none"
       /\ ActiveFor(tickets, PairOf(t)) = {}
       /\ \A k \in 1 .. t[3] - 1 : tickets[<<t[1], t[2], k>>].status # "none"

HasReceiver(tickets, pair) ==
    \E t \in Ticket : PairOf(t) = pair /\ IsReceiver(tickets, t)

\* add is new demand, restore was granted from this very ticket.
Receive(row, add, restore) ==
    IF row.status = "active"
    THEN [row EXCEPT !.original = @ + add, !.remaining = @ + add + restore,
                     !.fulfilled = @ - restore]
    ELSE NewTicket(add)

\* The CHECK constraints of wait_tickets.
ValidTicket(row) ==
    /\ row.remaining >= 0 /\ row.fulfilled >= 0
    /\ row.remaining + row.fulfilled = row.original
    /\ row.status = "active" => row.remaining > 0

\* Mutant: an accepted offer no longer counts as a claim.
LiveUnanswered(o) == offer[o].status = "offered"

\* livePriorityOfferCondition: still answerable, or accepted and not yet
\* allocated by the run of its session.
Live(o) ==
    \/ offer[o].status = "offered"
    \/ offer[o].status = "accepted" /\ session[o[1]] # "completed"

LiveFor(t) == {o \in Offer : o[2] = t /\ Live(o)}

\* priorityOfferCoverage = 'full' and no claim on the ticket but the ended.
EndsWait(o, ended) ==
    /\ ticket[o[2]].status = "active"
    /\ offer[o].qty >= offer[o].eligible
    /\ ticket[o[2]].remaining <= offer[o].qty
    /\ LiveFor(o[2]) \subseteq ended

CloseTicket(row) == [row EXCEPT !.status = "cancelled"]
CloseOffer(row, status) == [row EXCEPT !.status = status, !.held = 0]

-----------------------------------------------------------------------------
(* Orders and sessions.                                                    *)

\* createOrderRequest: before the session's snapshot, within the quota, for
\* products in stock that the store is not already waiting for.
SubmitOrder(n, s, items) ==
    /\ session[n] = "open" /\ now < SnapshotDue[n]
    /\ requests[<<n, s>>] < RequestQuota
    /\ \E p \in Product : items[p] > 0
    /\ \A p \in Product : items[p] > 0 =>
          /\ Available(p) > 0
          /\ ActiveFor(ticket, <<s, p>>) = {}
    /\ requests' = [requests EXCEPT ![<<n, s>>] = @ + 1]
    /\ ordered' = [l \in Session \X Pair |->
                     IF l[1] = n /\ l[2][1] = s
                     THEN ordered[l] + items[l[2][2]] ELSE ordered[l]]
    /\ UNCHANGED <<clock, warehouse, session, taken, snapshot, dueStock, ticket,
                   offer, results>>

\* A cancelled session is never allocated; its requests go with it.
CancelSession(n) ==
    /\ session[n] = "open" /\ now < SnapshotDue[n]
    /\ session' = [session EXCEPT ![n] = "cancelled"]
    /\ requests' = [r \in Result |-> IF r[1] = n THEN 0 ELSE requests[r]]
    /\ ordered' = [l \in Session \X Pair |-> IF l[1] = n THEN 0 ELSE ordered[l]]
    /\ UNCHANGED <<clock, warehouse, taken, snapshot, dueStock, ticket, offer,
                   results>>

-----------------------------------------------------------------------------
(* The worker's first job: snapshot and priority offers.  A tick reads the *)
(* clock once and hands that instant to every job it runs, while a job     *)
(* waits for the stock-jobs lock and for the jobs before it.               *)

StartTick ==
    /\ startedAt < now
    /\ startedAt' = now
    /\ UNCHANGED <<now, warehouse, sessions, ticket, offer, results>>

Historical(n, p) ==
    IF now = SnapshotDue[n] THEN Available(p) ELSE dueStock[n][p]

\* Mutant: tickets that another session has a claim on are offered again.
OfferableTwice(n) ==
    IF startedAt < FinalDue[n] /\ SnapshotDue[n] < FinalDue[n]
    THEN {t \in Ticket : ticket[t].status = "active"} ELSE {}

\* Active tickets no session has a claim on; none once the answers are due,
\* by the clock of the tick.
Offerable(n) ==
    IF startedAt < FinalDue[n] /\ SnapshotDue[n] < FinalDue[n]
    THEN {t \in Ticket : ticket[t].status = "active" /\ LiveFor(t) = {}}
    ELSE {}

IsOfferPlan(n, plan) ==
    \A p \in Product :
        LET tickets == {t \in Offerable(n) : t[2] = p} IN
        IsFairShare([t \in tickets |-> ticket[t].remaining],
                    [t \in tickets |-> 1],
                    Lesser(Historical(n, p), Available(p)),
                    [t \in tickets |-> plan[t]])

\* The offer of session n on ticket t that the plan makes, if any.
PlannedOffer(n, plan, o) ==
    o[1] = n /\ o[2] \in Offerable(n) /\ plan[o[2]] > 0

CaptureSnapshot(n, plan) ==
    /\ session[n] = "open" /\ SnapshotDue[n] <= startedAt /\ ~taken[n]
    /\ IsOfferPlan(n, plan)
    /\ taken' = [taken EXCEPT ![n] = TRUE]
    /\ snapshot' = [snapshot EXCEPT ![n] = [p \in Product |-> Historical(n, p)]]
    /\ offer' = [o \in Offer |->
                   IF PlannedOffer(n, plan, o)
                   THEN [status |-> "offered", qty |-> plan[o[2]],
                         eligible |-> ticket[o[2]].remaining,
                         held |-> plan[o[2]]]
                   ELSE offer[o]]
    /\ reserved' = [p \in Product |-> reserved[p] +
                      SumOf([o \in Offer |->
                               IF PlannedOffer(n, plan, o) /\ ProductOf(o) = p
                               THEN plan[o[2]] ELSE 0])]
    /\ Balanced(onHand, reserved')
    /\ UNCHANGED <<clock, onHand, session, dueStock, requests, ordered, ticket,
                   results>>

-----------------------------------------------------------------------------
(* Answers to offers (planPriorityOfferResponse).                          *)

AcceptOffer(o) ==
    /\ offer[o].status = "offered" /\ ticket[o[2]].status = "active"
    /\ now < FinalDue[o[1]]
    /\ offer[o].qty <= ticket[o[2]].remaining
    /\ offer' = [offer EXCEPT ![o].status = "accepted"]
    /\ UNCHANGED <<clock, warehouse, sessions, ticket, results>>

\* Refusing, or answering too late, returns the goods; the refusal of an
\* offer that covered the whole wait ends the wait.
EndOffer(o, status) ==
    /\ offer[o].status = "offered" /\ ticket[o[2]].status = "active"
    /\ offer' = [offer EXCEPT ![o] = CloseOffer(@, status)]
    /\ reserved' = [p \in Product |-> reserved[p] - OfferHeld({o}, p)]
    /\ Balanced(onHand, reserved')
    /\ ticket' = [ticket EXCEPT ![o[2]] =
                    IF EndsWait(o, {o}) THEN CloseTicket(@) ELSE @]
    /\ UNCHANGED <<clock, onHand, sessions, results>>

DeclineOffer(o) == now < FinalDue[o[1]] /\ EndOffer(o, "declined")
AnswerLate(o) == now >= FinalDue[o[1]] /\ EndOffer(o, "expired")

-----------------------------------------------------------------------------
(* The worker's second job: the allocation run.                            *)

\* Mutant: only the offers of earlier sessions lapse.
ExpiringEarlier(n) ==
    {o \in Offer : offer[o].status = "offered" /\ FinalDue[o[1]] < FinalDue[n]}

\* expirableOfferCondition: the session's own unanswered offers, and those
\* of a session whose deadline lies strictly before this run's.
Expiring(n) ==
    {o \in Offer : /\ offer[o].status = "offered"
                   /\ o[1] = n \/ FinalDue[o[1]] < FinalDue[n]}

LapsedTicket(n, t) ==
    \E o \in Expiring(n) : o[2] = t /\ EndsWait(o, Expiring(n))

TicketsAfterExpiry(n) ==
    [t \in Ticket |->
        IF LapsedTicket(n, t) THEN CloseTicket(ticket[t]) ELSE ticket[t]]

AcceptedOwn(n) == {o \in Offer : o[1] = n /\ offer[o].status = "accepted"}

\* buildAllocationDemands: the merged orders, then the accepted offers.
Want(n) ==
    [c \in Claim |->
        IF IsOrdinary(c) THEN ordered[<<n, PairOf(c)>>]
        ELSE IF <<n, c>> \in AcceptedOwn(n) THEN offer[<<n, c>>].qty ELSE 0]

TierOf(c) == IF IsOrdinary(c) THEN 2 ELSE 1       \* P0A before P1

ReservedAfterExpiry(n, p) == reserved[p] - OfferHeld(Expiring(n), p)

\* Mutant: the goods held for the accepted offers count as gone.
AllocatableWithoutHolds(n, p) ==
    Lesser(snapshot[n][p], Greater(0, onHand[p] - ReservedAfterExpiry(n, p)))

\* Mutant: the run trusts the snapshot and not the stock of this moment.
AllocatableFromSnapshot(n, p) == snapshot[n][p]

\* allocatableSnapshotQuantity: the snapshot, as far as the stock of this
\* moment and the goods held for the accepted offers still cover it.
Allocatable(n, p) ==
    Lesser(snapshot[n][p],
           Greater(0, onHand[p] - ReservedAfterExpiry(n, p))
               + OfferHeld(AcceptedOwn(n), p))

IsAllocation(n, grant) ==
    \A p \in Product :
        LET claims == {c \in Claim : c[2] = p} IN
        IsFairShare([c \in claims |-> Want(n)[c]], [c \in claims |-> TierOf(c)],
                    Allocatable(n, p), [c \in claims |-> grant[c]])

Shortfall(n, grant, pair) ==
    ordered[<<n, pair>>] - grant[<<pair[1], pair[2], 0>>]

\* A ticket gives up what its offer was granted ...
Fulfil(row, q) ==
    [row EXCEPT !.remaining = @ - q, !.fulfilled = @ + q,
                !.status = IF q > 0 /\ row.remaining = q THEN "fulfilled" ELSE @]

TicketsAfterGrants(n, grant) ==
    [t \in Ticket |-> Fulfil(TicketsAfterExpiry(n)[t], grant[t])]

\* ... and what an ordinary order did not get starts waiting.
TicketsAfterRun(n, grant) ==
    LET left == TicketsAfterGrants(n, grant) IN
    [t \in Ticket |->
        IF Shortfall(n, grant, PairOf(t)) > 0 /\ IsReceiver(left, t)
        THEN Receive(left[t], Shortfall(n, grant, PairOf(t)), 0) ELSE left[t]]

\* Mutant: goods the store has not answered for are carried along.
CarriableUnanswered(n, s) ==
    {l \in Line : /\ l[1] # n /\ SourceOf(l)[1] = s
                  /\ hold[l].status \in {"active", "issued"}
                  /\ hold[l].ship = NoShipment}

\* Mutant: goods are carried although they already have a shipment.
CarriableTwice(n, s) ==
    {l \in Line : /\ l[1] # n /\ SourceOf(l)[1] = s
                  /\ hold[l].status \in {"active", "issued"}
                  /\ session[l[1]] = "completed"
                  /\ decision[ResultOf(l)].status \in {"accepted", "not_required"}}

\* Goods of earlier results the next shipment carries (shippableResultCondition).
Carriable(n, s) ==
    {l \in Line : /\ l[1] # n /\ SourceOf(l)[1] = s
                  /\ hold[l].status \in {"active", "issued"}
                  /\ hold[l].ship = NoShipment
                  /\ session[l[1]] = "completed"
                  /\ decision[ResultOf(l)].status \in {"accepted", "not_required"}}

OwnGranted(n, grant, s) == {c \in Claim : c[1] = s /\ grant[c] > 0}

OrdersIn(n, s) == \E p \in Product : ordered[<<n, <<s, p>>>>] > 0

\* materializeOutboundRequests: only an ordinary order triggers a shipment.
Ships(n, grant, s) ==
    OrdersIn(n, s) /\ (OwnGranted(n, grant, s) # {} \/ Carriable(n, s) # {})

HoldAfterRun(n, grant, l) ==
    LET s == SourceOf(l)[1]
        ship == IF Ships(n, grant, s) THEN n ELSE NoShipment IN
    IF l[1] = n
    THEN IF grant[SourceOf(l)] > 0
         THEN [status |-> "active", qty |-> grant[SourceOf(l)], ship |-> ship]
         ELSE hold[l]
    ELSE IF l \in Carriable(n, s) THEN [hold[l] EXCEPT !.ship = ship] ELSE hold[l]

GrantedTo(grant, s) ==
    SumOf([c \in Claim |-> IF c[1] = s THEN grant[c] ELSE 0])

HasLine(n, s) == \E c \in Claim : c[1] = s /\ Want(n)[c] > 0

DecisionAfterRun(n, grant, s) ==
    [status |-> IF GrantedTo(grant, s) > 0 THEN "pending"
                ELSE IF HasLine(n, s) THEN "not_required" ELSE "none",
     granted |-> GrantedTo(grant, s), revoked |-> 0]

\* A shipment of goods accepted earlier needs no answer and leaves at once.
ShipmentAfterRun(n, grant, s) ==
    IF ~Ships(n, grant, s) THEN "none"
    ELSE IF GrantedTo(grant, s) > 0 THEN "reserved" ELSE "dispatched"

\* Mutant: granted goods are reserved anew although an offer held them.
ReservedTwice(n, grant, p) ==
    ReservedAfterExpiry(n, p)
        + SumOf([c \in Claim |-> IF c[2] = p THEN grant[c] ELSE 0])

\* Held goods the run does not use return; what it grants beyond the goods
\* it keeps is reserved anew.
ReservedAfterRun(n, grant, p) ==
    ReservedAfterExpiry(n, p) - OfferHeld(AcceptedOwn(n), p)
        + SumOf([c \in Claim |-> IF c[2] = p THEN grant[c] ELSE 0])

\* What makes the job throw: an accepted offer its ticket no longer backs, or
\* a row a CHECK constraint refuses.  (A free slot is the bound TicketSlots.)
RunCommits(n, grant) ==
    /\ \A o \in AcceptedOwn(n) :
          /\ TicketsAfterExpiry(n)[o[2]].status = "active"
          /\ offer[o].qty <= TicketsAfterExpiry(n)[o[2]].remaining
    /\ \A p \in Product : ReservedAfterRun(n, grant, p) \in 0 .. onHand[p]
    /\ \A t \in Ticket : ValidTicket(TicketsAfterRun(n, grant)[t])

SlotFree(n, grant) ==
    \A pair \in Pair : Shortfall(n, grant, pair) > 0 =>
        HasReceiver(TicketsAfterGrants(n, grant), pair)

FinalizeAllocation(n, grant) ==
    /\ session[n] = "open" /\ FinalDue[n] <= startedAt /\ taken[n]
    /\ IsAllocation(n, grant)
    /\ RunCommits(n, grant)
    /\ SlotFree(n, grant)
    /\ session' = [session EXCEPT ![n] = "completed"]
    /\ offer' = [o \in Offer |->
                   IF o \in Expiring(n) THEN CloseOffer(offer[o], "expired")
                   ELSE IF o \in AcceptedOwn(n) THEN CloseOffer(offer[o], "accepted")
                   ELSE offer[o]]
    /\ reserved' = [p \in Product |-> ReservedAfterRun(n, grant, p)]
    /\ ticket' = TicketsAfterRun(n, grant)
    /\ hold' = [l \in Line |-> HoldAfterRun(n, grant, l)]
    /\ decision' = [r \in Result |->
                      IF r[1] = n THEN DecisionAfterRun(n, grant, r[2]) ELSE decision[r]]
    /\ shipment' = [r \in Result |->
                      IF r[1] = n THEN ShipmentAfterRun(n, grant, r[2]) ELSE shipment[r]]
    /\ UNCHANGED <<clock, onHand, taken, snapshot, dueStock, requests, ordered>>

-----------------------------------------------------------------------------
(* Answers to results, and the cancellation of a ticket.                   *)

\* lockActionableHolds: the result's own goods still on hold.
OwnActive(r) == {l \in Line : ResultOf(l) = r /\ hold[l].status = "active"}

HeldQuantity(set) ==
    SumOf([l \in Line |-> IF l \in set THEN hold[l].qty ELSE 0])

Actionable(r) == decision[r].granted - decision[r].revoked

\* The integrity checks every answer and revocation makes; each throws.
Revocable(r, holds) ==
    /\ holds # {}
    /\ shipment[r] \in {"none", "reserved", "cancelled"}
    /\ \A l \in holds :
          hold[l].ship = NoShipment
             \/ (hold[l].ship = r[1] /\ shipment[r] = "reserved")
    /\ HeldQuantity(holds) <= Actionable(r)

\* Goods on the result's shipment that an earlier result granted.
Carried(r) ==
    {l \in Line : /\ SourceOf(l)[1] = r[2] /\ l[1] # r[1]
                  /\ hold[l].ship = r[1]
                  /\ hold[l].status \in {"active", "issued"}}

AcceptResult(r) ==
    /\ decision[r].status = "pending" /\ Actionable(r) > 0
    /\ shipment[r] \in {"none", "reserved", "cancelled"}
    /\ HeldQuantity(OwnActive(r)) = Actionable(r)     \* the whole RE order
    /\ decision' = [decision EXCEPT ![r].status = "accepted"]
    /\ hold' = [l \in Line |->
                  IF l \in OwnActive(r) THEN [hold[l] EXCEPT !.status = "issued"]
                  ELSE hold[l]]
    /\ onHand' = [p \in Product |-> onHand[p] - LineHeld(OwnActive(r), p)]
    /\ reserved' = [p \in Product |-> reserved[p] - LineHeld(OwnActive(r), p)]
    /\ Balanced(onHand', reserved')
    /\ shipment' = [shipment EXCEPT ![r] =
                      IF @ = "reserved" THEN "dispatched" ELSE @]
    /\ UNCHANGED <<clock, sessions, ticket, offer>>

\* planWaitlistRequeue: where each bag of a returned result goes.
IsSkipped(l) ==
    ~IsOrdinary(SourceOf(l)) /\ ticket[SourceOf(l)].status = "cancelled"

IsRestored(l) ==
    ~IsOrdinary(SourceOf(l)) /\ ticket[SourceOf(l)].status = "active"

ReturnedTo(r, pair, lines) ==
    HeldQuantity({l \in lines : PairOf(SourceOf(l)) = pair})

Restored(r, pair) ==
    ReturnedTo(r, pair, {l \in OwnActive(r) : IsRestored(l)})

Added(r, pair) ==
    ReturnedTo(r, pair, {l \in OwnActive(r) : ~IsSkipped(l) /\ ~IsRestored(l)})

\* Mutant: goods that all go back to their own ticket are dropped.
TicketsAfterAdding(r) ==
    [t \in Ticket |->
        IF Added(r, PairOf(t)) > 0 /\ IsReceiver(ticket, t)
        THEN Receive(ticket[t], Added(r, PairOf(t)), Restored(r, PairOf(t)))
        ELSE ticket[t]]

TicketsAfterReturn(r) ==
    [t \in Ticket |->
        IF Added(r, PairOf(t)) + Restored(r, PairOf(t)) > 0 /\ IsReceiver(ticket, t)
        THEN Receive(ticket[t], Added(r, PairOf(t)), Restored(r, PairOf(t)))
        ELSE ticket[t]]

\* closeResultShipment: the shipment is cancelled and what it carried for
\* earlier results is unlinked, to ride a later one.
Detached(row) == [row EXCEPT !.ship = NoShipment]

ClosedShipment(status) == IF status = "reserved" THEN "cancelled" ELSE status

WaitlistResult(r) ==
    /\ decision[r].status = "pending" /\ Actionable(r) > 0
    /\ Revocable(r, OwnActive(r))
    /\ HeldQuantity(OwnActive(r)) = Actionable(r)
    /\ \A pair \in Pair :
          Added(r, pair) > 0 => HasReceiver(ticket, pair)    \* bound TicketSlots
    /\ decision' = [decision EXCEPT ![r].status = "waitlisted",
                                    ![r].revoked = decision[r].granted]
    /\ hold' = [l \in Line |->
                  IF l \in OwnActive(r)
                  THEN [hold[l] EXCEPT !.status =
                          IF IsSkipped(l) THEN "skipped" ELSE "requeued"]
                  ELSE IF l \in Carried(r) THEN Detached(hold[l]) ELSE hold[l]]
    /\ reserved' = [p \in Product |-> reserved[p] - LineHeld(OwnActive(r), p)]
    /\ Balanced(onHand, reserved')
    /\ ticket' = TicketsAfterReturn(r)
    /\ \A t \in Ticket : ValidTicket(ticket'[t])
    /\ shipment' = [shipment EXCEPT ![r] = ClosedShipment(@)]
    /\ UNCHANGED <<clock, onHand, sessions, offer>>

\* Grants of a ticket that are still waiting for the store's answer.
RevocableOf(t) ==
    {l \in Line : /\ SourceOf(l) = t /\ hold[l].status = "active"
                  /\ decision[ResultOf(l)].status = "pending"}

RevokedFrom(t, r) == {l \in RevocableOf(t) : ResultOf(l) = r}

\* Mutant: the result is closed as soon as any of its goods are taken back.
EmptiedByAny(t, r) == RevokedFrom(t, r) # {}

\* Mutant: the holds are counted before the ticket's are released.
EmptiedBefore(t, r) == RevokedFrom(t, r) # {} /\ OwnActive(r) = {}

\* The result has nothing left to answer once the ticket's goods are gone.
Emptied(t, r) ==
    /\ RevokedFrom(t, r) # {}
    /\ HeldQuantity(RevokedFrom(t, r)) = Actionable(r)

CancelTicket(t) ==
    LET back == HeldQuantity(RevocableOf(t)) IN
    /\ ticket[t].status \in {"active", "fulfilled"}
    /\ ticket[t].remaining + back > 0
    /\ \A r \in Result : RevokedFrom(t, r) # {} => Revocable(r, RevokedFrom(t, r))
    /\ ticket' = [ticket EXCEPT ![t].status = "cancelled",
                                ![t].remaining = @ + back,
                                ![t].fulfilled = @ - back]
    /\ ValidTicket(ticket'[t])
    /\ offer' = [o \in Offer |->
                   IF o \in LiveFor(t) THEN CloseOffer(offer[o], "cancelled")
                   ELSE offer[o]]
    /\ reserved' = [p \in Product |->
                      reserved[p] - OfferHeld(LiveFor(t), p) - LineHeld(RevocableOf(t), p)]
    /\ Balanced(onHand, reserved')
    /\ decision' = [r \in Result |->
                      [decision[r] EXCEPT
                         !.revoked = @ + HeldQuantity(RevokedFrom(t, r)),
                         !.status = IF Emptied(t, r) THEN "cancelled" ELSE @]]
    /\ hold' = [l \in Line |->
                  IF l \in RevocableOf(t)
                  THEN [hold[l] EXCEPT !.status = "revoked",
                          !.ship = IF Emptied(t, ResultOf(l)) THEN @ ELSE NoShipment]
                  ELSE IF \E r \in Result : Emptied(t, r) /\ l \in Carried(r)
                       THEN Detached(hold[l]) ELSE hold[l]]
    /\ shipment' = [r \in Result |->
                      IF Emptied(t, r) THEN ClosedShipment(shipment[r]) ELSE shipment[r]]
    /\ UNCHANGED <<clock, onHand, sessions>>

-----------------------------------------------------------------------------
Items == [Product -> 0 .. MaxOrder]

\* A choice for some keys, and zero for the others.
Extended(choice, keys) ==
    [k \in keys |-> IF k \in DOMAIN choice THEN choice[k] ELSE 0]

\* Nothing can be offered or granted beyond the stock the warehouse may hold.
OfferPlans(n) ==
    {Extended(choice, Ticket) : choice \in [Offerable(n) -> 0 .. MaxStock]}

Grants(n) ==
    {Extended(choice, Claim) :
        choice \in [{c \in Claim : Want(n)[c] > 0} -> 0 .. MaxStock]}

Snapshots == \E n \in Session : \E plan \in OfferPlans(n) : CaptureSnapshot(n, plan)

Runs == \E n \in Session : \E grant \in Grants(n) : FinalizeAllocation(n, grant)

Answers ==
    \/ \E o \in Offer : AcceptOffer(o) \/ DeclineOffer(o) \/ AnswerLate(o)
    \/ \E r \in Result : AcceptResult(r) \/ WaitlistResult(r)

Next ==
    \/ Tick \/ StartTick
    \/ \E p \in Product : IncreaseStock(p) \/ DecreaseStock(p)
    \/ \E n \in Session : CancelSession(n)
    \/ \E n \in Session, s \in Store, items \in Items : SubmitOrder(n, s, items)
    \/ Snapshots
    \/ Runs
    \/ Answers
    \/ \E t \in Ticket : CancelTicket(t)

Spec == Init /\ [][Next]_vars

\* The worker polls for due sessions for ever and retries what failed, and
\* time passes; nobody else has to do anything.
FairSpec ==
    /\ Spec
    /\ WF_vars(Tick) /\ WF_vars(StartTick)
    /\ \A n \in Session :
          /\ WF_vars(\E plan \in OfferPlans(n) : CaptureSnapshot(n, plan))
          /\ WF_vars(\E grant \in Grants(n) : FinalizeAllocation(n, grant))

-----------------------------------------------------------------------------
TicketType ==
    [status : TicketStatus, original : Nat, remaining : Nat, fulfilled : Nat]
OfferType == [status : OfferStatus, qty : Nat, eligible : Nat, held : Nat]
HoldType == [status : HoldStatus, qty : Nat, ship : Session \cup {NoShipment}]
DecisionType == [status : DecisionStatus, granted : Nat, revoked : Nat]
ShipmentStatus == {"none", "reserved", "dispatched", "cancelled"}

TypeOK ==
    /\ now \in Nat /\ startedAt \in Nat
    /\ onHand \in [Product -> Nat] /\ reserved \in [Product -> Nat]
    /\ Balanced(onHand, reserved)
    /\ dueStock \in [Session -> [Product -> Nat]]
    /\ session \in [Session -> {"open", "completed", "cancelled"}]
    /\ taken \in [Session -> BOOLEAN]
    /\ snapshot \in [Session -> [Product -> Nat]]
    /\ requests \in [Result -> Nat] /\ ordered \in [Session \X Pair -> Nat]
    /\ ticket \in [Ticket -> TicketType]
    /\ offer \in [Offer -> OfferType]
    /\ hold \in [Line -> HoldType]
    /\ decision \in [Result -> DecisionType]
    /\ shipment \in [Result -> ShipmentStatus]

\* warehouse_balances.reserved is exactly what the program holds for someone:
\* the holds of live offers and the active reservations of results, through
\* releases, conversions of holds by a run, partial revocations and issues.
ReservedIsPledged ==
    \A p \in Product :
        reserved[p] = OfferHeld(Offer, p)
                        + LineHeld({l \in Line : hold[l].status = "active"}, p)

\* A claim on a ticket stays good for as long as it lives: its ticket waits
\* for at least that much, the goods are held, and no other session has a
\* claim on the same ticket (planPriorityOffers skips claimed tickets, and
\* everything that ends a ticket ends its claims).
LiveOfferBacked ==
    \A o \in Offer : Live(o) =>
        /\ ticket[o[2]].status = "active"
        /\ offer[o].qty <= ticket[o[2]].remaining
        /\ offer[o].held = offer[o].qty /\ offer[o].qty > 0
        /\ LiveFor(o[2]) = {o}

\* A result that waits for an answer can be answered either way: exactly its
\* actionable goods are on hold, all on its own reserved shipment if it has
\* one; and no result that is settled still holds goods.  This is what the
\* integrity errors of allocation-waitlist.ts and reshare-orders.ts assume.
PendingResultAnswerable ==
    \A r \in Result :
        IF decision[r].status = "pending"
        THEN /\ Actionable(r) > 0
             /\ HeldQuantity(OwnActive(r)) = Actionable(r)
             /\ shipment[r] \in {"none", "reserved"}
             /\ \A l \in OwnActive(r) :
                   hold[l].ship = IF shipment[r] = "reserved" THEN r[1]
                                  ELSE NoShipment
        ELSE OwnActive(r) = {}

\* Goods the store did not accept never ride a shipment that left, a live
\* shipment mixes only the result's own goods with goods issued before, and
\* goods still owed to the store are never left on a cancelled shipment.
OnlyConfirmedGoodsLeave ==
    \A l \in Line :
        hold[l].ship # NoShipment /\ hold[l].status \in {"active", "issued"} =>
            LET carrier == shipment[<<hold[l].ship, SourceOf(l)[1]>>] IN
            \/ carrier = "dispatched" /\ hold[l].status = "issued"
            \/ carrier = "reserved" /\ (hold[l].status = "issued" <=> hold[l].ship # l[1])

\* No bag of demand is lost or counted twice: what a store ordered and was
\* allocated for is on hold or issued, or waits on a ticket (or was cancelled
\* on one), or was dropped because its ticket had been cancelled.
DemandAccounted ==
    \A pair \in Pair :
        InitialDemand[pair]
          + SumOf([n \in Session |->
                     IF session[n] = "completed" THEN ordered[<<n, pair>>] ELSE 0])
        = SumOf([t \in Ticket |-> IF PairOf(t) = pair THEN ticket[t].remaining ELSE 0])
          + HeldQuantity({l \in Line : PairOf(SourceOf(l)) = pair
                            /\ hold[l].status \in {"active", "issued", "skipped"}})

\* A due run never throws: whatever happened since the snapshot, the demands
\* can be built and every row the run writes satisfies its constraints.
DueRunCommits ==
    \A n \in Session :
        session[n] = "open" /\ FinalDue[n] <= startedAt /\ taken[n] =>
            \A grant \in Grants(n) : IsAllocation(n, grant) => RunCommits(n, grant)

\* An offer accepted in time is granted in full by its session's run, even
\* when stock left the warehouse after the snapshot.
AcceptedOfferHonoured ==
    [][\A o \in Offer :
          offer[o].status = "accepted" /\ session[o[1]] = "open"
              /\ session'[o[1]] = "completed"
          => hold'[o].qty = offer[o].qty]_vars

\* #captureSnapshot promises that a late snapshot creates no offer nobody
\* could answer: an offer is made while its store can still accept it.
OffersMadeInTime ==
    [][\A o \in Offer :
          offer[o].status = "none" /\ offer'[o].status = "offered"
          => now < FinalDue[o[1]]]_vars

\* What left for the store is settled for good: no later answer, run or
\* cancellation moves it to another shipment or takes it back.
DispatchedGoodsStay ==
    [][\A l \in Line :
          hold[l].ship # NoShipment /\ hold[l].status = "issued"
              /\ shipment[<<hold[l].ship, SourceOf(l)[1]>>] = "dispatched"
          => hold'[l] = hold[l]]_vars

\* Each result keeps the promise of ResultDecision: what its lines went
\* through adds up to the quantities of its decision, at every step.
OwnQuantity(r, statuses) ==
    HeldQuantity({l \in Line : ResultOf(l) = r /\ hold[l].status \in statuses})

Decision(r) == INSTANCE ResultDecision WITH
    status   <- decision[r].status,
    granted  <- decision[r].granted,
    returned <- OwnQuantity(r, {"revoked", "requeued", "skipped"}),
    issued   <- OwnQuantity(r, {"issued"}),
    sent     <- shipment[r] = "dispatched"

ResultsKeepPromise ==
    /\ \A r \in Result : Decision(r)!Init
    /\ [][\A r \in Result : [Decision(r)!Next]_(Decision(r)!vars)]_vars

\* Every session that is not cancelled is allocated in the end, although its
\* snapshot or its run may be taken late.
SessionsComplete ==
    \A n \in Session : <>(session[n] \in {"completed", "cancelled"})

\* No offer keeps goods back for ever: answered or not, the hold of every
\* offer ends.
OfferHoldsEnd ==
    \A o \in Offer : offer[o].held > 0 ~> offer[o].held = 0
=============================================================================
