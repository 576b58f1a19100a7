---------------------------- MODULE MemoryWarehouse ----------------------------
(***************************************************************************)
(* The warehouse of the in-memory server (memory-repository.ts): balances, *)
(* supplier receipts, adjustments, results and their answers, shipments,   *)
(* store receipts and the shortage checks they raise. Handlers are atomic; *)
(* what can go stale is the page a manager answers from. One store.        *)
(***************************************************************************)
EXTENDS Integers, FiniteSets, FiniteSetsExt

CONSTANTS
    Products,
    Inbounds,     \* supplier receipts
    Results,      \* allocation results; each has at most one shipment
    Quantities,   \* bags of one line or one adjustment
    MaxStock,     \* on-hand of a product (bound)
    MaxVersion,   \* versions of a balance (bound)
    MaxMarks,     \* changes of a status by hand (bound)
    Verdicts      \* answers an administrator gives to a shortage check

MemoryWarehouseBounds ==
    /\ Quantities \subseteq Nat \ {0}
    /\ MaxStock \in Nat /\ MaxVersion \in Nat /\ MaxMarks \in Nat
    /\ Verdicts \subseteq {"LOST", "RETURNED_TO_STOCK"}

VARIABLES
    balance,      \* warehouseBalances
    page,         \* the balance an administrator's form shows: none or one
    adjusted,     \* warehouseAdjustments: net bags per product
    inbound,      \* inboundReceipts
    result,       \* allocationDecisions
    shipment,     \* dispatchedOutbounds of the results
    ordered,      \* reshareOrders: results with an RE order
    marked,       \* reshareStatuses
    list,         \* a row of an open list of results: none or one
    ticket,       \* bags waiting per product (waitTickets of the store)
    receipt,      \* receipts of the shipments
    check         \* shortageChecks of the receipts

vars == <<balance, page, adjusted, inbound, result, shipment, ordered, marked, list, ticket, receipt, check>>
stock == <<balance, page, adjusted, inbound>>
answers == <<result, ordered, marked, list, ticket>>
deliveries == <<receipt, check>>

Grants == [Products -> {0} \cup Quantities]
Total(f) == MapThenSumSet(LAMBDA p : f[p], Products)
Nothing == [p \in Products |-> 0]
AtLeastZero(n) == IF n < 0 THEN 0 ELSE n

Init ==
    /\ balance = [p \in Products |-> [onHand |-> 0, reserved |-> 0, version |-> 0]]
    /\ page = {}
    /\ adjusted = Nothing
    /\ inbound = [i \in Inbounds |-> [status |-> "none", bags |-> Nothing, version |-> 0]]
    /\ result = [r \in Results |-> [status |-> "none", grant |-> Nothing]]
    /\ shipment \in [Results -> {"none", "RESERVED"}]
    /\ ordered = {}
    /\ marked = [r \in Results |-> [status |-> "unset", version |-> 0]]
    /\ list = {}
    /\ ticket = Nothing
    /\ receipt = [r \in Results |-> [status |-> "none", received |-> Nothing]]
    /\ check = [r \in Results |-> [p \in Products |-> "none"]]

Available(p) == balance[p].onHand - balance[p].reserved
Fits(onHand) == \A p \in Products : onHand[p] \in 0 .. MaxStock /\ balance[p].version < MaxVersion
Booked(delta) == [p \in Products |->
    IF delta[p] = 0 THEN balance[p]
    ELSE [balance[p] EXCEPT !.onHand = @ + delta[p], !.version = @ + 1]]

-----------------------------------------------------------------------------
(* Supplier receipts. *)

ReceiveSupplier(i, bags) ==
    /\ inbound[i].status = "none"
    /\ Total(bags) > 0
    /\ Fits([p \in Products |-> balance[p].onHand + bags[p]])
    /\ inbound' = [inbound EXCEPT ![i] = [status |-> "COST_PENDING", bags |-> bags, version |-> 0]]
    /\ balance' = Booked(bags)
    /\ UNCHANGED <<page, adjusted, shipment, answers, deliveries>>

ConfirmCosts(i, version) ==
    /\ inbound[i].status = "COST_PENDING" /\ inbound[i].version = version
    /\ inbound' = [inbound EXCEPT ![i].status = "COST_CONFIRMED", ![i].version = @ + 1]
    /\ UNCHANGED <<balance, page, adjusted, shipment, answers, deliveries>>

\* What is held for results never leaves with a correction.
MayLeave(p, q) == balance[p].onHand - q >= balance[p].reserved

CancelSupplier(i, version) ==
    /\ inbound[i].status = "COST_PENDING" /\ inbound[i].version = version
    /\ \A p \in Products : inbound[i].bags[p] > 0 => MayLeave(p, inbound[i].bags[p])
    /\ \A p \in Products : balance[p].version < MaxVersion
    /\ inbound' = [inbound EXCEPT ![i].status = "CANCELLED", ![i].version = @ + 1]
    /\ balance' = Booked([p \in Products |-> -inbound[i].bags[p]])
    /\ UNCHANGED <<page, adjusted, shipment, answers, deliveries>>

-----------------------------------------------------------------------------
(* Adjustments, from the balance the form shows. *)

OpenForm(p) ==
    /\ page' = {[product |-> p, seen |-> balance[p]]}
    /\ UNCHANGED <<balance, adjusted, inbound, shipment, answers, deliveries>>

StillShown(f) == balance[f.product].version = f.seen.version

Adjust(f, delta) ==
    LET p == f.product IN
    /\ StillShown(f)
    /\ MayLeave(p, -delta)
    /\ balance[p].onHand + delta <= MaxStock /\ balance[p].version < MaxVersion
    /\ balance' = [balance EXCEPT ![p].onHand = @ + delta, ![p].version = @ + 1]
    /\ adjusted' = [adjusted EXCEPT ![p] = @ + delta]
    /\ page' = {}
    /\ UNCHANGED <<inbound, shipment, answers, deliveries>>

-----------------------------------------------------------------------------
(* Results and their answers. *)

\* adjustMemoryReserved, downwards.
Released(b, q) ==
    IF q = 0 THEN b ELSE [b EXCEPT !.reserved = AtLeastZero(@ - q), !.version = @ + 1]

\* publishAllocationDecision; as the run does, it grants what is available.
Publish(r, grant) ==
    /\ result[r].status = "none"
    /\ \A p \in Products : grant[p] <= Available(p) /\ balance[p].version < MaxVersion
    /\ result' = [result EXCEPT ![r] =
                    [status |-> IF Total(grant) > 0 THEN "PENDING" ELSE "NOT_REQUIRED", grant |-> grant]]
    /\ balance' = [p \in Products |->
                    IF grant[p] = 0 THEN balance[p]
                    ELSE [balance[p] EXCEPT !.reserved = @ + grant[p], !.version = @ + 1]]
    /\ UNCHANGED <<page, adjusted, inbound, shipment, ordered, marked, list, ticket, deliveries>>

CanAnswer(r) ==
    /\ result[r].status = "PENDING"
    /\ \A p \in Products : balance[p].version < MaxVersion

\* An accepted line leaves the shelf with its hold.
Issued(b, q) == [Released(b, q) EXCEPT !.onHand = AtLeastZero(@ - q)]

Accept(r) ==
    /\ CanAnswer(r)
    /\ balance' = [p \in Products |-> Issued(balance[p], result[r].grant[p])]
    /\ ordered' = ordered \cup {r}
    /\ shipment' = [shipment EXCEPT ![r] = IF @ = "RESERVED" THEN "DISPATCHED" ELSE @]
    /\ result' = [result EXCEPT ![r].status = "ACCEPTED"]
    /\ UNCHANGED <<page, adjusted, inbound, marked, list, ticket, deliveries>>

\* requeueMemoryDemand: the open ticket of the product grows, or one is opened.
Requeued(grant) == [p \in Products |-> ticket[p] + grant[p]]

Waitlist(r) ==
    /\ CanAnswer(r)
    /\ balance' = [p \in Products |-> Released(balance[p], result[r].grant[p])]
    /\ ticket' = Requeued(result[r].grant)
    /\ shipment' = [shipment EXCEPT ![r] = IF @ = "RESERVED" THEN "CANCELLED" ELSE @]
    /\ result' = [result EXCEPT ![r].status = "WAITLISTED"]
    /\ UNCHANGED <<page, adjusted, inbound, ordered, marked, list, deliveries>>

\* The status a list shows for a result.
ShownMark(r) == IF marked[r].status # "unset" THEN marked[r].status
                ELSE IF r \in ordered THEN "ORDERED" ELSE "NOT_ORDERED"

OpenList(r) ==
    /\ result[r].status # "none"
    /\ list' = {[result |-> r, version |-> marked[r].version, shown |-> ShownMark(r)]}
    /\ UNCHANGED <<stock, result, shipment, ordered, marked, ticket, deliveries>>

AsListed(l) == marked[l.result].version = l.version /\ ShownMark(l.result) = l.shown

\* updateReshareOrderStatus, from the status and version of the list.
Mark(l, status) ==
    /\ result[l.result].status \in {"PENDING", "ACCEPTED"}
    /\ AsListed(l)
    /\ status # ShownMark(l.result)
    /\ l.version < MaxMarks
    /\ marked' = [marked EXCEPT ![l.result] = [status |-> status, version |-> l.version + 1]]
    /\ UNCHANGED <<stock, result, shipment, ordered, list, ticket, deliveries>>

MayDispatch(r) == shipment[r] = "RESERVED" /\ result[r].status # "PENDING"

Dispatch(r) ==
    /\ MayDispatch(r)
    /\ result[r].status # "none"   \* the run comes first
    /\ shipment' = [shipment EXCEPT ![r] = "DISPATCHED"]
    /\ UNCHANGED <<stock, answers, deliveries>>

-----------------------------------------------------------------------------
(* Store receipts. *)

\* Any shipment of the store without a receipt can be declared.
Declare(r, received) ==
    /\ shipment[r] # "none"
    /\ result[r].status # "none"
    /\ receipt[r].status = "none"
    /\ \A p \in Products : received[p] <= result[r].grant[p]
    /\ receipt' = [receipt EXCEPT ![r] = [status |-> "DRAFT", received |-> received]]
    /\ UNCHANGED <<stock, shipment, answers, check>>

SubmitReceipt(r, received) ==
    /\ receipt[r].status \in {"DRAFT", "RETURNED"}
    /\ \A p \in Products : received[p] <= result[r].grant[p]
    /\ receipt' = [receipt EXCEPT ![r] = [status |-> "PENDING_HTKD", received |-> received]]
    /\ UNCHANGED <<stock, shipment, answers, check>>

ReturnReceipt(r) ==
    /\ receipt[r].status = "PENDING_HTKD"
    /\ receipt' = [receipt EXCEPT ![r].status = "RETURNED"]
    /\ UNCHANGED <<stock, shipment, answers, check>>

Missing(r, p) == result[r].grant[p] - receipt[r].received[p]

Finalize(r) ==
    /\ receipt[r].status = "PENDING_HTKD"
    /\ receipt' = [receipt EXCEPT ![r].status = "FINALIZED"]
    /\ check' = [check EXCEPT ![r] = [p \in Products |-> IF Missing(r, p) > 0 THEN "PENDING" ELSE "none"]]
    /\ UNCHANGED <<stock, shipment, answers>>

\* resolveWarehouseShortageCheck: a loss is taken from the balance, its version stays.
Resolve(r, p, verdict) ==
    /\ check[r][p] = "PENDING"
    /\ check' = [check EXCEPT ![r][p] = verdict]
    /\ balance' = IF verdict = "LOST"
                  THEN [balance EXCEPT ![p].onHand = AtLeastZero(@ - Missing(r, p))]
                  ELSE balance
    /\ UNCHANGED <<page, adjusted, inbound, shipment, answers, receipt>>

Next ==
    \/ \E i \in Inbounds :
          \/ \E bags \in Grants : ReceiveSupplier(i, bags)
          \/ \E v \in 0 .. 1 : ConfirmCosts(i, v) \/ CancelSupplier(i, v)
    \/ \E p \in Products : OpenForm(p)
    \/ \E l \in list, s \in {"ORDERED", "NOT_ORDERED"} : Mark(l, s)
    \/ \E f \in page, q \in Quantities : Adjust(f, q) \/ Adjust(f, -q)
    \/ \E r \in Results :
          \/ \E g \in Grants : Publish(r, g) \/ Declare(r, g) \/ SubmitReceipt(r, g)
          \/ Accept(r) \/ Waitlist(r) \/ Dispatch(r) \/ ReturnReceipt(r) \/ Finalize(r)
          \/ OpenList(r)
          \/ \E p \in Products, verdict \in Verdicts : Resolve(r, p, verdict)

Spec == Init /\ [][Next]_vars

-----------------------------------------------------------------------------
(* Properties. *)

\* Every row has its shape, within the bounds.
TypeOK ==
    /\ balance \in [Products -> [onHand : 0 .. MaxStock, reserved : 0 .. MaxStock, version : 0 .. MaxVersion]]
    /\ result \in [Results -> [status : {"none", "NOT_REQUIRED", "PENDING", "ACCEPTED", "WAITLISTED"}, grant : Grants]]
    /\ shipment \in [Results -> {"none", "RESERVED", "DISPATCHED", "CANCELLED"}]
    /\ receipt \in [Results -> [status : {"none", "DRAFT", "PENDING_HTKD", "RETURNED", "FINALIZED"}, received : Grants]]

GrantedIn(statuses, p) ==
    MapThenSumSet(LAMBDA r : result[r].grant[p], {r \in Results : result[r].status \in statuses})

\* What is reserved is what the unanswered results grant, and it is on hand.
HoldsAreUnanswered ==
    \A p \in Products : balance[p].reserved = GrantedIn({"PENDING"}, p) /\ Available(p) >= 0

\* On-hand is what came in and was kept, plus adjustments, minus what RE orders issued.
OnHandIsBooked ==
    \A p \in Products : balance[p].onHand =
        MapThenSumSet(LAMBDA i : inbound[i].bags[p], {i \in Inbounds : inbound[i].status # "CANCELLED"})
        + adjusted[p] - GrantedIn({"ACCEPTED"}, p)

\* A declined grant is waited for again, bag by bag.
DemandKept == \A p \in Products : ticket[p] = GrantedIn({"WAITLISTED"}, p)

\* No goods travel for a result the store has not accepted, whoever sends them.
TravelsOnceAccepted ==
    \A r \in Results : shipment[r] = "DISPATCHED" => result[r].status \in {"ACCEPTED", "NOT_REQUIRED"}

\* An adjustment changes the numbers its form showed.
AdjustedAsShown ==
    adjusted' # adjusted => \A f \in page : balance[f.product] = f.seen

\* A status change starts from the status of the list: an answer that came in
\* between makes the list stale.
MarkedAsShown ==
    marked' # marked => \A l \in list : ShownMark(l.result) = l.shown
=============================================================================
