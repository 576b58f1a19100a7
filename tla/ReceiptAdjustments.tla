-------------------------- MODULE ReceiptAdjustments --------------------------
(***************************************************************************)
(* Corrections of a finalized receipt: bags that turn out to hold another  *)
(* product are reported by the store, verified and reclassified by the     *)
(* reviewer, and kept or returned; the missing product becomes a right to  *)
(* be served again, and a mispick corrects the warehouse.  Every command   *)
(* on a receipt is one transaction under the receipt's lock, made for the  *)
(* version of the document it finds.                                       *)
(***************************************************************************)
EXTENDS Integers, FiniteSets, FiniteSetsExt

CONSTANTS
    Bags,       \* bags of the receipt, numbered in the order of their locks
    Products,
    Booked,     \* the product and cost each bag was finalized with
    Excess,     \* bags received on top of what was approved
    Docs,       \* adjustment documents
    Legacy,     \* documents verified before verifying also applied them
    Returns,    \* return documents
    Prices,     \* prices per kg a verification may find
    Weights,    \* weights a verification may find
    FreeStock   \* free bags of each product in the warehouse

AdjustmentsAssumption ==
    /\ Bags \subseteq Nat /\ Excess \subseteq Bags /\ Legacy \subseteq Docs
    /\ Booked \in [Bags -> Products]
    /\ Prices \subseteq Nat /\ Weights \subseteq Nat \ {0} /\ FreeStock \in Nat

VARIABLES
    bags,       \* store_inventory_bags of the receipt
    docs,       \* store_receipt_adjustments
    lines,      \* store_receipt_adjustment_lines: the bags of each document
    rights,     \* receipt_shortage_entitlements
    waits,      \* bags those rights added to the store's wait for a product
    stock,      \* warehouse_balances
    checks,     \* lines with a warehouse shortage check
    returns,    \* store_receipt_returns
    applied,    \* adjustments of the receipt applied so far
    ledger      \* weight the store's ledger shows for a bag and product

vars == <<bags, docs, lines, rights, waits, stock, checks, returns, applied, ledger>>

OpenStatuses == {"pending_htkd", "needs_info", "pending_admin"}
Dispositions == {"keep", "return"}
NoDoc == [status |-> "none", cause |-> "other", base |-> 0, delta |-> 0]
NoReturn == [status |-> "none", doc |-> CHOOSE d \in Docs : TRUE, bag |-> 0, product |-> CHOOSE p \in Products : TRUE, cost |-> 0]

\* Who may do what to a document, in which status.
Transitions ==
    [RESUBMIT           |-> {<<"needs_info", "STORE">>},
     CANCEL             |-> {"pending_htkd", "needs_info"} \X {"STORE"},
     VERIFY             |-> {"pending_htkd", "pending_admin"} \X {"HTKD", "ADMIN"},
     REQUEST_INFO       |-> {"pending_htkd", "pending_admin"} \X {"HTKD", "ADMIN"},
     RETURN_TO_VERIFIER |-> {"pending_admin"} \X {"HTKD", "ADMIN"},
     REJECT             |-> {"pending_htkd", "pending_admin"} \X {"HTKD", "ADMIN"}
                                \cup {<<"needs_info", "ADMIN">>},
     APPLY              |-> {<<"pending_admin", "ADMIN">>}]
Roles == {"STORE", "HTKD", "ADMIN"}
May(d, action) == \E role \in Roles : <<docs[d].status, role>> \in Transitions[action]

-----------------------------------------------------------------------------
(* What the corrections of a receipt make of its goods.                    *)

\* Returns that left the store: applied at once, or handed over.
GoneReturns == {r \in Returns : returns[r].status \in {"in_transit", "received", "disputed", "lost"}}

\* The finalized goods, every applied correction, less what was returned.
EffectiveGoods ==
    Cardinality(Bags)
    + MapThenSumSet(LAMBDA d : docs[d].delta, {x \in Docs : docs[x].status = "applied"})
    - MapThenSumSet(LAMBDA r : returns[r].cost, GoneReturns)

\* Bags an open document or a return has set aside.
InOpenDocument(b) ==
    \E d \in Docs : /\ b \in DOMAIN lines[d]
                    /\ docs[d].status \in OpenStatuses \/ lines[d][b].hold = "returning"

\* A bag can be reported while it is whole, unopened and in no document.
Reportable(b) == bags[b].status = "available" /\ ~bags[b].opened /\ ~InOpenDocument(b)

\* The bag is still held for the document and as it was recorded.
StillHeld(d, b) ==
    /\ bags[b].status = "quarantined" /\ ~bags[b].opened
    /\ lines[d][b].hold = "held" /\ lines[d][b].previous = "available"
    /\ bags[b].product = lines[d][b].recorded
    /\ bags[b].cost = lines[d][b].recordedCost

\* A correction changes the product; a bag whose missing product was granted
\* does not become that product again.
PlanLine(b, recorded, actual) ==
    /\ actual # recorded
    /\ ~(b \in rights /\ b \notin Excess /\ actual = Booked[b])

\* The store is owed an approved bag once, when it first turns out not to be.
GrantsRight(b, recorded, actual) ==
    /\ b \notin Excess /\ b \notin rights
    /\ recorded = Booked[b] /\ actual # Booked[b]

-----------------------------------------------------------------------------
Init ==
    /\ docs = [d \in Docs |-> IF d \in Legacy THEN [NoDoc EXCEPT !.status = "pending_admin"] ELSE NoDoc]
    /\ \E held \in [Legacy -> Bags] :
        /\ \A d, e \in Legacy : d # e => held[d] # held[e]
        /\ \E actual \in [Legacy -> Products] :
            /\ \A d \in Legacy : actual[d] # Booked[held[d]]
            /\ lines = [d \in Docs |->
                    IF d \in Legacy
                    THEN [b \in {held[d]} |-> [recorded |-> Booked[held[d]], recordedCost |-> 1, actual |-> actual[d],
                                     disposition |-> "keep", price |-> 1, weight |-> 1,
                                     hold |-> "held", previous |-> "available"]]
                    ELSE <<>>]
        /\ bags = [b \in Bags |->
                [product |-> Booked[b], cost |-> 1, weight |-> 1, opened |-> FALSE,
                 status |-> IF \E d \in Legacy : held[d] = b THEN "quarantined" ELSE "available"]]
    /\ rights = {} /\ waits = [p \in Products |-> 0]
    /\ stock = [p \in Products |-> [onHand |-> FreeStock, reserved |-> 0]]
    /\ checks = {} /\ applied = 0
    /\ returns = [r \in Returns |-> NoReturn]
    /\ ledger = [b \in Bags |-> [p \in Products |-> IF p = Booked[b] THEN 1 ELSE 0]]

\* The store reports bags; they are set aside at once.
Report(d, reported, actual, disposition) ==
    /\ docs[d].status = "none" /\ reported # {}
    /\ \A b \in reported : Reportable(b) /\ PlanLine(b, bags[b].product, actual[b])
    /\ docs' = [docs EXCEPT ![d] = [NoDoc EXCEPT !.status = "pending_htkd", !.base = applied]]
    /\ lines' = [lines EXCEPT ![d] = [b \in reported |->
            [recorded |-> bags[b].product, recordedCost |-> bags[b].cost, actual |-> actual[b],
             disposition |-> disposition[b], price |-> 0, weight |-> 0,
             hold |-> "held", previous |-> bags[b].status]]]
    /\ bags' = [b \in Bags |-> IF b \in reported THEN [bags[b] EXCEPT !.status = "quarantined"] ELSE bags[b]]
    /\ UNCHANGED <<rights, waits, stock, checks, returns, applied, ledger>>

\* The store corrects the report it was asked about, for the same bags.
Resubmit(d, actual, disposition) ==
    /\ May(d, "RESUBMIT")
    /\ \A b \in DOMAIN lines[d] : StillHeld(d, b) /\ PlanLine(b, lines[d][b].recorded, actual[b])
    /\ docs' = [docs EXCEPT ![d] = [NoDoc EXCEPT !.status = "pending_htkd", !.base = docs[d].base]]
    /\ lines' = [lines EXCEPT ![d] = [b \in DOMAIN lines[d] |->
            [lines[d][b] EXCEPT !.actual = actual[b], !.disposition = disposition[b]]]]
    /\ UNCHANGED <<bags, rights, waits, stock, checks, returns, applied, ledger>>

SendBack(d, action) ==
    /\ action \in {"REQUEST_INFO", "RETURN_TO_VERIFIER"} /\ May(d, action)
    /\ docs' = [docs EXCEPT ![d] = [NoDoc EXCEPT !.base = docs[d].base,
            !.status = IF action = "REQUEST_INFO" THEN "needs_info" ELSE "pending_htkd"]]
    /\ UNCHANGED <<bags, lines, rights, waits, stock, checks, returns, applied, ledger>>

\* A cancelled or rejected document frees the bags it holds.
Close(d, action) ==
    /\ action \in {"CANCEL", "REJECT"} /\ May(d, action)
    /\ docs' = [docs EXCEPT ![d].status = IF action = "CANCEL" THEN "cancelled" ELSE "rejected"]
    /\ \A b \in DOMAIN lines[d] : bags[b].status = "quarantined"
    /\ bags' = [b \in Bags |-> IF b \in DOMAIN lines[d]
                               THEN [bags[b] EXCEPT !.status = lines[d][b].previous] ELSE bags[b]]
    /\ lines' = [lines EXCEPT ![d] = [b \in DOMAIN lines[d] |-> [lines[d][b] EXCEPT !.hold = "released"]]]
    /\ UNCHANGED <<rights, waits, stock, checks, returns, applied, ledger>>

-----------------------------------------------------------------------------
\* The cost a verification finds: a returned bag keeps the recorded one.
VerifiedCost(line) ==
    IF line.disposition = "return" THEN line.recordedCost ELSE line.price * line.weight

\* The warehouse sent another product: that bag leaves its stock, and the bag
\* that was not sent is on hand again, reserved until someone finds it.
Mispicked(balances, line) ==
    [balances EXCEPT ![line.actual].onHand = @ - 1,
                     ![line.recorded] = [onHand |-> @.onHand + 1, reserved |-> @.reserved + 1]]

Covered(balances) == \A p \in Products : balances[p].onHand >= balances[p].reserved

\* The warehouse after the lines of a document, bag by bag, and whether every
\* step found free stock.
WarehouseAfter(verified, cause) ==
    LET last == Max(Bags \cup {0})
        after[n \in 0..last] ==
            IF n = 0 THEN [ok |-> TRUE, stock |-> stock]
            ELSE IF n \notin DOMAIN verified THEN after[n - 1]
            ELSE LET line == verified[n]
                     corrected == IF cause = "warehouse_mispick"
                                  THEN Mispicked(after[n - 1].stock, line) ELSE after[n - 1].stock
                 IN  [ok    |-> after[n - 1].ok /\ Covered(corrected),
                      stock |-> IF line.disposition = "keep" THEN corrected
                                ELSE [corrected EXCEPT ![line.actual].onHand = @ + 1]]
    IN  after[last]

FreeReturns == {r \in Returns : returns[r].status = "none"}

\* The old product leaves the bag's ledger and the verified one enters it.
Relabelled(b, line) ==
    [ledger[b] EXCEPT ![line.recorded] = @ - bags[b].weight,
                      ![line.actual] = IF line.disposition = "keep" THEN @ + line.weight ELSE @]

\* The missing bags join the store's wait for their product.
WaitsAfter(granted) == [p \in Products |-> waits[p] + Cardinality({b \in granted : Booked[b] = p})]

ReturnedAtOnce(d, verified, b) ==
    [status |-> "received", doc |-> d, bag |-> b,
     product |-> verified[b].actual, cost |-> VerifiedCost(verified[b])]

\* One transaction reclassifies the bags, grants the missing product, corrects
\* the warehouse, and frees or returns every bag.
Apply(d, verified, cause) ==
    LET touched  == DOMAIN verified
        granted  == {b \in touched : GrantsRight(b, verified[b].recorded, verified[b].actual)}
        sentBack == {b \in touched : verified[b].disposition = "return"}
        warehouse == WarehouseAfter(verified, cause)
    IN  /\ \A b \in touched : StillHeld(d, b) /\ PlanLine(b, verified[b].recorded, verified[b].actual)
        /\ warehouse.ok
        /\ stock' = warehouse.stock
        /\ checks' = IF cause = "warehouse_mispick" THEN checks \cup {<<d, b>> : b \in touched} ELSE checks
        /\ docs' = [docs EXCEPT ![d] =
                [status |-> "applied", cause |-> cause, base |-> applied,
                 delta |-> MapThenSumSet(LAMBDA b : VerifiedCost(verified[b]) - verified[b].recordedCost, touched)]]
        /\ applied' = applied + 1
        /\ lines' = [lines EXCEPT ![d] = [b \in touched |-> [verified[b] EXCEPT !.hold = "released"]]]
        /\ bags' = [b \in Bags |->
                IF b \notin touched THEN bags[b]
                ELSE [product |-> verified[b].actual, cost |-> VerifiedCost(verified[b]), opened |-> FALSE,
                      weight |-> IF b \in sentBack THEN 0 ELSE verified[b].weight,
                      status |-> IF b \in sentBack THEN "returned" ELSE verified[b].previous]]
        /\ ledger' = [b \in Bags |-> IF b \in touched THEN Relabelled(b, verified[b]) ELSE ledger[b]]
        /\ rights' = rights \cup granted
        /\ waits' = WaitsAfter(granted)
        /\ \E slots \in [sentBack -> FreeReturns] :
            /\ \A b, c \in sentBack : b # c => slots[b] # slots[c]
            /\ returns' = [r \in Returns |-> IF r \in {slots[b] : b \in sentBack}
                                            THEN ReturnedAtOnce(d, verified, CHOOSE b \in sentBack : slots[b] = r)
                                            ELSE returns[r]]

\* The reviewer enters what each bag holds, weighs and costs, and applies it.
Verify(d, actual, price, weight, cause) ==
    /\ May(d, "VERIFY")
    /\ Apply(d, [b \in DOMAIN lines[d] |->
            [lines[d][b] EXCEPT !.actual = actual[b], !.weight = weight[b], !.price = price[b]]], cause)

\* An administrator applies a document verified earlier, as it was verified,
\* unless another correction of the receipt was applied since.
ApplyLegacy(d) ==
    /\ May(d, "APPLY")
    /\ docs[d].base = applied
    /\ Apply(d, lines[d], docs[d].cause)

-----------------------------------------------------------------------------
\* The store sends back a bag it had kept.
CreateReturn(r, d, b) ==
    /\ docs[d].status = "applied" /\ b \in DOMAIN lines[d] /\ lines[d][b].hold = "released"
    /\ returns[r].status = "none"
    /\ \A q \in Returns : returns[q].status \in {"none", "cancelled"} \/ <<returns[q].doc, returns[q].bag>> # <<d, b>>
    /\ bags[b].status \in {"available", "opened"} /\ bags[b].product = lines[d][b].actual
    /\ returns' = [returns EXCEPT ![r] =
            [status |-> "pending_handover", doc |-> d, bag |-> b, product |-> bags[b].product, cost |-> bags[b].cost]]
    /\ lines' = [lines EXCEPT ![d][b].hold = "returning", ![d][b].previous = bags[b].status]
    /\ bags' = [bags EXCEPT ![b].status = "quarantined"]
    /\ UNCHANGED <<docs, rights, waits, stock, checks, applied, ledger>>

\* The bag leaves the store.
HandOver(r) ==
    LET b == returns[r].bag
    IN  /\ returns[r].status = "pending_handover" /\ bags[b].status = "quarantined"
        /\ returns' = [returns EXCEPT ![r].status = "in_transit"]
        /\ bags' = [bags EXCEPT ![b].status = "returned", ![b].weight = 0]
        /\ ledger' = [ledger EXCEPT ![b][bags[b].product] = @ - bags[b].weight]
        /\ UNCHANGED <<docs, lines, rights, waits, stock, checks, applied>>

\* The warehouse receives the bag, or disputes it and settles the dispute.
Receive(r, next) ==
    /\ \/ returns[r].status = "in_transit" /\ next \in {"received", "disputed"}
       \/ returns[r].status = "disputed" /\ next \in {"received", "lost"}
    /\ returns' = [returns EXCEPT ![r].status = next]
    /\ stock' = IF next = "received" THEN [stock EXCEPT ![returns[r].product].onHand = @ + 1] ELSE stock
    /\ UNCHANGED <<bags, docs, lines, rights, waits, checks, applied, ledger>>

CancelReturn(r) ==
    LET b == returns[r].bag
        d == returns[r].doc
    IN  /\ returns[r].status = "pending_handover"
        /\ lines[d][b].hold = "returning" /\ bags[b].status = "quarantined"
        /\ returns' = [returns EXCEPT ![r].status = "cancelled"]
        /\ bags' = [bags EXCEPT ![b].status = lines[d][b].previous]
        /\ lines' = [lines EXCEPT ![d][b].hold = "released"]
        /\ UNCHANGED <<docs, rights, waits, stock, checks, applied, ledger>>

\* The store opens a bag for sale.
OpenBag(b) ==
    /\ bags[b].status = "available"
    /\ bags' = [bags EXCEPT ![b].status = "opened", ![b].opened = TRUE]
    /\ UNCHANGED <<docs, lines, rights, waits, stock, checks, returns, applied, ledger>>

Next ==
    \/ \E d \in Docs, reported \in SUBSET Bags : \E a \in [reported -> Products], k \in [reported -> Dispositions] :
            Report(d, reported, a, k)
    \/ \E d \in Docs : \E a \in [DOMAIN lines[d] -> Products], k \in [DOMAIN lines[d] -> Dispositions] :
            Resubmit(d, a, k)
    \/ \E d \in Docs, action \in DOMAIN Transitions : SendBack(d, action) \/ Close(d, action)
    \/ \E d \in Docs, cause \in {"warehouse_mispick", "other"} :
            \E a \in [DOMAIN lines[d] -> Products], p \in [DOMAIN lines[d] -> Prices], w \in [DOMAIN lines[d] -> Weights] :
                Verify(d, a, p, w, cause)
    \/ \E d \in Docs : ApplyLegacy(d)
    \/ \E r \in Returns, d \in Docs, b \in Bags : CreateReturn(r, d, b)
    \/ \E r \in Returns : HandOver(r) \/ CancelReturn(r)
    \/ \E r \in Returns, next \in {"received", "disputed", "lost"} : Receive(r, next)
    \/ \E b \in Bags : OpenBag(b)

Spec == Init /\ [][Next]_vars

-----------------------------------------------------------------------------
InStore == {b \in Bags : bags[b].status # "returned"}

\* Documents and bags keep their types; the warehouse never promises more
\* than it has.
TypeOK ==
    /\ \A b \in Bags : bags[b].status \in {"available", "opened", "quarantined", "returned"} /\ bags[b].weight \in Nat
    /\ \A d \in Docs : docs[d].status \in OpenStatuses \cup {"none", "applied", "rejected", "cancelled"}
                        /\ DOMAIN lines[d] \subseteq Bags
    /\ \A p \in Products : stock[p].reserved \in 0..stock[p].onHand
    /\ rights \subseteq Bags \ Excess

\* However many corrections and returns overlap, the effective cost of the
\* receipt is the cost of the bags the store still has
\* (receiptAdjustmentMoneySummary, apply).
GoodsAreBags == EffectiveGoods = MapThenSumSet(LAMBDA b : bags[b].cost, InStore)

\* A store is owed each approved bag that is another product, exactly once
\* (planReceiptAdjustmentLine, grantShortageEntitlement).
RightOncePerBag ==
    /\ \A b \in Bags \ Excess : b \in rights <=> bags[b].product # Booked[b]
    /\ \A p \in Products : waits[p] = Cardinality({b \in Bags \ Excess : Booked[b] = p /\ bags[b].product # p})

\* A bag set aside is set aside by exactly one document or return, which can
\* still free it; no other bag is (setBagHold, assertBagNotInOpenDocument).
HeldByOne ==
    \A b \in Bags :
        LET reports == {d \in Docs : docs[d].status \in OpenStatuses /\ b \in DOMAIN lines[d]}
            leaving == {r \in Returns : returns[r].status = "pending_handover" /\ returns[r].bag = b}
        IN  Cardinality(reports) + Cardinality(leaving) = IF bags[b].status = "quarantined" THEN 1 ELSE 0

\* The ledger of a bag shows its weight under its own product and nothing
\* under another (apply, HANDOVER of transitionReceiptReturn).
LedgerIsBags ==
    \A b \in Bags, p \in Products : ledger[b][p] = IF p = bags[b].product THEN bags[b].weight ELSE 0

\* Every bag is in the store, on its way back, in the warehouse or given up,
\* and what a mispick put back is reserved until it is found
\* (correctWarehouseMispick, bookReturnIntoWarehouse).
BagsAccounted ==
    /\ MapThenSumSet(LAMBDA p : stock[p].onHand, Products) + Cardinality(InStore)
        + Cardinality({r \in Returns : returns[r].status \in {"in_transit", "disputed", "lost"}})
            = FreeStock * Cardinality(Products) + Cardinality(Bags)
    /\ \A p \in Products : stock[p].reserved = Cardinality({c \in checks : lines[c[1]][c[2]].recorded = p})

=============================================================================
