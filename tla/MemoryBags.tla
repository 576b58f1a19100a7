------------------------------ MODULE MemoryBags -----------------------------
(***************************************************************************)
(* The bags of one product in the stores as the in-memory repository keeps *)
(* them: goods of a partner come in, bags are opened, goods are sorted out *)
(* of them, written off after a review, and sent to another store with the *)
(* share of the cost that goes with them.  A ledger tells every change of  *)
(* a bag's weight.  Every command runs alone and asks for the version of   *)
(* the row its caller saw.                                                 *)
(***************************************************************************)
EXTENDS Integers, Sequences, FiniteSets, SequencesExt, QuantitySums

CONSTANTS
    Stores,
    Seeded,     \* bags of the seed: their store, weight and cost
    Partner,    \* bags a partner may bring: their store and weight
    Transfers,  \* transfers between stores, which also name the bag they become
    Outbounds   \* requests to write goods off

Bags == DOMAIN Seeded \cup DOMAIN Partner \cup Transfers

MemoryBagsAssumption ==
    /\ Bags \subseteq Nat /\ Outbounds \subseteq Nat
    /\ DOMAIN Seeded \cap (DOMAIN Partner \cup Transfers) = {}
    /\ DOMAIN Partner \cap Transfers = {}

VARIABLES
    stores,             \* the stores that are active
    inventoryBags,
    inventoryBagCosts,  \* VND, beside the bags
    inventoryLedger,    \* by bag, oldest first
    bagOpenings,        \* the weight a bag had when it was opened with the button
    sortedOut,          \* weight sorted out of each bag
    storeOutbounds,
    storeTransfers

vars == <<stores, inventoryBags, inventoryBagCosts, inventoryLedger, bagOpenings,
          sortedOut, storeOutbounds, storeTransfers>>

AnyStore == CHOOSE s \in Stores : TRUE
NoBag == [store |-> AnyStore, status |-> "none", received |-> 0, remaining |-> 0]
NewBag(s, w) == [store |-> s, status |-> "AVAILABLE", received |-> w, remaining |-> w]
NoOutbound == [status |-> "none", bag |-> 0, weight |-> 0]
NoTransfer == [status |-> "none", bag |-> 0, to |-> AnyStore, weight |-> 0, cost |-> 0]

Entry(operation, before, after) == [operation |-> operation, before |-> before, after |-> after]

Usable(b) == inventoryBags[b].status \in {"AVAILABLE", "OPEN"}
\* A bag of an active store, which its account works on.
Here(b) == inventoryBags[b].store \in stores /\ Usable(b)

\* Weight w leaves bag b, which counts as open from now on.
Drawn(b, w) ==
    inventoryBags' = [inventoryBags EXCEPT ![b].remaining = @ - w,
                                           ![b].status = IF inventoryBags[b].remaining = w THEN "EMPTY" ELSE "OPEN"]

Booked(b, operation, w) ==
    inventoryLedger' = [inventoryLedger EXCEPT ![b] =
        Append(@, Entry(operation, inventoryBags[b].remaining, inventoryBags[b].remaining - w))]

\* A new bag with its cost and the first entry of its ledger.
Added(b, s, w, cost) ==
    /\ inventoryBags' = [inventoryBags EXCEPT ![b] = NewBag(s, w)]
    /\ inventoryBagCosts' = [inventoryBagCosts EXCEPT ![b] = cost]
    /\ inventoryLedger' = [inventoryLedger EXCEPT ![b] = <<Entry("RECEIVE", 0, w)>>]

\* Goods of a partner cost nothing here.
CreateStorePartnerInbound(b) ==
    /\ inventoryBags[b].status = "none" /\ Partner[b].store \in stores
    /\ Added(b, Partner[b].store, Partner[b].weight, 0)
    /\ UNCHANGED <<stores, bagOpenings, sortedOut, storeOutbounds, storeTransfers>>

Openable(b) == Here(b) /\ inventoryBags[b].status = "AVAILABLE"

OpenStoreInventoryBag(b) ==
    /\ Openable(b)
    /\ inventoryBags' = [inventoryBags EXCEPT ![b].status = "OPEN"]
    /\ bagOpenings' = [bagOpenings EXCEPT ![b] = Append(@, inventoryBags[b].remaining)]
    /\ UNCHANGED <<stores, inventoryBagCosts, inventoryLedger, sortedOut, storeOutbounds, storeTransfers>>

\* Goods are sorted out of the bag (the sorted stock is MemorySorting's).
CreateStoreSorting(b, w) ==
    /\ Here(b) /\ w <= inventoryBags[b].remaining
    /\ Drawn(b, w) /\ Booked(b, "ADJUST", w)
    /\ sortedOut' = [sortedOut EXCEPT ![b] = @ + w]
    /\ UNCHANGED <<stores, inventoryBagCosts, bagOpenings, storeOutbounds, storeTransfers>>

-----------------------------------------------------------------------------
(* Goods written off.  A request holds nothing; its review looks again.    *)

CreateStoreOutbound(o, b, w) ==
    /\ storeOutbounds[o].status = "none"
    /\ Here(b) /\ w <= inventoryBags[b].remaining
    /\ storeOutbounds' = [storeOutbounds EXCEPT ![o] = [status |-> "PENDING", bag |-> b, weight |-> w]]
    /\ UNCHANGED <<stores, inventoryBags, inventoryBagCosts, inventoryLedger, bagOpenings, sortedOut, storeTransfers>>

Approvable(o) ==
    LET b == storeOutbounds[o].bag
    IN Usable(b) /\ storeOutbounds[o].weight <= inventoryBags[b].remaining

ReviewStoreOutbound(o, decision) ==
    /\ storeOutbounds[o].status = "PENDING"
    /\ storeOutbounds' = [storeOutbounds EXCEPT ![o].status = decision]
    /\ \/ /\ decision = "APPROVED" /\ Approvable(o)
          /\ Drawn(storeOutbounds[o].bag, storeOutbounds[o].weight)
          /\ Booked(storeOutbounds[o].bag, "CONSUME", storeOutbounds[o].weight)
       \/ decision = "REJECTED" /\ UNCHANGED <<inventoryBags, inventoryLedger>>
    /\ UNCHANGED <<stores, inventoryBagCosts, bagOpenings, sortedOut, storeTransfers>>

-----------------------------------------------------------------------------
(* Transfers of a part of a bag to another store.                          *)

CreateStoreTransfer(t, b, to, w) ==
    /\ storeTransfers[t].status = "none"
    /\ Here(b) /\ to \in stores \ {inventoryBags[b].store}
    /\ w <= inventoryBags[b].remaining
    /\ storeTransfers' = [storeTransfers EXCEPT ![t] =
                            [status |-> "DRAFT", bag |-> b, to |-> to, weight |-> w, cost |-> 0]]
    /\ UNCHANGED <<stores, inventoryBags, inventoryBagCosts, inventoryLedger, bagOpenings, sortedOut, storeOutbounds>>

\* The share of the cost that moves, in whole VND; the bag keeps the rest.
AllocateTransferCost(b, w) == (inventoryBagCosts[b] * w) \div inventoryBags[b].remaining

DispatchStoreTransfer(t) ==
    LET b == storeTransfers[t].bag
        w == storeTransfers[t].weight
    IN /\ storeTransfers[t].status = "DRAFT"
       /\ Here(b) /\ w <= inventoryBags[b].remaining
       /\ Drawn(b, w) /\ Booked(b, "CONSUME", w)
       /\ inventoryBagCosts' = [inventoryBagCosts EXCEPT ![b] = @ - AllocateTransferCost(b, w)]
       /\ storeTransfers' = [storeTransfers EXCEPT ![t].status = "IN_TRANSIT",
                                                   ![t].cost = AllocateTransferCost(b, w)]
       /\ UNCHANGED <<stores, bagOpenings, sortedOut, storeOutbounds>>

Receivable(t) == storeTransfers[t].status = "IN_TRANSIT"

ReceiveStoreTransfer(t) ==
    /\ Receivable(t) /\ storeTransfers[t].to \in stores
    /\ Added(t, storeTransfers[t].to, storeTransfers[t].weight, storeTransfers[t].cost)
    /\ storeTransfers' = [storeTransfers EXCEPT ![t].status = "RECEIVED"]
    /\ UNCHANGED <<stores, bagOpenings, sortedOut, storeOutbounds>>

CancelStoreTransfer(t) ==
    /\ storeTransfers[t].status = "DRAFT"
    /\ inventoryBags[storeTransfers[t].bag].store \in stores
    /\ storeTransfers' = [storeTransfers EXCEPT ![t].status = "CANCELLED"]
    /\ UNCHANGED <<stores, inventoryBags, inventoryBagCosts, inventoryLedger, bagOpenings, sortedOut, storeOutbounds>>

\* An administrator closes a store or opens it again; requests, waits,
\* receipts and transfers of Sale stock, which are not here, may refuse it.
UpdateStore(s) ==
    /\ stores' = IF s \in stores THEN stores \ {s} ELSE stores \cup {s}
    /\ UNCHANGED <<inventoryBags, inventoryBagCosts, inventoryLedger, bagOpenings, sortedOut, storeOutbounds, storeTransfers>>

-----------------------------------------------------------------------------
Init ==
    /\ stores = Stores
    /\ inventoryBags = [b \in Bags |-> IF b \in DOMAIN Seeded THEN NewBag(Seeded[b].store, Seeded[b].weight) ELSE NoBag]
    /\ inventoryBagCosts = [b \in Bags |-> IF b \in DOMAIN Seeded THEN Seeded[b].cost ELSE 0]
    /\ inventoryLedger = [b \in Bags |-> IF b \in DOMAIN Seeded THEN <<Entry("RECEIVE", 0, Seeded[b].weight)>> ELSE <<>>]
    /\ bagOpenings = [b \in Bags |-> <<>>]
    /\ sortedOut = [b \in Bags |-> 0]
    /\ storeOutbounds = [o \in Outbounds |-> NoOutbound]
    /\ storeTransfers = [t \in Transfers |-> NoTransfer]

Next ==
    \/ \E b \in DOMAIN Partner : CreateStorePartnerInbound(b)
    \/ \E b \in Bags :
        \/ OpenStoreInventoryBag(b)
        \/ \E w \in 1 .. inventoryBags[b].remaining :
            \/ CreateStoreSorting(b, w)
            \/ \E o \in Outbounds : CreateStoreOutbound(o, b, w)
            \/ \E t \in Transfers, to \in Stores : CreateStoreTransfer(t, b, to, w)
    \/ \E o \in Outbounds, decision \in {"APPROVED", "REJECTED"} : ReviewStoreOutbound(o, decision)
    \/ \E t \in Transfers : DispatchStoreTransfer(t) \/ ReceiveStoreTransfer(t) \/ CancelStoreTransfer(t)
    \/ \E s \in Stores : UpdateStore(s)

Spec == Init /\ [][Next]_vars

-----------------------------------------------------------------------------
TypeOK ==
    /\ stores \subseteq Stores
    /\ inventoryBags \in [Bags -> [store : Stores, status : {"none", "AVAILABLE", "OPEN", "EMPTY"},
                                   received : Nat, remaining : Nat]]
    /\ inventoryBagCosts \in [Bags -> Nat]
    /\ \A b \in Bags : Len(bagOpenings[b]) <= 1
    /\ storeOutbounds \in [Outbounds -> [status : {"none", "PENDING", "APPROVED", "REJECTED"},
                                         bag : Bags \cup {0}, weight : Nat]]
    /\ storeTransfers \in [Transfers -> [status : {"none", "DRAFT", "IN_TRANSIT", "RECEIVED", "CANCELLED"},
                                         bag : Bags \cup {0}, to : Stores, weight : Nat, cost : Nat]]

WrittenOff(b) == SumOf([o \in {x \in Outbounds : storeOutbounds[x].status = "APPROVED"
                                                 /\ storeOutbounds[x].bag = b} |-> storeOutbounds[o].weight])
SentFrom(b) == {t \in Transfers : storeTransfers[t].bag = b /\ storeTransfers[t].status \in {"IN_TRANSIT", "RECEIVED"}}

\* What a bag lost went to the floor, was written off by a review, or left
\* with a transfer: each once, whatever else was asked of the bag meanwhile.
WeightAccounted ==
    \A b \in Bags :
        inventoryBags[b].received =
            inventoryBags[b].remaining + sortedOut[b] + WrittenOff(b)
            + SumOf([t \in SentFrom(b) |-> storeTransfers[t].weight])

\* The cost of the seed is on the bags and on the transfers under way.
CostConserved ==
    SumOf([b \in DOMAIN Seeded |-> Seeded[b].cost]) =
        SumOf(inventoryBagCosts)
        + SumOf([t \in {x \in Transfers : storeTransfers[x].status = "IN_TRANSIT"} |-> storeTransfers[t].cost])

\* A bag keeps its cost until its goods are sent away; one that was sent away
\* to the last gram keeps none.
CostFollowsGoods ==
    \A b \in Bags :
        /\ SentFrom(b) = {} /\ b \in DOMAIN Seeded => inventoryBagCosts[b] = Seeded[b].cost
        /\ SumOf([t \in SentFrom(b) |-> storeTransfers[t].weight]) = inventoryBags[b].received
            /\ inventoryBags[b].received > 0 => inventoryBagCosts[b] = 0

\* The ledger of a bag starts at nothing, has no gap and ends at what is left.
LedgerChains ==
    \A b \in Bags :
        LET ledger == inventoryLedger[b]
        IN inventoryBags[b].status # "none" =>
            /\ ledger[1].before = 0
            /\ \A n \in 2 .. Len(ledger) : ledger[n].before = ledger[n - 1].after
            /\ ledger[Len(ledger)].after = inventoryBags[b].remaining

\* A sealed bag is whole, and the button only ever opened whole bags.
SealedIsWhole ==
    \A b \in Bags :
        /\ inventoryBags[b].status = "AVAILABLE" => inventoryBags[b].remaining = inventoryBags[b].received
        /\ \A n \in DOMAIN bagOpenings[b] : bagOpenings[b][n] = inventoryBags[b].received
=============================================================================
