------------------------------ MODULE StoreBags ------------------------------
(***************************************************************************)
(* The bags of one product in the stores, by weight.  A store opens bags,  *)
(* sorts goods out of them, asks for goods to be written off, and sends    *)
(* goods to another store; the synchronisation with the till takes what    *)
(* was sold at the regular price out of the bags the store has opened, and *)
(* puts it back when the till corrects itself.  Every command is one       *)
(* transaction that holds the bag's row and refuses a bag that is no       *)
(* longer as its caller saw it.                                            *)
(***************************************************************************)
EXTENDS Integers, Sequences, FiniteSets, SequencesExt, QuantitySums

CONSTANTS
    Stores,
    Delivered,  \* bags delivered from the warehouse: their store, weight and cost
    Partner,    \* bags a partner may bring: their store and weight
    Transfers,  \* transfers between stores, which also name the bag they become
    Outbounds,  \* requests to write goods off
    LastMonth,  \* months are numbered from 1
    MaxSold     \* bound: grams the till may report for one month

Months == 1 .. LastMonth
Bags == DOMAIN Delivered \cup DOMAIN Partner \cup Transfers

BagsAssumption ==
    /\ Bags \subseteq Nat /\ Outbounds \subseteq Nat
    /\ LastMonth \in Nat \ {0} /\ MaxSold \in Nat

VARIABLES
    bags,       \* store_inventory_bags
    opened,     \* the bags with an opening time, earliest first
    touched,    \* the bags that exist, least recently updated first
    transfers,  \* store_transfers
    outbounds,  \* store_outbounds
    sorted,     \* weight sorted out of each bag (store_sorting_events)
    progress,   \* store_normal_sale_progress, by store and month
    month       \* the current month

vars == <<bags, opened, touched, transfers, outbounds, sorted, progress, month>>

NoBag == [store |-> CHOOSE s \in Stores : TRUE, status |-> "none",
          initial |-> 0, current |-> 0, cost |-> 0, consumed |-> 0]
NewBag(s, w, c) == [store |-> s, status |-> "available",
                    initial |-> w, current |-> w, cost |-> c, consumed |-> 0]
NoTransfer == [status |-> "none", bag |-> 0, to |-> CHOOSE s \in Stores : TRUE, weight |-> 0, cost |-> 0]
NoOutbound == [status |-> "none", bag |-> 0, weight |-> 0]
NotTracked == [tracked |-> FALSE, baseline |-> 0, observed |-> 0, applied |-> 0]

Usable(b) == bags[b].status \in {"available", "opened"}

\* Mutant of Drawn: what is left in the bag is forgotten.
DrawnWhole(bs, b, w) == [bs EXCEPT ![b].current = 0, ![b].status = "depleted"]

\* Weight w leaves bag b, which counts as opened from now on.
Drawn(bs, b, w) ==
    [bs EXCEPT ![b].current = @ - w,
               ![b].status = IF bs[b].current = w THEN "depleted" ELSE "opened"]

Opening(order, b) == IF b \in ToSet(order) THEN order ELSE Append(order, b)

\* Bags written in one transaction carry the same time; ties go by identifier.
Touch(order, written) ==
    SelectSeq(order, LAMBDA b : b \notin written) \o SetToSortSeq(written, <)

-----------------------------------------------------------------------------
(* Settling what the till reports against the opened bags.                 *)

Target(record) == Greater(record.observed - record.baseline, 0)

\* One bag gives weight to the till (w > 0) or gets it back (w < 0).
MoveBag(st, b, w) ==
    IF w = 0 THEN st
    ELSE [st EXCEPT !.bags[b].current = @ - w,
                    !.bags[b].consumed = @ + w,
                    !.bags[b].status = IF st.bags[b].current = w THEN "depleted" ELSE "opened",
                    !.opened = Opening(@, b),
                    !.written = @ \cup {b}]
MoveBags(st, order, amounts, sign) ==
    FoldLeft(LAMBDA acc, i : MoveBag(acc, order[i], sign * amounts[i]), st, [i \in DOMAIN order |-> i])

\* Only opened bags with goods left, the one opened first before the others.
ConsumeFrom(st, s) ==
    SelectSeq(st.opened, LAMBDA b : /\ st.bags[b].store = s
                                    /\ st.bags[b].status = "opened" /\ st.bags[b].current > 0)

ConsumeBags(st, s, m, wanted) ==
    LET order == ConsumeFrom(st, s)
        amounts == DrawInOrder(order, [b \in Bags |-> st.bags[b].current], wanted)
    IN [MoveBags(st, order, amounts, 1) EXCEPT !.progress[m].applied = @ + SumOf(amounts)]

\* The bags that lost weight to the till, the last written first.
RestoreTo(st, s) ==
    SelectSeq(Reverse(Touch(touched, st.written)),
              LAMBDA b : st.bags[b].store = s /\ st.bags[b].consumed > 0)

RestoreBags(st, s, m, wanted) ==
    LET order == RestoreTo(st, s)
        amounts == DrawInOrder(order, [b \in Bags |-> st.bags[b].consumed], wanted)
    IN [MoveBags(st, order, amounts, -1) EXCEPT !.progress[m].applied = @ - SumOf(amounts)]

SettleMonth(st, s, m) ==
    LET record == st.progress[m]
    IN IF record.applied > Target(record)
       THEN RestoreBags(st, s, m, record.applied - Target(record))
       ELSE ConsumeBags(st, s, m, Target(record) - record.applied)

\* Every month of the store, earliest first.
Settle(st, s) == FoldLeft(LAMBDA acc, m : SettleMonth(acc, s, m), st, [m \in Months |-> m])

Commit(st, s) ==
    /\ bags' = st.bags /\ opened' = st.opened
    /\ touched' = Touch(touched, st.written)
    /\ progress' = [progress EXCEPT ![s] = st.progress]

\* The months a store keeps a checkpoint of.
Tracked(s) == {m \in Months : progress[s][m].tracked}

\* A store is followed from the month it is first seen on; the first figure
\* of that month is the baseline, later months start from nothing.
Followed(s, m) ==
    IF Tracked(s) = {} THEN m = month ELSE \E first \in Tracked(s) : first <= m


Checkpoint(s, m, grams) ==
    IF progress[s][m].tracked THEN [progress[s][m] EXCEPT !.observed = grams]
    ELSE [tracked |-> TRUE, baseline |-> IF Tracked(s) = {} THEN grams ELSE 0,
          observed |-> grams, applied |-> 0]

\* The till reports the total it has sold in month m so far.
Reconcile(s, m, grams) ==
    /\ m <= month
    /\ Followed(s, m)
    /\ Commit(Settle([bags |-> bags, opened |-> opened, written |-> {},
                      progress |-> [progress[s] EXCEPT ![m] = Checkpoint(s, m, grams)]], s), s)
    /\ UNCHANGED <<transfers, outbounds, sorted, month>>

-----------------------------------------------------------------------------
(* Commands of the stores.                                                 *)

\* Goods of this bag went to the sorted stock, another store, a write-off
\* or the till.
History(b) ==
    \/ sorted[b] > 0 \/ bags[b].consumed > 0
    \/ \E t \in Transfers : transfers[t].bag = b /\ transfers[t].status \in {"in_transit", "received"}
    \/ \E o \in Outbounds : outbounds[o].bag = b /\ outbounds[o].status = "approved"

OpenBag(b) ==
    /\ bags[b].status = "available" /\ b \notin ToSet(opened) /\ ~History(b)
    /\ LET s == bags[b].store
       IN Commit(Settle([bags |-> [bags EXCEPT ![b].status = "opened"],
                         opened |-> Append(opened, b), written |-> {b},
                         progress |-> progress[s]], s), s)
    /\ UNCHANGED <<transfers, outbounds, sorted, month>>

PartnerInbound(b) ==
    /\ bags[b].status = "none"
    /\ bags' = [bags EXCEPT ![b] = NewBag(Partner[b].store, Partner[b].weight, 0)]
    /\ touched' = Touch(touched, {b})
    /\ UNCHANGED <<opened, transfers, outbounds, sorted, progress, month>>

\* Goods leave bag b for the sorted stock of its store.
CreateStoreSorting(b, w) ==
    /\ Usable(b) /\ w <= bags[b].current
    /\ bags' = Drawn(bags, b, w)
    /\ sorted' = [sorted EXCEPT ![b] = @ + w]
    /\ opened' = Opening(opened, b) /\ touched' = Touch(touched, {b})
    /\ UNCHANGED <<transfers, outbounds, progress, month>>

CreateStoreOutbound(o, b, w) ==
    /\ outbounds[o].status = "none"
    /\ Usable(b) /\ w <= bags[b].current
    /\ outbounds' = [outbounds EXCEPT ![o] = [status |-> "pending", bag |-> b, weight |-> w]]
    /\ UNCHANGED <<bags, opened, touched, transfers, sorted, progress, month>>

\* A pending request holds nothing: the bag is looked at again.
StillHolds(o) ==
    LET b == outbounds[o].bag
    IN Usable(b) /\ outbounds[o].weight <= bags[b].current

ApproveOutbound(o) ==
    LET b == outbounds[o].bag
    IN /\ outbounds[o].status = "pending" /\ StillHolds(o)
       /\ bags' = Drawn(bags, b, outbounds[o].weight)
       /\ opened' = Opening(opened, b) /\ touched' = Touch(touched, {b})
       /\ outbounds' = [outbounds EXCEPT ![o].status = "approved"]
       /\ UNCHANGED <<transfers, sorted, progress, month>>

RejectOutbound(o) ==
    /\ outbounds[o].status = "pending"
    /\ outbounds' = [outbounds EXCEPT ![o].status = "rejected"]
    /\ UNCHANGED <<bags, opened, touched, transfers, sorted, progress, month>>

CreateTransfer(t, b, to, w) ==
    /\ transfers[t].status = "none"
    /\ to # bags[b].store
    /\ Usable(b) /\ w <= bags[b].current
    /\ transfers' = [transfers EXCEPT ![t] = [status |-> "draft", bag |-> b, to |-> to, weight |-> w, cost |-> 0]]
    /\ UNCHANGED <<bags, opened, touched, outbounds, sorted, progress, month>>

\* Rounding leaves the rest with the source; the last goods take it along.
AllocateTransferCost(cost, weight, moved) ==
    LET part == IF moved = weight THEN cost ELSE (cost * moved) \div weight
    IN [moved |-> part, remaining |-> cost - part]

StillThere(t) ==
    LET b == transfers[t].bag
    IN Usable(b) /\ transfers[t].weight <= bags[b].current

DispatchTransfer(t) ==
    LET b == transfers[t].bag
        w == transfers[t].weight
        cost == AllocateTransferCost(bags[b].cost, bags[b].current, w)
    IN /\ transfers[t].status = "draft" /\ StillThere(t)
       /\ bags' = [Drawn(bags, b, w) EXCEPT ![b].cost = cost.remaining]
       /\ opened' = Opening(opened, b) /\ touched' = Touch(touched, {b})
       /\ transfers' = [transfers EXCEPT ![t].status = "in_transit", ![t].cost = cost.moved]
       /\ UNCHANGED <<outbounds, sorted, progress, month>>

ReceiveTransfer(t) ==
    /\ transfers[t].status = "in_transit"
    /\ bags' = [bags EXCEPT ![t] = NewBag(transfers[t].to, transfers[t].weight, transfers[t].cost)]
    /\ touched' = Touch(touched, {t})
    /\ transfers' = [transfers EXCEPT ![t].status = "received"]
    /\ UNCHANGED <<opened, outbounds, sorted, progress, month>>

CancelTransfer(t) ==
    /\ transfers[t].status = "draft"
    /\ transfers' = [transfers EXCEPT ![t].status = "cancelled"]
    /\ UNCHANGED <<bags, opened, touched, outbounds, sorted, progress, month>>

NextMonth ==
    /\ month + 1 \in Months /\ month' = month + 1
    /\ UNCHANGED <<bags, opened, touched, transfers, outbounds, sorted, progress>>

-----------------------------------------------------------------------------
Init ==
    /\ bags = [b \in Bags |-> IF b \in DOMAIN Delivered
                              THEN NewBag(Delivered[b].store, Delivered[b].weight, Delivered[b].cost)
                              ELSE NoBag]
    /\ opened = <<>> /\ touched = SetToSortSeq(DOMAIN Delivered, <)
    /\ transfers = [t \in Transfers |-> NoTransfer]
    /\ outbounds = [o \in Outbounds |-> NoOutbound]
    /\ sorted = [b \in Bags |-> 0]
    /\ progress = [s \in Stores |-> [m \in Months |-> NotTracked]]
    /\ month = 1

Weights == 1 .. MaxSold

Next ==
    \/ \E s \in Stores, m \in Months, grams \in 0 .. MaxSold : Reconcile(s, m, grams)
    \/ \E b \in Bags : OpenBag(b) \/ \E w \in Weights : CreateStoreSorting(b, w)
    \/ \E b \in DOMAIN Partner : PartnerInbound(b)
    \/ \E o \in Outbounds :
        \/ \E b \in Bags, w \in Weights : CreateStoreOutbound(o, b, w)
        \/ ApproveOutbound(o) \/ RejectOutbound(o)
    \/ \E t \in Transfers :
        \/ \E b \in Bags, to \in Stores, w \in Weights : CreateTransfer(t, b, to, w)
        \/ DispatchTransfer(t) \/ ReceiveTransfer(t) \/ CancelTransfer(t)
    \/ NextMonth

Spec == Init /\ [][Next]_vars

-----------------------------------------------------------------------------
TypeOK ==
    /\ bags \in [Bags -> [store : Stores, status : {"none", "available", "opened", "depleted"},
                          initial : Nat, current : Nat, cost : Nat, consumed : Nat]]
    /\ ToSet(opened) \subseteq Bags /\ IsInjective(opened)
    /\ ToSet(touched) = {b \in Bags : bags[b].status # "none"} /\ IsInjective(touched)
    /\ \A t \in Transfers : transfers[t].status \in {"none", "draft", "in_transit", "received", "cancelled"}
    /\ \A o \in Outbounds : outbounds[o].status \in {"none", "pending", "approved", "rejected"}
    /\ sorted \in [Bags -> Nat]
    /\ progress \in [Stores -> [Months -> [tracked : BOOLEAN, baseline : Nat, observed : Nat, applied : Nat]]]
    /\ month \in Months

\* What left bag b by transfers and by approved write-offs.
TransferredFrom(b) ==
    SumOf([t \in {x \in Transfers : transfers[x].bag = b /\ transfers[x].status \in {"in_transit", "received"}}
             |-> transfers[t].weight])
WrittenOff(b) ==
    SumOf([o \in {x \in Outbounds : outbounds[x].bag = b /\ outbounds[x].status = "approved"}
             |-> outbounds[o].weight])

\* Every gram a bag came with is in it, with another store, sorted, written
\* off or sold: commands of several people on one bag (drafts and pending
\* requests hold nothing) and the till's corrections never take a gram twice.
WeightAccounted ==
    \A b \in Bags :
        bags[b].initial = bags[b].current + bags[b].consumed + sorted[b] + TransferredFrom(b) + WrittenOff(b)

\* The money paid for goods follows them: all the cost is on bags or on the way.
CostConserved ==
    SumOf([b \in Bags |-> bags[b].cost])
    + SumOf([t \in {x \in Transfers : transfers[x].status = "in_transit"} |-> transfers[t].cost])
    = SumOf([b \in DOMAIN Delivered |-> Delivered[b].cost])

\* What the months say was taken for the till is what the bags gave.
AppliedIsConsumed ==
    \A s \in Stores :
        SumOf([m \in Months |-> progress[s][m].applied])
        = SumOf([b \in {x \in Bags : bags[x].store = s} |-> bags[b].consumed])

\* A correction always finds the bags it needs: no month ever keeps more
\* than the till reports of it since the store was followed, whatever was
\* sorted, sent away or written off in between.
NeverOvercharged ==
    \A s \in Stores, m \in Months : progress[s][m].applied <= Target(progress[s][m])

\* A bag that never was opened is whole.
SealedIsWhole ==
    \A b \in Bags : bags[b].status = "available" =>
        bags[b].current = bags[b].initial /\ b \notin ToSet(opened) /\ ~History(b)

\* Reports of the till take from opened bags only.
TillSparesSealed ==
    \A b \in Bags :
     (\E s \in Stores, m \in Months : progress'[s][m].observed # progress[s][m].observed)
     /\ bags[b].status = "available" => bags'[b] = bags[b]

\* What was sold before the store was followed is never charged: a month
\* that is reported for the first time, of a store without any, takes nothing.
PastSalesNotCharged ==
    \A s \in Stores :
     Tracked(s) = {} /\ Tracked(s)' # {} => \A b \in Bags : bags'[b].consumed = bags[b].consumed

\* After a report only sales beyond what the opened bags hold are outstanding.
OutstandingOnlyWhenEmpty ==
    [][\A s \in Stores :
        (\E m \in Months : progress'[s][m].observed # progress[s][m].observed)
        /\ (\E m \in Months : progress'[s][m].applied < Target(progress'[s][m]))
        => \A b \in Bags : bags'[b].store = s => ~(bags'[b].status = "opened" /\ bags'[b].current > 0)]_vars
=============================================================================
