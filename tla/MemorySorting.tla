---------------------------- MODULE MemorySorting ----------------------------
(***************************************************************************)
(* The sorted stock of one product as the in-memory repository keeps it.   *)
(* The lots are rows of a map, oldest first; what was ever credited to a   *)
(* lot and what left it by transfer are kept beside them, and so are the   *)
(* checkpoints of the till, which a command settles before it answers.     *)
(* Nothing undoes the writes of a command that fails half way.             *)
(***************************************************************************)
EXTENDS Integers, Sequences, FiniteSets, SequencesExt, QuantitySums

CONSTANTS
    Stores,
    Loose,      \* bags with goods to sort: their store and weight
    Transfers,  \* transfers of Sale stock, which also name the lot they become
    LastMonth,  \* months are numbered from 1
    Figures,    \* what the till may report for a month, by type of sale
    MaxCredited \* bound: weight that may have gone to Sale in a store

Types == <<"sale_kg", "sale_piece">>
NoFigure == -1
Months == 1 .. LastMonth
LotIds == DOMAIN Loose \cup Transfers

MemorySortingAssumption ==
    /\ LotIds \subseteq Nat /\ DOMAIN Loose \cap Transfers = {}
    /\ LastMonth \in Nat \ {0} /\ MaxCredited \in Nat
    /\ Figures \subseteq [ToSet(Types) -> Nat \cup {NoFigure}]

VARIABLES
    inventoryBags,   \* weight not sorted yet
    sortedStocks,    \* the lots in the order of the map
    sortedSaleCredited,               \* by lot
    sortedSaleTransferredOutWeight,   \* by lot
    sortedSaleFirstCreditPeriod,      \* by store; 0 without a credit
    saleSyncProgress,                 \* checkpoints by store, month and type
    idosiStatisticsSnapshots,         \* what the till last reported of a month
    sortingHistory,                   \* weight by store and kind of move
    sortedSaleTransfers,
    month,
    reply            \* how the last command was answered

vars == <<inventoryBags, sortedStocks, sortedSaleCredited, sortedSaleTransferredOutWeight,
          sortedSaleFirstCreditPeriod, saleSyncProgress, idosiStatisticsSnapshots,
          sortingHistory, sortedSaleTransfers, month, reply>>

credit == <<sortedSaleCredited, sortedSaleFirstCreditPeriod>>
till == <<idosiStatisticsSnapshots, month>>

Buckets == {"sale", "charity", "cancel"}
Kinds == {"SALE_TO_CHARITY", "SALE_TO_CANCEL", "CHARITY_EXPORT", "CANCEL_FINALIZE"}

ProductLots(s) == {i \in DOMAIN sortedStocks : sortedStocks[i].store = s}
Lane(s) == SelectSeq([i \in DOMAIN sortedStocks |-> i], LAMBDA i : i \in ProductLots(s))
Held(s, bucket) == SumOf([i \in ProductLots(s) |-> sortedStocks[i][bucket]])
CreditedOf(s) == SumOf([i \in ProductLots(s) |-> sortedSaleCredited[sortedStocks[i].id]])
OutOf(s) == SumOf([i \in ProductLots(s) |-> sortedSaleTransferredOutWeight[sortedStocks[i].id]])

\* Goods may go back and forth for ever; MaxCredited ends it.
Creditable(s, w) == CreditedOf(s) + w <= MaxCredited

-----------------------------------------------------------------------------
(* Settling the till.  A settling works on [stocks, points, stuck].        *)

Target(point) == Greater(point.observed - point.baseline, 0)
Points == [n \in 1 .. 2 * LastMonth |-> <<(n + 1) \div 2, Types[2 - (n % 2)]>>]

Gain(stocks, lane, amounts, sign) ==
    FoldLeft(LAMBDA acc, n : [acc EXCEPT ![lane[n]].sale = @ + sign * amounts[n]],
             stocks, [n \in DOMAIN lane |-> n])

\* What was credited to a lot and is neither there nor sent away.
Room(lot) == Greater(sortedSaleCredited'[lot.id] - sortedSaleTransferredOutWeight[lot.id] - lot.sale, 0)

Reverse1(st, lane, p) ==
    LET point == st.points[p[1]][p[2]]
        wanted == Greater(point.applied - Target(point), 0)
        amounts == DrawInOrder(Reverse(lane), [i \in DOMAIN st.stocks |-> Room(st.stocks[i])], wanted)
    IN [stocks |-> Gain(st.stocks, Reverse(lane), amounts, 1),
        points |-> [st.points EXCEPT ![p[1]][p[2]].applied = Lesser(@, Target(point))],
        stuck |-> st.stuck \/ SumOf(amounts) < wanted]

Apply1(st, lane, p) ==
    LET point == st.points[p[1]][p[2]]
        wanted == Greater(Target(point) - point.applied, 0)
        amounts == DrawInOrder(lane, [i \in DOMAIN st.stocks |-> st.stocks[i].sale], wanted)
    IN [st EXCEPT !.stocks = Gain(@, lane, amounts, -1),
                  !.points[p[1]][p[2]].applied = @ + SumOf(amounts)]

\* Every correction goes back to the newest lots first; then the sales that
\* were not applied come out of the oldest ones.
SettleMemorySaleProduct(lane, stocks, points) ==
    LET start == [stocks |-> stocks, points |-> points, stuck |-> FALSE]
        back == FoldLeft(LAMBDA acc, p : Reverse1(acc, lane, p), start, Points)
    IN FoldLeft(LAMBDA acc, p : Apply1(acc, lane, p), back, Points)

NoCheckpoint == [kept |-> FALSE, pending |-> FALSE, baseline |-> 0, observed |-> 0, applied |-> 0]

HasMemorySaleBalance(s) == Held(s, "sale") > 0

InitializeMemorySaleBaseline(s) ==
    [saleSyncProgress[s] EXCEPT ![month] = [k \in ToSet(Types) |->
        LET figure == idosiStatisticsSnapshots[s][month][k]
        IN IF @[k].kept THEN @[k]
           ELSE [kept |-> TRUE, pending |-> figure = NoFigure, baseline |-> Greater(figure, 0),
                 observed |-> Greater(figure, 0), applied |-> 0]]]

BeforeCredit(s) ==
    IF HasMemorySaleBalance(s) THEN saleSyncProgress[s] ELSE InitializeMemorySaleBaseline(s)

\* Settles store s over the lots and checkpoints a command leaves it with.
Settles(s, lane, stocks, points) ==
    LET end == SettleMemorySaleProduct(lane, stocks, points)
    IN /\ sortedStocks' = end.stocks
       /\ saleSyncProgress' = [saleSyncProgress EXCEPT ![s] = end.points]
       /\ reply' = IF end.stuck THEN "error" ELSE "done"

FirstCredit(s) ==
    sortedSaleFirstCreditPeriod' = [sortedSaleFirstCreditPeriod EXCEPT ![s] = IF @ = 0 THEN month ELSE @]

-----------------------------------------------------------------------------
(* Sorting.                                                                *)

NewLot(id, s, w) == [id |-> id, store |-> s, sale |-> w, charity |-> 0, cancel |-> 0]

\* The lots with the one of bag b, at its old place or as the newest.
WithLot(b) ==
    IF \E i \in DOMAIN sortedStocks : sortedStocks[i].id = b THEN sortedStocks
    ELSE Append(sortedStocks, NewLot(b, Loose[b].store, 0))
PlaceOf(stocks, id) == CHOOSE i \in DOMAIN stocks : stocks[i].id = id
LaneWith(stocks, s) == SelectSeq([i \in DOMAIN stocks |-> i], LAMBDA i : stocks[i].store = s)

CreateStoreSorting(b, bucket, w) ==
    LET s == Loose[b].store
        stocks == WithLot(b)
        sorted == [stocks EXCEPT ![PlaceOf(stocks, b)][bucket] = @ + w]
    IN /\ w <= inventoryBags[b]
       /\ inventoryBags' = [inventoryBags EXCEPT ![b] = @ - w]
       /\ IF bucket = "sale"
          THEN /\ sortedSaleCredited' = [sortedSaleCredited EXCEPT ![b] = @ + w]
               /\ FirstCredit(s)
               /\ Settles(s, LaneWith(sorted, s), sorted, BeforeCredit(s))
          ELSE /\ sortedStocks' = sorted /\ reply' = "done"
               /\ UNCHANGED <<saleSyncProgress, credit>>
       /\ UNCHANGED <<sortedSaleTransferredOutWeight, sortingHistory, sortedSaleTransfers, till>>

\* Weight w of a bucket, from the store's oldest lots first; what each gives.
TakeMemoryWeight(s, bucket, w) ==
    DrawInOrder(Lane(s), [i \in DOMAIN sortedStocks |-> sortedStocks[i][bucket]], w)

\* What each lot gives counts as credited to it once more.
Credited(lane, amounts) ==
    FoldLeft(LAMBDA acc, n : [acc EXCEPT ![sortedStocks[lane[n]].id] = @ + amounts[n]],
             sortedSaleCredited, [n \in DOMAIN lane |-> n])

\* The lots after each gave its part of a bucket to another, or to nobody.
Moved(lane, from, amounts, to) ==
    FoldLeft(LAMBDA acc, n : LET given == [acc EXCEPT ![lane[n]][from] = @ - amounts[n]]
                             IN IF to = "none" THEN given ELSE [given EXCEPT ![lane[n]][to] = @ + amounts[n]],
             sortedStocks, [n \in DOMAIN lane |-> n])

RecordSortingHistory(s, kind, w) == sortingHistory' = [sortingHistory EXCEPT ![s][kind] = @ + w]

\* Charity or cancelled goods of the product back to Sale: two routes that
\* write alike, moveProductCharityToSale and moveProductCancelToSale.
MoveProductToSale(s, from, w) ==
    LET amounts == TakeMemoryWeight(s, from, w)
    IN /\ w <= Held(s, from) /\ Creditable(s, w)
       /\ sortedSaleCredited' = Credited(Lane(s), amounts)
       /\ FirstCredit(s)
       /\ Settles(s, Lane(s), Moved(Lane(s), from, amounts, "sale"), BeforeCredit(s))
       /\ UNCHANGED <<inventoryBags, sortedSaleTransferredOutWeight, sortingHistory,
                      sortedSaleTransfers, till>>

\* Weight of a bucket goes elsewhere without a credit: to another bucket, out
\* as charity, or written off, which takes all there is.
Leave(s, from, to, kind, w) ==
    /\ w <= Held(s, from)
    /\ sortedStocks' = Moved(Lane(s), from, TakeMemoryWeight(s, from, w), to)
    /\ RecordSortingHistory(s, kind, w)
    /\ reply' = "done"
    /\ UNCHANGED <<inventoryBags, credit, sortedSaleTransferredOutWeight, saleSyncProgress,
                   sortedSaleTransfers, till>>

MoveProductSaleToCharity(s, w) == Leave(s, "sale", "charity", "SALE_TO_CHARITY", w)
MoveProductSaleToCancel(s, w) == Leave(s, "sale", "cancel", "SALE_TO_CANCEL", w)
CreateCharityExport(s, w) == Leave(s, "charity", "none", "CHARITY_EXPORT", w)
FinalizeProductCancel(s) ==
    Held(s, "cancel") > 0 /\ Leave(s, "cancel", "none", "CANCEL_FINALIZE", Held(s, "cancel"))

\* The bag of the lot is looked up last, when all is written; a lot that came
\* with a transfer has none.
AnswerOf(i) == IF sortedStocks[i].id \in DOMAIN Loose THEN "done" ELSE "not found"

\* The same two moves for one lot of Charity, chosen on the page.
MutateMemoryCharity(i, destination, w) ==
    LET s == sortedStocks[i].store
        given == [sortedStocks EXCEPT ![i].charity = @ - w]
    IN IF destination = "CHARITY"
       THEN /\ w = sortedStocks[i].charity /\ w > 0
            /\ sortedStocks' = given /\ reply' = AnswerOf(i)
            /\ RecordSortingHistory(s, "CHARITY_EXPORT", w)
            /\ UNCHANGED <<inventoryBags, credit, sortedSaleTransferredOutWeight,
                           saleSyncProgress, sortedSaleTransfers, till>>
       ELSE LET end == SettleMemorySaleProduct(Lane(s), [given EXCEPT ![i].sale = @ + w], BeforeCredit(s))
            IN /\ w <= sortedStocks[i].charity /\ Creditable(s, w)
               /\ sortedSaleCredited' = [sortedSaleCredited EXCEPT ![sortedStocks[i].id] = @ + w]
               /\ FirstCredit(s)
               /\ sortedStocks' = end.stocks
               /\ saleSyncProgress' = [saleSyncProgress EXCEPT ![s] = end.points]
               /\ reply' = IF end.stuck THEN "error" ELSE AnswerOf(i)
               /\ UNCHANGED <<inventoryBags, sortedSaleTransferredOutWeight, sortingHistory,
                              sortedSaleTransfers, till>>

-----------------------------------------------------------------------------
(* Sale stock on its way to another store.                                 *)

NoTransfer == [status |-> "none", from |-> CHOOSE s \in Stores : TRUE,
               to |-> CHOOSE s \in Stores : TRUE, weight |-> 0]

CreateSortedSaleTransfer(t, from, to, w) ==
    LET amounts == TakeMemoryWeight(from, "sale", w)
    IN /\ sortedSaleTransfers[t].status = "none" /\ from # to
       /\ w <= Held(from, "sale")
       /\ sortedStocks' = Moved(Lane(from), "sale", amounts, "none")
       /\ sortedSaleTransferredOutWeight' =
            FoldLeft(LAMBDA acc, n : [acc EXCEPT ![sortedStocks[Lane(from)[n]].id] = @ + amounts[n]],
                     sortedSaleTransferredOutWeight, [n \in DOMAIN Lane(from) |-> n])
       /\ sortedSaleTransfers' = [sortedSaleTransfers EXCEPT ![t] =
                                    [status |-> "IN_TRANSIT", from |-> from, to |-> to, weight |-> w]]
       /\ reply' = "done"
       /\ UNCHANGED <<inventoryBags, credit, saleSyncProgress, sortingHistory, till>>

\* The goods become a lot of store s, the newest.
Arrives(t, s, status, points) ==
    LET w == sortedSaleTransfers[t].weight
        stocks == Append(sortedStocks, NewLot(t, s, w))
    IN /\ sortedSaleTransfers[t].status = "IN_TRANSIT"
       /\ sortedSaleCredited' = [sortedSaleCredited EXCEPT ![t] = w]
       /\ Settles(s, LaneWith(stocks, s), stocks, points)
       /\ sortedSaleTransfers' = [sortedSaleTransfers EXCEPT ![t].status = status]
       /\ UNCHANGED <<inventoryBags, sortedSaleTransferredOutWeight, sortingHistory, till>>

ReceiveSortedSaleTransfer(t) ==
    /\ Arrives(t, sortedSaleTransfers[t].to, "RECEIVED", BeforeCredit(sortedSaleTransfers[t].to))
    /\ FirstCredit(sortedSaleTransfers[t].to)
CancelSortedSaleTransfer(t) ==
    /\ Arrives(t, sortedSaleTransfers[t].from, "CANCELLED", saleSyncProgress[sortedSaleTransfers[t].from])
    /\ UNCHANGED sortedSaleFirstCreditPeriod

-----------------------------------------------------------------------------
(* The till.                                                               *)

\* A figure makes or moves a checkpoint; one that waits starts from it.
Observed(point, figure) ==
    IF figure = NoFigure THEN point
    ELSE [point EXCEPT !.kept = TRUE, !.pending = FALSE, !.observed = figure,
                       !.baseline = IF point.pending THEN figure ELSE @]

Charged(s, m) == CreditedOf(s) > 0 /\ sortedSaleFirstCreditPeriod[s] <= m

\* Applying what is kept of a month to the lots of the store.
ApplyMemoryIdosiSaleSnapshot(s, m, figures) ==
    IF Charged(s, m)
    THEN Settles(s, Lane(s), sortedStocks,
                 [saleSyncProgress[s] EXCEPT ![m] = [k \in ToSet(Types) |-> Observed(@[k], figures[k])]])
    ELSE reply' = "done" /\ UNCHANGED <<sortedStocks, saleSyncProgress>>

\* A manual synchronisation brings figures; older ones than those kept are
\* dropped, and the kept ones are applied again.
RecordIdosiStatisticsSuccess(s, m) ==
    \E kept \in Figures \cup {idosiStatisticsSnapshots[s][m]} :
        /\ m <= month
        /\ idosiStatisticsSnapshots' = [idosiStatisticsSnapshots EXCEPT ![s][m] = kept]
        /\ UNCHANGED credit
        /\ ApplyMemoryIdosiSaleSnapshot(s, m, kept)
        /\ UNCHANGED <<inventoryBags, sortedSaleTransferredOutWeight, sortingHistory,
                       sortedSaleTransfers, month>>

NextMonth ==
    /\ month < LastMonth /\ month' = month + 1 /\ reply' = "done"
    /\ UNCHANGED <<inventoryBags, sortedStocks, credit, sortedSaleTransferredOutWeight, saleSyncProgress,
                   idosiStatisticsSnapshots, sortingHistory, sortedSaleTransfers>>

-----------------------------------------------------------------------------
Init ==
    /\ inventoryBags = [b \in DOMAIN Loose |-> Loose[b].weight]
    /\ sortedStocks = <<>>
    /\ sortedSaleCredited = [l \in LotIds |-> 0]
    /\ sortedSaleTransferredOutWeight = [l \in LotIds |-> 0]
    /\ sortedSaleFirstCreditPeriod = [s \in Stores |-> 0]
    /\ saleSyncProgress = [s \in Stores |-> [m \in Months |-> [k \in ToSet(Types) |-> NoCheckpoint]]]
    /\ idosiStatisticsSnapshots = [s \in Stores |-> [m \in Months |-> [k \in ToSet(Types) |-> NoFigure]]]
    /\ sortingHistory = [s \in Stores |-> [a \in Kinds |-> 0]]
    /\ sortedSaleTransfers = [t \in Transfers |-> NoTransfer]
    /\ month = 1 /\ reply = "done"

Weights == 1 .. SumOf([b \in DOMAIN Loose |-> Loose[b].weight])

Next ==
    \/ \E w \in Weights :
        \/ \E b \in DOMAIN Loose, bucket \in Buckets : CreateStoreSorting(b, bucket, w)
        \/ \E i \in DOMAIN sortedStocks, destination \in {"SALE", "CHARITY"} :
              MutateMemoryCharity(i, destination, w)
        \/ \E s \in Stores :
            \/ \E from \in {"charity", "cancel"} : MoveProductToSale(s, from, w)
            \/ MoveProductSaleToCharity(s, w) \/ MoveProductSaleToCancel(s, w)
            \/ CreateCharityExport(s, w)
        \/ \E t \in Transfers, from, to \in Stores : CreateSortedSaleTransfer(t, from, to, w)
    \/ \E s \in Stores : FinalizeProductCancel(s)
    \/ \E t \in Transfers : ReceiveSortedSaleTransfer(t) \/ CancelSortedSaleTransfer(t)
    \/ \E s \in Stores, m \in Months : RecordIdosiStatisticsSuccess(s, m)
    \/ NextMonth

Spec == Init /\ [][Next]_vars

-----------------------------------------------------------------------------
TypeOK ==
    /\ inventoryBags \in [DOMAIN Loose -> Nat]
    /\ sortedStocks \in Seq([id : LotIds, store : Stores, sale : Nat, charity : Nat, cancel : Nat])
    /\ \A i, j \in DOMAIN sortedStocks : sortedStocks[i].id = sortedStocks[j].id => i = j
    /\ sortedSaleCredited \in [LotIds -> Nat] /\ sortedSaleTransferredOutWeight \in [LotIds -> Nat]
    /\ sortedSaleFirstCreditPeriod \in [Stores -> 0 .. LastMonth]
    /\ saleSyncProgress \in [Stores -> [Months -> [ToSet(Types) ->
          [kept : BOOLEAN, pending : BOOLEAN, baseline : Nat, observed : Nat, applied : Nat]]]]
    /\ sortingHistory \in [Stores -> [Kinds -> Nat]]
    /\ sortedSaleTransfers \in [Transfers -> [status : {"none", "IN_TRANSIT", "RECEIVED", "CANCELLED"},
                                              from : Stores, to : Stores, weight : Nat]]
    /\ month \in Months /\ reply \in {"done", "error", "not found"}

Applied(s) == SumOf([p \in Months \X ToSet(Types) |-> saleSyncProgress[s][p[1]][p[2]].applied])
Sent(T) == SumOf([t \in T |-> sortedSaleTransfers[t].weight])

\* Every gram a store sorted or received is in a bucket, exported, written
\* off, sent away or sold; the maps beside the lots never drift from them.
StockAccounted ==
    \A s \in Stores :
        SumOf([b \in {x \in DOMAIN Loose : Loose[x].store = s} |-> Loose[b].weight - inventoryBags[b]])
        + Sent({t \in Transfers : \/ sortedSaleTransfers[t].status = "RECEIVED" /\ sortedSaleTransfers[t].to = s
                                  \/ sortedSaleTransfers[t].status = "CANCELLED" /\ sortedSaleTransfers[t].from = s})
        = Held(s, "sale") + Held(s, "charity") + Held(s, "cancel") + Applied(s)
          + sortingHistory[s]["CHARITY_EXPORT"] + sortingHistory[s]["CANCEL_FINALIZE"]
          + Sent({t \in Transfers : sortedSaleTransfers[t].status # "none" /\ sortedSaleTransfers[t].from = s})

\* The breakdown shown to managers takes what was sold for the rest of what
\* was credited; it is what the till reported, and never below nothing.
SaleBreakdownIsSold ==
    \A s \in Stores :
        CreditedOf(s) - Held(s, "sale") - OutOf(s)
            - sortingHistory[s]["SALE_TO_CHARITY"] - sortingHistory[s]["SALE_TO_CANCEL"] = Applied(s)

\* A correction of the till never fails for want of a lot that takes it.
CorrectionHasRoom == reply # "error"

\* No month keeps more than the till reports of it beyond its baseline, and
\* sales are outstanding only while there is no Sale stock.
ChargedAsReported ==
    \A s \in Stores, m \in Months, k \in ToSet(Types) :
        LET point == saleSyncProgress[s][m][k]
        IN /\ point.applied <= Target(point)
           /\ point.applied < Target(point) => Held(s, "sale") = 0

\* Months before the first Sale credit are never charged.
PastMonthsNotCharged ==
    \A s \in Stores, m \in Months :
        m < sortedSaleFirstCreditPeriod[s] => \A k \in ToSet(Types) : saleSyncProgress[s][m][k].applied = 0
=============================================================================
