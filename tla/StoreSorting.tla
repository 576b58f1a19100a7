----------------------------- MODULE StoreSorting ----------------------------
(***************************************************************************)
(* The sorted stock of one product.  A store sorts goods out of its bags   *)
(* into Sale, Charity or Cancel, moves weight between the three, exports   *)
(* charity, writes cancelled goods off and sends Sale stock to another     *)
(* store.  What the till sold by the kilo and by the piece is taken out of *)
(* the Sale stock, and corrections of the till are put back, month by      *)
(* month against a baseline.  All of it happens under one lock per store.  *)
(***************************************************************************)
EXTENDS Integers, Sequences, FiniteSets, SequencesExt, QuantitySums

CONSTANTS
    Stores,
    Loose,      \* bags with goods to sort: their store and weight
    Transfers,  \* transfers of Sale stock, which also name the lot they become
    LastMonth,  \* months are numbered from 1
    Figures,    \* what the till may report for a month, by type of sale
    MaxCredited \* bound: weight that may have gone to Sale in a store

Types == <<"kg", "piece">>
NoFigure == -1
Months == 1 .. LastMonth
Lots == DOMAIN Loose \cup Transfers

SortingAssumption ==
    /\ Lots \subseteq Nat /\ DOMAIN Loose \cap Transfers = {}
    /\ LastMonth \in Nat \ {0}
    /\ MaxCredited \in Nat
    /\ Figures \subseteq [ToSet(Types) -> Nat \cup {NoFigure}]

VARIABLES
    loose,      \* weight not sorted yet (store_inventory_bags)
    lots,       \* store_sorted_stocks, one of each bag and received transfer
    order,      \* the lots that exist, oldest first
    created,    \* the month a lot was created in
    left,       \* charity exported and cancelled goods written off, by store
    transfers,  \* sorted_sale_transfers
    snapshot,   \* idosi_statistics_snapshots of whole months, by store
    progress,   \* store_sale_sync_progress, by store, month and type
    credits,    \* month of the store's first Sale credit (store_sorting_events), or 0
    month       \* the current month

vars == <<loose, lots, order, created, left, transfers, snapshot, progress, credits, month>>

Buckets == {"sale", "charity", "cancel"}
NoLot == [store |-> CHOOSE s \in Stores : TRUE, sale |-> 0, charity |-> 0, cancel |-> 0,
          credited |-> 0, out |-> 0]
NoTransfer == [status |-> "none", from |-> CHOOSE s \in Stores : TRUE,
               to |-> CHOOSE s \in Stores : TRUE, weight |-> 0]
NoCheckpoint == [exists |-> FALSE, pending |-> FALSE, baseline |-> 0, observed |-> 0, applied |-> 0]
NoReport == [k \in ToSet(Types) |-> NoFigure]

LotsOf(s) == SelectSeq(order, LAMBDA l : lots[l].store = s)
Total(s, bucket) == SumOf([l \in {x \in ToSet(order) : lots[x].store = s} |-> lots[l][bucket]])

-----------------------------------------------------------------------------
(* Settling the till against the Sale stock of a store.                    *)

Target(point) == Greater(point.observed - point.baseline, 0)
Points == [i \in 1 .. 2 * LastMonth |-> <<(i + 1) \div 2, Types[2 - (i % 2)]>>]

\* Weight each lot gains, in the order given.
AddSale(stock, lane, amounts, sign) ==
    FoldLeft(LAMBDA acc, i : [acc EXCEPT ![lane[i]].sale = @ + sign * amounts[i]],
             stock, [i \in DOMAIN lane |-> i])

\* What a correction may put back into a lot.
Room(lot) == lot.credited - lot.out - lot.sale

RestorePoint(st, lane, p) ==
    LET point == st.points[p[1]][p[2]]
        surplus == point.applied - Target(point)
        amounts == DrawInOrder(Reverse(lane), [l \in Lots |-> Room(st.stock[l])], surplus)
    IN IF surplus <= 0 THEN st
       ELSE [stock |-> AddSale(st.stock, Reverse(lane), amounts, 1),
             points |-> [st.points EXCEPT ![p[1]][p[2]].applied = Target(point)],
             failed |-> st.failed \/ SumOf(amounts) < surplus]

ConsumePoint(st, lane, p) ==
    LET point == st.points[p[1]][p[2]]
        wanted == Target(point) - point.applied
        amounts == DrawInOrder(lane, [l \in Lots |-> st.stock[l].sale], wanted)
    IN IF wanted <= 0 THEN st
       ELSE [st EXCEPT !.stock = AddSale(st.stock, lane, amounts, -1),
                       !.points[p[1]][p[2]].applied = @ + SumOf(amounts)]

\* Corrections of every month come back, to the newest lot first; then every
\* month takes what it still wants, from the oldest lot first.
Settled(stock, lane, points) ==
    LET start == [stock |-> stock, points |-> points, failed |-> FALSE]
        restored == FoldLeft(LAMBDA acc, p : RestorePoint(acc, lane, p), start, Points)
    IN IF lane = <<>> THEN start
       ELSE FoldLeft(LAMBDA acc, p : ConsumePoint(acc, lane, p), restored, Points)

\* Writes the settled stock of store s, whose lots are given oldest first; a
\* correction that finds no room fails the whole transaction.
Settle(s, stock, lane, points) ==
    LET end == Settled(stock, lane, points)
    IN /\ ~end.failed
       /\ lots' = end.stock
       /\ progress' = [progress EXCEPT ![s] = end.points]

\* A checkpoint of the current month for either type of sale, unless there is
\* one, at the figure the till last reported; without a usable figure it waits.
Baselines(s) ==
    [progress[s] EXCEPT ![month] = [k \in ToSet(Types) |->
        LET figure == snapshot[s][month][k]
        IN IF @[k].exists THEN @[k]
           ELSE [exists |-> TRUE, pending |-> figure = NoFigure, baseline |-> Greater(figure, 0),
                 observed |-> Greater(figure, 0), applied |-> 0]]]

\* Checkpoints to settle when goods go to Sale: with no Sale stock left the
\* credit counts as the first one.
PointsForCredit(s) == IF Total(s, "sale") = 0 THEN Baselines(s) ELSE progress[s]

FirstCredit(s) == [credits EXCEPT ![s] = IF @ = 0 THEN month ELSE @]

-----------------------------------------------------------------------------
(* Sorting and moving between the buckets.                                 *)

\* The lot of bag b: the existing one, or a new one.
LotOf(b) == IF b \in ToSet(order) THEN lots[b] ELSE [NoLot EXCEPT !.store = Loose[b].store]

Placed(seq, b) == IF b \in ToSet(seq) THEN seq ELSE Append(seq, b)

CreateStoreSorting(b, w, bucket) ==
    LET s == Loose[b].store
        lane == Placed(LotsOf(s), b)
        lot == [LotOf(b) EXCEPT ![bucket] = @ + w, !.credited = @ + (IF bucket = "sale" THEN w ELSE 0)]
        stock == [lots EXCEPT ![b] = lot]
    IN /\ w <= loose[b]
       /\ loose' = [loose EXCEPT ![b] = @ - w]
       /\ order' = Placed(order, b)
       /\ created' = IF b \in ToSet(order) THEN created ELSE [created EXCEPT ![b] = month]
       /\ IF bucket = "sale"
          THEN Settle(s, stock, lane, PointsForCredit(s)) /\ credits' = FirstCredit(s)
          ELSE lots' = stock /\ UNCHANGED <<progress, credits>>
       /\ UNCHANGED <<left, transfers, snapshot, month>>

\* Weight w of a bucket goes from the store's lots, oldest first; a lot that
\* loses some gains it elsewhere, as the changes say.
TakeBucket(s, from, w, Changed(_, _)) ==
    LET lane == LotsOf(s)
        amounts == DrawInOrder(lane, [l \in Lots |-> lots[l][from]], w)
    IN FoldLeft(LAMBDA acc, i : [acc EXCEPT ![lane[i]] = Changed([@ EXCEPT ![from] = @ - amounts[i]], amounts[i])],
                lots, [i \in DOMAIN lane |-> i])

\* Mutant of Move: goods that come back to Sale are not credited.
MoveUncredited(s, from, to, w) == TakeBucket(s, from, w, LAMBDA lot, g : [lot EXCEPT ![to] = @ + g])

Move(s, from, to, w) ==
    TakeBucket(s, from, w, LAMBDA lot, g :
        [lot EXCEPT ![to] = @ + g, !.credited = @ + (IF to = "sale" THEN g ELSE 0)])
Drop(s, from, w) == TakeBucket(s, from, w, LAMBDA lot, g : lot)

\* Goods may go back and forth for ever; MaxCredited ends it.
Creditable(s, w) == Total(s, "credited") + w <= MaxCredited

\* Charity or cancelled goods of the product go back to Sale.
MoveProductToSale(s, from, w) ==
    /\ w <= Total(s, from) /\ Creditable(s, w)
    /\ Settle(s, Move(s, from, "sale", w), LotsOf(s), PointsForCredit(s))
    /\ credits' = FirstCredit(s)
    /\ UNCHANGED <<loose, order, created, left, transfers, snapshot, month>>

\* The same for one lot, which must be of a bag of the store.
MoveCharityToSale(l, w) ==
    LET s == lots[l].store
    IN /\ l \in ToSet(order) \cap DOMAIN Loose /\ w <= lots[l].charity /\ Creditable(s, w)
       /\ Settle(s, [lots EXCEPT ![l].charity = @ - w, ![l].credited = @ + w, ![l].sale = @ + w],
                 LotsOf(s), PointsForCredit(s))
       /\ credits' = FirstCredit(s)
       /\ UNCHANGED <<loose, order, created, left, transfers, snapshot, month>>

ExportCharity(l) ==
    /\ l \in ToSet(order) \cap DOMAIN Loose /\ lots[l].charity > 0
    /\ lots' = [lots EXCEPT ![l].charity = 0]
    /\ left' = [left EXCEPT ![lots[l].store] = @ + lots[l].charity]
    /\ UNCHANGED <<loose, order, created, transfers, snapshot, progress, credits, month>>

CreateCharityExport(s, w) ==
    /\ w <= Total(s, "charity")
    /\ lots' = Drop(s, "charity", w)
    /\ left' = [left EXCEPT ![s] = @ + w]
    /\ UNCHANGED <<loose, order, created, transfers, snapshot, progress, credits, month>>

FinalizeProductCancel(s) ==
    /\ Total(s, "cancel") > 0
    /\ lots' = Drop(s, "cancel", Total(s, "cancel"))
    /\ left' = [left EXCEPT ![s] = @ + Total(s, "cancel")]
    /\ UNCHANGED <<loose, order, created, transfers, snapshot, progress, credits, month>>

RerouteProductSale(s, to, w) ==
    /\ w <= Total(s, "sale")
    /\ lots' = Move(s, "sale", to, w)
    /\ UNCHANGED <<loose, order, created, left, transfers, snapshot, progress, credits, month>>

-----------------------------------------------------------------------------
(* Sale stock on its way to another store.                                 *)

Dispatched(s, w) == TakeBucket(s, "sale", w, LAMBDA lot, g : [lot EXCEPT !.out = @ + g])

CreateTransfer(t, from, to, w) ==
    /\ transfers[t].status = "none" /\ from # to
    /\ w <= Total(from, "sale")
    /\ lots' = Dispatched(from, w)
    /\ transfers' = [transfers EXCEPT ![t] = [status |-> "in_transit", from |-> from, to |-> to, weight |-> w]]
    /\ UNCHANGED <<loose, order, created, left, snapshot, progress, credits, month>>

HasSale(s) == Total(s, "credited") > 0

\* A new lot at the destination, or back at the source.
SettleTransfer(t, end) ==
    LET s == IF end = "cancelled" THEN transfers[t].from ELSE transfers[t].to
        w == transfers[t].weight
        points == IF end = "cancelled" \/ HasSale(s) THEN progress[s] ELSE Baselines(s)
    IN /\ transfers[t].status = "in_transit"
       /\ Settle(s, [lots EXCEPT ![t] = [NoLot EXCEPT !.store = s, !.sale = w, !.credited = w]],
                 Append(LotsOf(s), t), points)
       /\ order' = Append(order, t) /\ created' = [created EXCEPT ![t] = month]
       /\ transfers' = [transfers EXCEPT ![t].status = end]
       /\ credits' = FirstCredit(s)
       /\ UNCHANGED <<loose, left, snapshot, month>>

-----------------------------------------------------------------------------
(* The till reports a whole month of a store.                              *)

\* The month the store's oldest lot that was ever credited was created in.
Credited(s) == {created[l] : l \in {x \in ToSet(LotsOf(s)) : lots[x].credited > 0}}
Charged(s, m) == \E first \in Credited(s) : first <= m

\* Without a figure for every line the checkpoint stays as it is; one that
\* waits takes the figure as its baseline, and a new month starts from nothing.
Observed(point, figure) ==
    IF figure = NoFigure THEN point
    ELSE [point EXCEPT !.exists = TRUE, !.pending = FALSE, !.observed = figure,
                       !.baseline = IF point.pending THEN figure ELSE @]

Report(s, m, figures) ==
    /\ m <= month
    /\ snapshot' = [snapshot EXCEPT ![s][m] = figures]
    /\ IF Charged(s, m)
       THEN Settle(s, lots, LotsOf(s),
                   [progress[s] EXCEPT ![m] = [k \in ToSet(Types) |-> Observed(@[k], figures[k])]])
       ELSE UNCHANGED <<lots, progress>>
    /\ UNCHANGED <<loose, order, created, left, transfers, credits, month>>

NextMonth ==
    /\ month < LastMonth /\ month' = month + 1
    /\ UNCHANGED <<loose, lots, order, created, left, transfers, snapshot, progress, credits>>

-----------------------------------------------------------------------------
Init ==
    /\ loose = [b \in DOMAIN Loose |-> Loose[b].weight]
    /\ lots = [l \in Lots |-> NoLot] /\ order = <<>> /\ created = [l \in Lots |-> 0]
    /\ left = [s \in Stores |-> 0]
    /\ transfers = [t \in Transfers |-> NoTransfer]
    /\ snapshot = [s \in Stores |-> [m \in Months |-> NoReport]]
    /\ progress = [s \in Stores |-> [m \in Months |-> [k \in ToSet(Types) |-> NoCheckpoint]]]
    /\ credits = [s \in Stores |-> 0]
    /\ month = 1

Weights == 1 .. SumOf([b \in DOMAIN Loose |-> Loose[b].weight])

Next ==
    \/ \E w \in Weights :
        \/ \E b \in DOMAIN Loose, bucket \in Buckets : CreateStoreSorting(b, w, bucket)
        \/ \E s \in Stores, from \in {"charity", "cancel"} : MoveProductToSale(s, from, w)
        \/ \E l \in DOMAIN Loose : MoveCharityToSale(l, w)
        \/ \E s \in Stores : CreateCharityExport(s, w)
        \/ \E s \in Stores, to \in {"charity", "cancel"} : RerouteProductSale(s, to, w)
        \/ \E t \in Transfers, from, to \in Stores : CreateTransfer(t, from, to, w)
    \/ \E l \in DOMAIN Loose : ExportCharity(l)
    \/ \E s \in Stores : FinalizeProductCancel(s)
    \/ \E t \in Transfers, end \in {"received", "cancelled"} : SettleTransfer(t, end)
    \/ \E s \in Stores, m \in Months, figures \in Figures : Report(s, m, figures)
    \/ NextMonth

Spec == Init /\ [][Next]_vars

-----------------------------------------------------------------------------
TypeOK ==
    /\ loose \in [DOMAIN Loose -> Nat]
    /\ lots \in [Lots -> [store : Stores, sale : Nat, charity : Nat, cancel : Nat, credited : Nat, out : Nat]]
    /\ ToSet(order) \subseteq Lots /\ IsInjective(order)
    /\ left \in [Stores -> Nat]
    /\ transfers \in [Transfers -> [status : {"none", "in_transit", "received", "cancelled"},
                                    from : Stores, to : Stores, weight : Nat]]
    /\ progress \in [Stores -> [Months -> [ToSet(Types) -> [exists : BOOLEAN, pending : BOOLEAN,
                                                            baseline : Nat, observed : Nat, applied : Nat]]]]
    /\ credits \in [Stores -> 0 .. LastMonth] /\ month \in Months

Applied(s) == SumOf([p \in Months \X ToSet(Types) |-> progress[s][p[1]][p[2]].applied])
Moved(T) == SumOf([t \in T |-> transfers[t].weight])

\* Every gram a store sorted or received is in a bucket, exported, written
\* off, sent away, or taken by the till; corrections make nothing of nothing.
StockAccounted ==
    \A s \in Stores :
        SumOf([b \in {x \in DOMAIN Loose : Loose[x].store = s} |-> Loose[b].weight - loose[b]])
        + Moved({t \in Transfers : \/ transfers[t].status = "received" /\ transfers[t].to = s
                                   \/ transfers[t].status = "cancelled" /\ transfers[t].from = s})
        = Total(s, "sale") + Total(s, "charity") + Total(s, "cancel") + left[s] + Applied(s)
          + Moved({t \in Transfers : transfers[t].status # "none" /\ transfers[t].from = s})

\* A correction of the till always finds room for what it gives back,
\* whatever was moved, exported or sent away since: the synchronisation of
\* the store never fails on it.
CorrectionHasRoom ==
    \A s \in Stores :
        /\ \A l \in ToSet(LotsOf(s)) : lots[l].credited - lots[l].out >= lots[l].sale
        /\ Applied(s) <= Total(s, "credited") - Total(s, "out") - Total(s, "sale")

\* No month keeps more than the till reports of it beyond its baseline.
NeverOvercharged ==
    \A s \in Stores, m \in Months, k \in ToSet(Types) :
        progress[s][m][k].applied <= Target(progress[s][m][k])

\* Sales of any month are outstanding only while there is no Sale stock.
OutstandingOnlyWhenEmpty ==
    \A s \in Stores :
        (\E m \in Months, k \in ToSet(Types) : progress[s][m][k].applied < Target(progress[s][m][k]))
        => Total(s, "sale") = 0

\* What the till sold before goods first went to Sale in a month, as far as
\* it had reported it, is not charged for that month.
BaselineSpares ==
    \A s \in Stores :
     credits[s] = 0 /\ credits'[s] # 0 => \A k \in ToSet(Types) : progress'[s][month][k].applied = 0

\* Months before the oldest lot that was ever credited was created are never
\* charged, whatever is moved, received or reported later.  (A month in which that
\* lot waited as charity, before any goods went to Sale, is charged as soon as it
\* is reported again: the code compares with the creation of the lot.)
EarlierMonthsSpared ==
    \A s \in Stores, m \in Months :
        ~Charged(s, m) => \A k \in ToSet(Types) : progress[s][m][k].applied = 0
=============================================================================
