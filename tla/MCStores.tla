------------------------------ MODULE MCStores ------------------------------
(***************************************************************************)
(* The components that keep what a store holds, each on instances of its   *)
(* own (see MCGoods: part names the component a behaviour is about).       *)
(***************************************************************************)
EXTENDS Integers, Sequences, FiniteSets

CONSTANTS Parts, s1, s2

\* Bags at the first store; costs that do not divide by the weights.
OneBag == [b \in {1} |-> [store |-> s1, weight |-> 3, cost |-> 4]]
TwoBags == [b \in {1, 2} |-> [store |-> s1, weight |-> b, cost |-> 3]]
NoGift == [b \in {} |-> [store |-> s1, weight |-> 0]]
OneGift == [b \in {3} |-> [store |-> s1, weight |-> 1]]
TwoKilos == [b \in {1} |-> [store |-> s1, weight |-> 2]]
TwoLoose == [b \in {1, 2} |-> [store |-> s1, weight |-> b]]

\* Goods sold by the kilo only; also by the piece, and a report that lacks the
\* weight of a piece (-1).  The in-memory server names the types by the report.
Kilos == {[kg |-> n, piece |-> 0] : n \in 0 .. 2}
KilosAndPieces ==
    Kilos \cup {[kg |-> 1, piece |-> 1], [kg |-> 0, piece |-> 1], [kg |-> 1, piece |-> -1]}
Reported(figures) == {[x \in {"sale_kg", "sale_piece"} |->
                          IF x = "sale_kg" THEN f.kg ELSE f.piece] : f \in figures}

Idle == "idle"

VARIABLE part      \* the component this behaviour is about, one of Parts

\* The bags of one product at the stores
VARIABLES bags, opened, touched, transfers, outbounds, sorted, bagProgress,
          bagMonth

\* The bags of the in-memory server
VARIABLES stores, serverBags, inventoryBagCosts, inventoryLedger,
          bagOpenings, sortedOut, storeOutbounds, storeTransfers

\* The sorted stock of one product
VARIABLES loose, lots, order, created, left, saleTransfers, snapshot,
          progress, credits, month

\* The sorted stock of the in-memory server
VARIABLES inventoryBags, sortedStocks, sortedSaleCredited,
          sortedSaleTransferredOutWeight, sortedSaleFirstCreditPeriod,
          saleSyncProgress, idosiStatisticsSnapshots, sortingHistory,
          sortedSaleTransfers, serverMonth, reply

bagVars == <<bags, opened, touched, transfers, outbounds, sorted,
             bagProgress, bagMonth>>
serverBagVars == <<stores, serverBags, inventoryBagCosts, inventoryLedger,
                   bagOpenings, sortedOut, storeOutbounds, storeTransfers>>
sortingVars == <<loose, lots, order, created, left, saleTransfers, snapshot,
                 progress, credits, month>>
serverSortingVars == <<inventoryBags, sortedStocks, sortedSaleCredited,
                       sortedSaleTransferredOutWeight,
                       sortedSaleFirstCreditPeriod, saleSyncProgress,
                       idosiStatisticsSnapshots, sortingHistory,
                       sortedSaleTransfers, serverMonth, reply>>
vars == <<part, bagVars, serverBagVars, sortingVars, serverSortingVars>>

-----------------------------------------------------------------------------
(* The bags of one product at the stores. *)

\* Two bags and one a partner brought, sold over two months.
SaleMonths == INSTANCE StoreBags WITH
    Stores <- {s1}, Delivered <- TwoBags, Partner <- OneGift,
    Transfers <- {}, Outbounds <- {}, LastMonth <- 2, MaxSold <- 2,
    progress <- bagProgress, month <- bagMonth

\* A bag that goes to another store.
BagMoves == INSTANCE StoreBags WITH
    Stores <- {s1, s2}, Delivered <- OneBag, Partner <- NoGift,
    Transfers <- {11}, Outbounds <- {}, LastMonth <- 1, MaxSold <- 2,
    progress <- bagProgress, month <- bagMonth

\* Two requests to send the bag away.
BagRequests == INSTANCE StoreBags WITH
    Stores <- {s1}, Delivered <- OneBag, Partner <- NoGift, Transfers <- {},
    Outbounds <- {1, 2}, LastMonth <- 1, MaxSold <- 2,
    progress <- bagProgress, month <- bagMonth

NoBags ==
    /\ bags = Idle /\ opened = Idle /\ touched = Idle /\ transfers = Idle
    /\ outbounds = Idle /\ sorted = Idle /\ bagProgress = Idle
    /\ bagMonth = Idle

BagsInit ==
    \/ part = "SaleMonths" /\ SaleMonths!Init
    \/ part = "BagMoves" /\ BagMoves!Init
    \/ part = "BagRequests" /\ BagRequests!Init
    \/ part \notin {"SaleMonths", "BagMoves", "BagRequests"} /\ NoBags

OnlyBags == UNCHANGED <<part, serverBagVars, sortingVars, serverSortingVars>>

SaleMonthsStep == part = "SaleMonths" /\ SaleMonths!Next /\ OnlyBags
BagMovesStep == part = "BagMoves" /\ BagMoves!Next /\ OnlyBags
BagRequestsStep == part = "BagRequests" /\ BagRequests!Next /\ OnlyBags

-----------------------------------------------------------------------------
(* The bags of the in-memory server. *)

\* A bag that goes to another store and on.
ServerMoves == INSTANCE MemoryBags WITH
    Stores <- {s1, s2}, Seeded <- OneBag, Partner <- NoGift,
    Transfers <- {11, 12}, Outbounds <- {}, inventoryBags <- serverBags

\* A request to send a bag away, and a bag a partner brought.
ServerReviews == INSTANCE MemoryBags WITH
    Stores <- {s1}, Seeded <- OneBag, Partner <- OneGift, Transfers <- {},
    Outbounds <- {21}, inventoryBags <- serverBags

NoServerBags ==
    /\ stores = Idle /\ serverBags = Idle /\ inventoryBagCosts = Idle
    /\ inventoryLedger = Idle /\ bagOpenings = Idle /\ sortedOut = Idle
    /\ storeOutbounds = Idle /\ storeTransfers = Idle

ServerBagsInit ==
    \/ part = "ServerMoves" /\ ServerMoves!Init
    \/ part = "ServerReviews" /\ ServerReviews!Init
    \/ part \notin {"ServerMoves", "ServerReviews"} /\ NoServerBags

OnlyServerBags == UNCHANGED <<part, bagVars, sortingVars, serverSortingVars>>

ServerMovesStep == part = "ServerMoves" /\ ServerMoves!Next /\ OnlyServerBags
ServerReviewsStep == part = "ServerReviews" /\ ServerReviews!Next /\ OnlyServerBags

-----------------------------------------------------------------------------
(* The sorted stock of one product. *)

\* Sorting over two months.
SortingMonths == INSTANCE StoreSorting WITH
    Stores <- {s1}, Loose <- TwoKilos, Transfers <- {}, LastMonth <- 2,
    Figures <- Kilos, MaxCredited <- 1, transfers <- saleTransfers

\* Two lots, sold by the kilo and by the piece.
SortingLots == INSTANCE StoreSorting WITH
    Stores <- {s1}, Loose <- TwoLoose, Transfers <- {}, LastMonth <- 1,
    Figures <- KilosAndPieces, MaxCredited <- 2, transfers <- saleTransfers

\* Sorted goods that go to another store.
SortingStores == INSTANCE StoreSorting WITH
    Stores <- {s1, s2}, Loose <- TwoKilos, Transfers <- {11}, LastMonth <- 1,
    Figures <- Kilos, MaxCredited <- 2, transfers <- saleTransfers

NoSorting ==
    /\ loose = Idle /\ lots = Idle /\ order = Idle /\ created = Idle
    /\ left = Idle /\ saleTransfers = Idle /\ snapshot = Idle
    /\ progress = Idle /\ credits = Idle /\ month = Idle

SortingInit ==
    \/ part = "SortingMonths" /\ SortingMonths!Init
    \/ part = "SortingLots" /\ SortingLots!Init
    \/ part = "SortingStores" /\ SortingStores!Init
    \/ part \notin {"SortingMonths", "SortingLots",
                    "SortingStores"} /\ NoSorting

OnlySorting == UNCHANGED <<part, bagVars, serverBagVars, serverSortingVars>>

SortingMonthsStep == part = "SortingMonths" /\ SortingMonths!Next /\ OnlySorting
SortingLotsStep == part = "SortingLots" /\ SortingLots!Next /\ OnlySorting
SortingStoresStep == part = "SortingStores" /\ SortingStores!Next /\ OnlySorting

-----------------------------------------------------------------------------
(* The sorted stock of the in-memory server. *)

\* Sorting over two months.
ServerMonths == INSTANCE MemorySorting WITH
    Stores <- {s1}, Loose <- TwoKilos, Transfers <- {}, LastMonth <- 2,
    Figures <- Reported(Kilos), MaxCredited <- 1, month <- serverMonth

\* Sold by the kilo and by the piece.
ServerPieces == INSTANCE MemorySorting WITH
    Stores <- {s1}, Loose <- TwoKilos, Transfers <- {}, LastMonth <- 1,
    Figures <- Reported(KilosAndPieces), MaxCredited <- 2,
    month <- serverMonth

\* Sorted goods that go to another store.
ServerStores == INSTANCE MemorySorting WITH
    Stores <- {s1, s2}, Loose <- TwoKilos, Transfers <- {11}, LastMonth <- 1,
    Figures <- Reported(Kilos), MaxCredited <- 2, month <- serverMonth

NoServerSorting ==
    /\ inventoryBags = Idle /\ sortedStocks = Idle
    /\ sortedSaleCredited = Idle /\ sortedSaleTransferredOutWeight = Idle
    /\ sortedSaleFirstCreditPeriod = Idle /\ saleSyncProgress = Idle
    /\ idosiStatisticsSnapshots = Idle /\ sortingHistory = Idle
    /\ sortedSaleTransfers = Idle /\ serverMonth = Idle /\ reply = Idle

ServerSortingInit ==
    \/ part = "ServerMonths" /\ ServerMonths!Init
    \/ part = "ServerPieces" /\ ServerPieces!Init
    \/ part = "ServerStores" /\ ServerStores!Init
    \/ part \notin {"ServerMonths", "ServerPieces",
                    "ServerStores"} /\ NoServerSorting

OnlyServerSorting == UNCHANGED <<part, bagVars, serverBagVars, sortingVars>>

ServerMonthsStep == part = "ServerMonths" /\ ServerMonths!Next /\ OnlyServerSorting
ServerPiecesStep == part = "ServerPieces" /\ ServerPieces!Next /\ OnlyServerSorting
ServerStoresStep == part = "ServerStores" /\ ServerStores!Next /\ OnlyServerSorting

-----------------------------------------------------------------------------

ASSUME StoresAssumption ==
    /\ SaleMonths!BagsAssumption
    /\ BagMoves!BagsAssumption
    /\ BagRequests!BagsAssumption
    /\ ServerMoves!MemoryBagsAssumption
    /\ ServerReviews!MemoryBagsAssumption
    /\ SortingMonths!SortingAssumption
    /\ SortingLots!SortingAssumption
    /\ SortingStores!SortingAssumption
    /\ ServerMonths!MemorySortingAssumption
    /\ ServerPieces!MemorySortingAssumption
    /\ ServerStores!MemorySortingAssumption

Init ==
    /\ part \in Parts
    /\ BagsInit
    /\ ServerBagsInit
    /\ SortingInit
    /\ ServerSortingInit

Next ==
    \/ SaleMonthsStep
    \/ BagMovesStep
    \/ BagRequestsStep
    \/ ServerMovesStep
    \/ ServerReviewsStep
    \/ SortingMonthsStep
    \/ SortingLotsStep
    \/ SortingStoresStep
    \/ ServerMonthsStep
    \/ ServerPiecesStep
    \/ ServerStoresStep

Spec == Init /\ [][Next]_vars

-----------------------------------------------------------------------------

\* Weight and cost of the bags are neither lost nor made over openings, moves,
\* requests and sales, what the till reported is what the opened bags lost, and
\* a sealed bag is whole (StoreBags, MemoryBags).
BagsAccounted ==
    /\ part = "SaleMonths" =>
          /\ SaleMonths!TypeOK
          /\ SaleMonths!WeightAccounted
          /\ SaleMonths!AppliedIsConsumed
          /\ SaleMonths!NeverOvercharged
          /\ SaleMonths!SealedIsWhole
    /\ part = "BagMoves" =>
          /\ BagMoves!TypeOK
          /\ BagMoves!WeightAccounted
          /\ BagMoves!CostConserved
          /\ BagMoves!AppliedIsConsumed
          /\ BagMoves!NeverOvercharged
          /\ BagMoves!SealedIsWhole
    /\ part = "BagRequests" =>
          /\ BagRequests!TypeOK
          /\ BagRequests!WeightAccounted
          /\ BagRequests!AppliedIsConsumed
          /\ BagRequests!SealedIsWhole
    /\ part = "ServerMoves" =>
          /\ ServerMoves!TypeOK
          /\ ServerMoves!CostConserved
          /\ ServerMoves!CostFollowsGoods
          /\ ServerMoves!SealedIsWhole
    /\ part = "ServerReviews" =>
          /\ ServerReviews!TypeOK
          /\ ServerReviews!WeightAccounted
          /\ ServerReviews!LedgerChains

\* Sorted weight is neither lost nor made, the till never takes more than it
\* reported, a correction has room to be put back and sales stay outstanding
\* only beside empty lots (StoreSorting, MemorySorting).
SortingAccounted ==
    /\ part = "SortingMonths" =>
          /\ SortingMonths!TypeOK
          /\ SortingMonths!StockAccounted
          /\ SortingMonths!CorrectionHasRoom
          /\ SortingMonths!NeverOvercharged
          /\ SortingMonths!OutstandingOnlyWhenEmpty
    /\ part = "SortingLots" =>
          /\ SortingLots!TypeOK
          /\ SortingLots!StockAccounted
          /\ SortingLots!CorrectionHasRoom
          /\ SortingLots!NeverOvercharged
          /\ SortingLots!OutstandingOnlyWhenEmpty
    /\ part = "SortingStores" =>
          /\ SortingStores!TypeOK
          /\ SortingStores!StockAccounted
          /\ SortingStores!CorrectionHasRoom
          /\ SortingStores!NeverOvercharged
          /\ SortingStores!OutstandingOnlyWhenEmpty
    /\ part = "ServerMonths" =>
          /\ ServerMonths!TypeOK
          /\ ServerMonths!CorrectionHasRoom
          /\ ServerMonths!ChargedAsReported
          /\ ServerMonths!PastMonthsNotCharged
    /\ part = "ServerPieces" =>
          /\ ServerPieces!TypeOK
          /\ ServerPieces!CorrectionHasRoom
          /\ ServerPieces!ChargedAsReported
          /\ ServerPieces!PastMonthsNotCharged
    /\ part = "ServerStores" =>
          /\ ServerStores!StockAccounted
          /\ ServerStores!SaleBreakdownIsSold
          /\ ServerStores!CorrectionHasRoom

=============================================================================
