----------------------------- MODULE ReadLists -----------------------------
(***************************************************************************)
(* What a reader is shown.  Every list of the API is a GET route with its  *)
(* roles, a repository method that turns the reader into a set of stores,  *)
(* and a query for one page: a count and a page, read in one snapshot, one *)
(* after the other or side by side.  The web asks for page 1, learns how   *)
(* many pages there are and asks for the others, a few at a time.  Between *)
(* any two of these steps other people work: rows are inserted and change  *)
(* their status, the Admin moves an account to other stores or closes one. *)
(* Which row is written when is left free; that is what the other modules  *)
(* are about.                                                              *)
(***************************************************************************)
EXTENDS Naturals, Sequences, FiniteSets, FiniteSetsExt

CONSTANTS
    Lists,          \* the lists this instance looks at
    Readers,        \* the roles of the readers
    Stores,
    Retail,         \* the stores of the retail kind; the others are wholesale
    Home,           \* the store of a STORE account
    NamedStores,    \* stores a request may name, besides naming none
    Filtering,      \* whether a request may ask for one status
    Placement,      \* possible <<store, other store>> of a row
    StartRows,      \* number of rows at the start
    MaxRows,
    PageSize,
    FetchSize,      \* the largest page a merged list asks a store for
    InFlight,       \* page requests of one list under way at once
    MaxChanges      \* bound on the changes made while the list is read

VARIABLES
    list,           \* the list that is read
    role,           \* the role of the reader
    named,          \* the store the requests name, as a set
    filter,         \* the status they ask for, as a set
    assigned,       \* the stores assigned to an HTKD account
    open,           \* the stores that are not closed
    past,           \* the rows, at the start and after each change
    pages           \* the request of every page

vars == <<list, role, named, filter, assigned, open, past, pages>>

Everyone == {"ADMIN", "HTKD", "STORE", "WHOLESALE"}
Managers == {"ADMIN", "HTKD"}
Admins == {"ADMIN"}
Sellers == {"ADMIN", "HTKD", "STORE"}

----------------------------------------------------------------------------
(***************************************************************************)
(* The words of a status: what a request may ask for, with the stored      *)
(* statuses it selects, and what a stored status is shown as.              *)
(***************************************************************************)
NoStatus ==
    [asked |-> [any |-> {"any"}],
     shown |-> [any |-> "any"]]

RequestsAsked ==
    [SUBMITTED |-> {"draft", "submitted"}, CANCELLED |-> {"cancelled"},
     MERGED |-> {"merged", "partially_allocated", "allocated", "waitlisted"}]

orderStatus ==
    [draft |-> "SUBMITTED", submitted |-> "SUBMITTED", merged |-> "MERGED",
     partially_allocated |-> "MERGED", allocated |-> "MERGED",
     waitlisted |-> "MERGED", cancelled |-> "CANCELLED"]

Order == [asked |-> RequestsAsked, shown |-> orderStatus]

HistoryAsked ==
    [SUBMITTED |-> {"submitted"}, CANCELLED |-> {"cancelled"},
     MERGED |-> {"merged", "partially_allocated", "allocated", "waitlisted"}]

orderHistoryStatus ==
    [submitted |-> "SUBMITTED", merged |-> "MERGED", allocated |-> "ALLOCATED",
     partially_allocated |-> "PARTIALLY_ALLOCATED",
     waitlisted |-> "WAITLISTED", cancelled |-> "CANCELLED"]

History == [asked |-> HistoryAsked, shown |-> orderHistoryStatus]

databaseOrderSessionStatus ==
    [SCHEDULED |-> {"draft"}, OPEN |-> {"open"}, CLOSED |-> {"closed"},
     ALLOCATING |-> {"allocating"}, ALLOCATED |-> {"completed"},
     CANCELLED |-> {"cancelled"}]

orderSessionStatus ==
    [draft |-> "SCHEDULED", open |-> "OPEN", closed |-> "CLOSED",
     allocating |-> "ALLOCATING", completed |-> "ALLOCATED",
     cancelled |-> "CANCELLED"]

Session == [asked |-> databaseOrderSessionStatus, shown |-> orderSessionStatus]

Result ==
    [asked |-> [ALLOCATED |-> {"allocated"}, WAITLISTED |-> {"waitlisted"},
                PARTIALLY_ALLOCATED |-> {"partially_allocated"}],
     shown |-> [allocated |-> "ALLOCATED", waitlisted |-> "WAITLISTED",
                partially_allocated |-> "PARTIALLY_ALLOCATED"]]

databaseWarehouseOutboundStatus ==
    [RESERVED |-> {"reserved"}, DISPATCHED |-> {"dispatched"},
     PARTIALLY_RECEIVED |-> {"partially_received"}, RECEIVED |-> {"received"},
     COMPLETED |-> {"completed"}, CANCELLED |-> {"cancelled"}]

warehouseOutboundStatus ==
    [reserved |-> "RESERVED", dispatched |-> "DISPATCHED",
     partially_received |-> "PARTIALLY_RECEIVED", received |-> "RECEIVED",
     completed |-> "COMPLETED", cancelled |-> "CANCELLED"]

Outbound == [asked |-> databaseWarehouseOutboundStatus, shown |-> warehouseOutboundStatus]

databaseReceiptStatus ==
    [DRAFT |-> {"draft"}, PENDING_HTKD |-> {"pending_htkd"},
     RETURNED |-> {"returned"}, FINALIZED |-> {"finalized"}]

receiptStatus ==
    [draft |-> "DRAFT", pending_htkd |-> "PENDING_HTKD",
     returned |-> "RETURNED", finalized |-> "FINALIZED"]

Receipt == [asked |-> databaseReceiptStatus, shown |-> receiptStatus]

Inbound ==
    [asked |-> [RECEIVED |-> {"draft"}, COST_PENDING |-> {"submitted"},
                COST_CONFIRMED |-> {"confirmed"}, CANCELLED |-> {"cancelled"}],
     shown |-> [draft |-> "RECEIVED", submitted |-> "COST_PENDING",
                confirmed |-> "COST_CONFIRMED", cancelled |-> "CANCELLED"]]

databaseWaitTicketFilter ==
    [WAITING |-> {"active"}, OFFERED |-> {"offered"},
     PARTIALLY_FULFILLED |-> {"part"}, FULFILLED |-> {"fulfilled"},
     CANCELLED |-> {"cancelled"}, EXPIRED |-> {"expired"}]

effectiveWaitTicketStatus ==
    [active |-> "WAITING", offered |-> "OFFERED", part |-> "PARTIALLY_FULFILLED",
     fulfilled |-> "FULFILLED", cancelled |-> "CANCELLED", expired |-> "EXPIRED"]

Ticket == [asked |-> databaseWaitTicketFilter, shown |-> effectiveWaitTicketStatus]

priorityOfferStatusCondition ==
    [PENDING |-> {"offered"}, ACCEPTED |-> {"accepted"},
     DECLINED |-> {"declined"}, EXPIRED |-> {"expired", "overdue"},
     CANCELLED |-> {"cancelled"}]

contractPriorityOfferStatus ==
    [offered |-> "PENDING", overdue |-> "EXPIRED", accepted |-> "ACCEPTED",
     declined |-> "DECLINED", expired |-> "EXPIRED", cancelled |-> "CANCELLED"]

Offer == [asked |-> priorityOfferStatusCondition, shown |-> contractPriorityOfferStatus]

Document ==
    [asked |-> [CURRENT |-> {"current"}, MERGED |-> {"merged"},
                ROLLED_OVER |-> {"rolled_over"}, COMPLETED |-> {"completed"},
                CANCELLED |-> {"cancelled"}],
     shown |-> [current |-> "CURRENT", merged |-> "MERGED", rolled_over |-> "ROLLED_OVER",
                completed |-> "COMPLETED", cancelled |-> "CANCELLED"]]

Bag ==
    [asked |-> [IN_TRANSIT |-> {"in_transit"}, AVAILABLE |-> {"available"},
                OPEN |-> {"opened"}, EMPTY |-> {"depleted"}, QUARANTINED |-> {"quarantined"},
                RETURNED |-> {"returned"}, LOST |-> {"lost"}],
     shown |-> [in_transit |-> "IN_TRANSIT", available |-> "AVAILABLE", opened |-> "OPEN",
                depleted |-> "EMPTY", quarantined |-> "QUARANTINED",
                returned |-> "RETURNED", lost |-> "LOST"]]

Shortage ==
    [asked |-> [PENDING |-> {"pending"}, LOST |-> {"lost"},
                RETURNED_TO_STOCK |-> {"returned_to_stock"}],
     shown |-> [pending |-> "PENDING", lost |-> "LOST",
                returned_to_stock |-> "RETURNED_TO_STOCK"]]

databaseOutboundStatus ==
    [PENDING |-> {"pending"}, APPROVED |-> {"approved"},
     REJECTED |-> {"rejected"}]

storeOutboundStatus ==
    [pending |-> "PENDING", approved |-> "APPROVED", rejected |-> "REJECTED"]

Sale == [asked |-> databaseOutboundStatus, shown |-> storeOutboundStatus]

databaseTransferStatus ==
    [IN_TRANSIT |-> {"in_transit"}, RECEIVED |-> {"received"},
     CANCELLED |-> {"cancelled"}]

storeTransferStatus ==
    [in_transit |-> "IN_TRANSIT", received |-> "RECEIVED",
     cancelled |-> "CANCELLED"]

Transfer == [asked |-> databaseTransferStatus, shown |-> storeTransferStatus]

Adjustment ==
    [asked |-> [PENDING_HTKD |-> {"pending_htkd"}, NEEDS_INFO |-> {"needs_info"},
                PENDING_ADMIN |-> {"pending_admin"}, APPLIED |-> {"applied"},
                REJECTED |-> {"rejected"}, CANCELLED |-> {"cancelled"}],
     shown |-> [pending_htkd |-> "PENDING_HTKD", needs_info |-> "NEEDS_INFO",
                pending_admin |-> "PENDING_ADMIN", applied |-> "APPLIED",
                rejected |-> "REJECTED", cancelled |-> "CANCELLED"]]

Return ==
    [asked |-> [PENDING_HANDOVER |-> {"pending_handover"}, IN_TRANSIT |-> {"in_transit"},
                RECEIVED |-> {"received"}, DISPUTED |-> {"disputed"}, LOST |-> {"lost"},
                CANCELLED |-> {"cancelled"}],
     shown |-> [pending_handover |-> "PENDING_HANDOVER", in_transit |-> "IN_TRANSIT",
                received |-> "RECEIVED", disputed |-> "DISPUTED", lost |-> "LOST",
                cancelled |-> "CANCELLED"]]

Decision ==
    [asked |-> [PENDING |-> {"pending"}, ACCEPTED |-> {"accepted"}, REJECTED |-> {"rejected"},
                WAITLISTED |-> {"waitlisted"}, CANCELLED |-> {"cancelled"}],
     shown |-> [pending |-> "PENDING", accepted |-> "ACCEPTED", rejected |-> "REJECTED",
                waitlisted |-> "WAITLISTED", cancelled |-> "CANCELLED"]]

databaseDecisionStatusFilter ==
    [PENDING |-> {"pending"}, ACCEPTED |-> {"accepted"},
     REJECTED |-> {"rejected", "waitlisted", "cancelled"}]

oldClientStatus ==
    [pending |-> "PENDING", accepted |-> "ACCEPTED", rejected |-> "REJECTED",
     waitlisted |-> "REJECTED", cancelled |-> "REJECTED"]

OldDecision == [asked |-> databaseDecisionStatusFilter, shown |-> oldClientStatus]

historyStatusFilter ==
    [ORDERED |-> {"ordered"}, NOT_ORDERED |-> {"not_ordered"},
     CANCELLED |-> {"cancelled"}]

reshareHistoryStatus ==
    [ordered |-> "ORDERED", not_ordered |-> "NOT_ORDERED",
     cancelled |-> "CANCELLED"]

Reshare == [asked |-> historyStatusFilter, shown |-> reshareHistoryStatus]

databaseAccountStatus ==
    [ACTIVE |-> {"active"}, LOCKED |-> {"locked"}, DISABLED |-> {"disabled"}]

accountStatusDto ==
    [active |-> "ACTIVE", locked |-> "LOCKED", disabled |-> "DISABLED"]

Account == [asked |-> databaseAccountStatus, shown |-> accountStatusDto]

statusAsked ==
    [ACTIVE |-> {"is_active"}, INACTIVE |-> {"not_active"}]

statusShown ==
    [is_active |-> "ACTIVE", not_active |-> "INACTIVE"]

Active == [asked |-> statusAsked, shown |-> statusShown]

Stored ==
    [asked |-> [NEW |-> {"NEW"}, DONE |-> {"DONE"}],
     shown |-> [NEW |-> "NEW", DONE |-> "DONE"]]

----------------------------------------------------------------------------
(***************************************************************************)
(* The lists.  Rows says how the count and the page are read ("snapshot",  *)
(* "sequential": the count first, "parallel"), in which order the rows     *)
(* come, and whether the details shown are read "with" the page or "again" *)
(* after it.  List adds the roles let in, the rule that gives the stores,  *)
(* the words of the status and whether the web reads every page.           *)
(***************************************************************************)
Rows(read, order, detail) == [read |-> read, order |-> order, detail |-> detail]

List(roles, scope, rows, words, every) ==
    [roles |-> roles, scope |-> scope, rows |-> rows, words |-> words,
     every |-> every]

EveryPage == TRUE
OnePage == FALSE

Accounts ==
    List(Admins, "global", Rows("sequential", "ascending", "with"), Account, OnePage)
MemoryAccounts ==
    List(Admins, "global", Rows("snapshot", "ascending", "with"), Stored, OnePage)

AuditLogs ==
    List(Admins, "global", Rows("sequential", "descending", "with"), NoStatus, OnePage)
MemoryAuditLogs ==
    List(Admins, "global", Rows("snapshot", "descending", "with"), NoStatus, OnePage)

ProductsReader == EveryPage
Products ==
    List(Everyone, "global", Rows("snapshot", "ascending", "with"), Active, ProductsReader)
MemoryProducts ==
    List(Everyone, "global", Rows("snapshot", "ascending", "with"), Stored, ProductsReader)

OrderSessionsReader == EveryPage
OrderSessions ==
    List(Everyone, "global", Rows("sequential", "descending", "with"), Session, OrderSessionsReader)
MemoryOrderSessions ==
    List(Everyone, "global", Rows("snapshot", "descending", "with"), Stored, OrderSessionsReader)

OrderHistoryReader == OnePage
OrderHistoryRows == Rows("snapshot", "descending", "with")
OrderHistory ==
    List(Everyone, "assigned", OrderHistoryRows, History, OrderHistoryReader)
MemoryOrderHistory ==
    List(Everyone, "assigned", Rows("snapshot", "descending", "with"), Stored, OrderHistoryReader)

SessionDocumentsReader == OnePage
SessionDocumentsRows == Rows("snapshot", "descending", "with")
SessionDocuments ==
    List(Everyone, "assigned", SessionDocumentsRows, NoStatus, SessionDocumentsReader)

AllocationDecisionsRows == Rows("snapshot", "descending", "with")
AllocationDecisions ==
    List(Everyone, "assigned", AllocationDecisionsRows, Decision, OnePage)
MemoryAllocationDecisions ==
    List(Everyone, "assigned", Rows("snapshot", "descending", "with"), OldDecision, OnePage)
OlderClientDecisions ==
    List(Everyone, "assigned", AllocationDecisionsRows, OldDecision, OnePage)

ReshareOrdersRows == Rows("snapshot", "descending", "with")
ReshareOrders ==
    List(Everyone, "reshare", ReshareOrdersRows, Reshare, OnePage)
MemoryReshareOrders ==
    List(Everyone, "reshare", Rows("snapshot", "descending", "with"), Stored, OnePage)

AllocationsReader == OnePage
AllocationsRows == Rows("snapshot", "descending", "with")
Allocations ==
    List(Everyone, "assigned", AllocationsRows, Result, AllocationsReader)
MemoryAllocations ==
    List(Everyone, "assigned", Rows("snapshot", "descending", "with"), Stored, AllocationsReader)

Conversions ==
    List(Everyone, "global", Rows("snapshot", "ascending", "with"), NoStatus, EveryPage)
MemoryConversions ==
    List(Everyone, "global", Rows("snapshot", "ascending", "with"), NoStatus, EveryPage)

WarehouseBalances ==
    List(Managers, "global", Rows("snapshot", "ascending", "with"), NoStatus, OnePage)
MemoryWarehouseBalances ==
    List(Managers, "global", Rows("snapshot", "ascending", "with"), NoStatus, OnePage)

WarehouseInventoryReader == EveryPage
WarehouseInventory ==
    List(Everyone, "global", Rows("snapshot", "ascending", "with"), NoStatus, WarehouseInventoryReader)
MemoryWarehouseInventory ==
    List(Everyone, "global", Rows("snapshot", "ascending", "with"), NoStatus, WarehouseInventoryReader)

StockAdjustmentsRows == Rows("snapshot", "descending", "with")
StockAdjustments ==
    List(Admins, "global", StockAdjustmentsRows, NoStatus, OnePage)
MemoryStockAdjustments ==
    List(Admins, "global", Rows("snapshot", "descending", "with"), NoStatus, OnePage)

ShortageChecksRows == Rows("parallel", "descending", "with")
ShortageChecks ==
    List(Admins, "global", ShortageChecksRows, Shortage, OnePage)
MemoryShortageChecks ==
    List(Admins, "global", Rows("snapshot", "descending", "with"), Stored, OnePage)

ObservationHistoryRows == Rows("parallel", "descending", "with")
ObservationHistory ==
    List(Managers, "global", ObservationHistoryRows, NoStatus, OnePage)

CommitmentsRows == Rows("snapshot", "ascending", "with")
Commitments ==
    List(Everyone, "reshare", CommitmentsRows, NoStatus, OnePage)

SupplierOrdersRows == Rows("parallel", "descending", "with")
SupplierOrders ==
    List(Everyone, "reshare", SupplierOrdersRows, NoStatus, OnePage)

InboundReceiptsReader == OnePage
InboundReceipts ==
    List(Managers, "global", Rows("sequential", "descending", "again"), Inbound, InboundReceiptsReader)
MemoryInboundReceipts ==
    List(Managers, "global", Rows("snapshot", "descending", "with"), Stored, InboundReceiptsReader)

StoreListReader == EveryPage
StoreList ==
    List(Everyone, "assigned", Rows("snapshot", "ascending", "with"), Active, StoreListReader)
MemoryStoreList ==
    List(Everyone, "assigned", Rows("snapshot", "ascending", "with"), Stored, StoreListReader)

StoreGroups ==
    List(Admins, "global", Rows("sequential", "ascending", "with"), Active, OnePage)
MemoryStoreGroups ==
    List(Admins, "global", Rows("snapshot", "ascending", "with"), Stored, OnePage)

OrderRequestsReader == EveryPage
OrderRequests ==
    List(Everyone, "assigned", Rows("sequential", "ascending", "again"), Order, OrderRequestsReader)
MemoryOrderRequests ==
    List(Everyone, "assigned", Rows("snapshot", "ascending", "with"), Stored, OrderRequestsReader)

WarehouseOutboundsRows == Rows("parallel", "descending", "with")
WarehouseOutbounds ==
    List(Everyone, "assigned", WarehouseOutboundsRows, Outbound, OnePage)
MemoryWarehouseOutbounds ==
    List(Everyone, "assigned", Rows("snapshot", "descending", "with"), Stored, OnePage)

ReceiptSummaries ==
    List(Everyone, "assigned", Rows("snapshot", "descending", "with"), Receipt, OnePage)
MemoryReceiptSummaries ==
    List(Everyone, "assigned", Rows("snapshot", "descending", "with"), Stored, OnePage)

ReceiptsReader == EveryPage
Receipts ==
    List(Everyone, "assigned", Rows("sequential", "descending", "again"), Receipt, ReceiptsReader)
MemoryReceipts ==
    List(Everyone, "assigned", Rows("snapshot", "descending", "with"), Stored, ReceiptsReader)

ReceiptSourcesRows == Rows("parallel", "descending", "with")
ReceiptSources ==
    List(Everyone, "merged", ReceiptSourcesRows, NoStatus, OnePage)
MemoryReceiptSources ==
    List(Everyone, "assigned", Rows("snapshot", "descending", "with"), NoStatus, OnePage)

PriorityOrdersRows == Rows("snapshot", "descending", "with")
PriorityOrders ==
    List(Everyone, "emergency", PriorityOrdersRows, NoStatus, OnePage)

HeldAllocationsReader == OnePage
HeldAllocationsRows == Rows("snapshot", "ascending", "with")
HeldAllocations ==
    List(Everyone, "assigned", HeldAllocationsRows, NoStatus, HeldAllocationsReader)

ReceiptAdjustmentsReader == EveryPage
ReceiptAdjustmentsRows == Rows("parallel", "touched", "with")
ReceiptAdjustments ==
    List(Everyone, "assigned", ReceiptAdjustmentsRows, Adjustment, ReceiptAdjustmentsReader)

ReceiptReturnsReader == EveryPage
ReceiptReturnsRows == Rows("parallel", "descending", "with")
ReceiptReturns ==
    List(Everyone, "assigned", ReceiptReturnsRows, Return, ReceiptReturnsReader)

BagOpeningsReader == OnePage
BagOpeningsRows == Rows("parallel", "descending", "with")
BagOpenings ==
    List(Sellers, "assigned", BagOpeningsRows, NoStatus, BagOpeningsReader)
MemoryBagOpenings ==
    List(Sellers, "assigned", Rows("snapshot", "descending", "with"), NoStatus, BagOpeningsReader)

InventoryBagsReader == EveryPage
InventoryBagsRows == Rows("parallel", "descending", "with")
InventoryBags ==
    List(Everyone, "assigned", InventoryBagsRows, Bag, InventoryBagsReader)
MemoryInventoryBags ==
    List(Everyone, "assigned", Rows("snapshot", "descending", "with"), Stored, InventoryBagsReader)

BagLedgerReader == EveryPage
BagLedgerRows == Rows("parallel", "descending", "with")
BagLedger ==
    List(Everyone, "assigned", BagLedgerRows, NoStatus, BagLedgerReader)
MemoryBagLedger ==
    List(Everyone, "assigned", Rows("snapshot", "descending", "with"), NoStatus, BagLedgerReader)

PartnerInboundsReader == EveryPage
PartnerInboundsRows == Rows("sequential", "descending", "again")
PartnerInbounds ==
    List(Everyone, "assigned", PartnerInboundsRows, NoStatus, PartnerInboundsReader)
MemoryPartnerInbounds ==
    List(Everyone, "assigned", Rows("snapshot", "descending", "with"), NoStatus, PartnerInboundsReader)

StoreOutboundsReader == EveryPage
StoreOutboundsRows == Rows("parallel", "descending", "with")
StoreOutbounds ==
    List(Everyone, "merged", StoreOutboundsRows, Sale, StoreOutboundsReader)
MemoryStoreOutbounds ==
    List(Everyone, "assigned", Rows("snapshot", "descending", "with"), Stored, StoreOutboundsReader)

SortedStocksReader == OnePage
SortedStocksRows == Rows("snapshot", "ascending", "with")
SortedStocks ==
    List(Everyone, "assigned", SortedStocksRows, NoStatus, SortedStocksReader)
MemorySortedStocks ==
    List(Everyone, "assigned", Rows("snapshot", "ascending", "with"), NoStatus, SortedStocksReader)

NormalSalePendingReader == OnePage
NormalSalePendingRows == Rows("snapshot", "ascending", "with")
NormalSalePending ==
    List(Everyone, "pending", NormalSalePendingRows, NoStatus, NormalSalePendingReader)

SaleBreakdownReader == OnePage
SaleBreakdownRows == Rows("snapshot", "ascending", "with")
SaleBreakdown ==
    List(Everyone, "retail", SaleBreakdownRows, NoStatus, SaleBreakdownReader)
MemorySaleBreakdown ==
    List(Everyone, "assigned", Rows("snapshot", "ascending", "with"), NoStatus, SaleBreakdownReader)

CharityExportsReader == OnePage
CharityExportsRows == Rows("snapshot", "descending", "with")
CharityExports ==
    List(Everyone, "retail", CharityExportsRows, NoStatus, CharityExportsReader)
MemoryCharityExports ==
    List(Everyone, "assigned", Rows("snapshot", "descending", "with"), NoStatus, CharityExportsReader)

SortingHistoryReader == OnePage
SortingHistoryRows == Rows("parallel", "descending", "with")
SortingHistory ==
    List(Everyone, "retail", SortingHistoryRows, NoStatus, SortingHistoryReader)
MemorySortingHistory ==
    List(Everyone, "assigned", Rows("snapshot", "descending", "with"), NoStatus, SortingHistoryReader)

SortedSaleTransfersRows == Rows("snapshot", "descending", "with")
SortedSaleTransfers ==
    List(Everyone, "retailSided", SortedSaleTransfersRows, NoStatus, OnePage)
MemorySortedSaleTransfers ==
    List(Everyone, "sided", Rows("snapshot", "descending", "with"), NoStatus, OnePage)

StoreTransfersRows == Rows("parallel", "descending", "with")
StoreTransfers ==
    List(Everyone, "sided", StoreTransfersRows, Transfer, OnePage)
MemoryStoreTransfers ==
    List(Everyone, "sided", Rows("snapshot", "descending", "with"), Stored, OnePage)

WaitTicketsReader == EveryPage
WaitTicketsRows == Rows("parallel", "descending", "again")
WaitTickets ==
    List(Everyone, "live", WaitTicketsRows, Ticket, WaitTicketsReader)
MemoryWaitTickets ==
    List(Everyone, "assigned", Rows("snapshot", "descending", "with"), Stored, WaitTicketsReader)

WaitDocumentsReader == OnePage
WaitDocumentsRows == Rows("snapshot", "ascending", "with")
WaitDocuments ==
    List(Everyone, "live", WaitDocumentsRows, Document, WaitDocumentsReader)
MemoryWaitDocuments ==
    List(Everyone, "assigned", Rows("snapshot", "ascending", "with"), Stored, WaitDocumentsReader)

PriorityOffersReader == EveryPage
PriorityOffersRows == Rows("parallel", "descending", "with")
PriorityOffers ==
    List(Everyone, "live", PriorityOffersRows, Offer, PriorityOffersReader)
MemoryPriorityOffers ==
    List(Everyone, "assigned", Rows("snapshot", "descending", "with"), Stored, PriorityOffersReader)

(* Every list of the API, on the database and in memory. *)
AllLists ==
    {Accounts, MemoryAccounts, AuditLogs, MemoryAuditLogs, Products,
     MemoryProducts, OrderSessions, MemoryOrderSessions, OrderHistory,
     MemoryOrderHistory, SessionDocuments, AllocationDecisions,
     MemoryAllocationDecisions, OlderClientDecisions, ReshareOrders,
     MemoryReshareOrders, Allocations, MemoryAllocations, Conversions,
     MemoryConversions, WarehouseBalances, MemoryWarehouseBalances,
     WarehouseInventory, MemoryWarehouseInventory, StockAdjustments,
     MemoryStockAdjustments, ShortageChecks, MemoryShortageChecks,
     ObservationHistory, Commitments, SupplierOrders, InboundReceipts,
     MemoryInboundReceipts, StoreList, MemoryStoreList, StoreGroups,
     MemoryStoreGroups, OrderRequests, MemoryOrderRequests,
     WarehouseOutbounds, MemoryWarehouseOutbounds, ReceiptSummaries,
     MemoryReceiptSummaries, Receipts, MemoryReceipts, ReceiptSources,
     MemoryReceiptSources, PriorityOrders, HeldAllocations,
     ReceiptAdjustments, ReceiptReturns, BagOpenings, MemoryBagOpenings,
     InventoryBags, MemoryInventoryBags, BagLedger, MemoryBagLedger,
     PartnerInbounds, MemoryPartnerInbounds, StoreOutbounds,
     MemoryStoreOutbounds, SortedStocks, MemorySortedStocks,
     NormalSalePending, SaleBreakdown, MemorySaleBreakdown, CharityExports,
     MemoryCharityExports, SortingHistory, MemorySortingHistory,
     SortedSaleTransfers, MemorySortedSaleTransfers, StoreTransfers,
     MemoryStoreTransfers, WaitTickets, MemoryWaitTickets, WaitDocuments,
     MemoryWaitDocuments, PriorityOffers, MemoryPriorityOffers}

----------------------------------------------------------------------------
Slots == 1..MaxRows

rows == past[Len(past)].rows

Words == DOMAIN list.words.asked
Statuses == DOMAIN list.words.shown
StartStatuses == IF Filtering THEN Statuses ELSE {CHOOSE s \in Statuses : TRUE}

NoPart == [counted |-> FALSE, count |-> 0, entries |-> {}, next |-> 1, ended |-> FALSE]
Idle == [at |-> "idle", scope |-> {}, entitled |-> {}, since |-> 0,
         parts |-> <<>>, total |-> 0, entries |-> {}]

(***************************************************************************)
(* The stores of the reader's session, as authenticate reads them.         *)
(***************************************************************************)
PrincipalStores ==
    CASE role = "ADMIN" -> Stores
      [] role = "STORE" -> {Home}
      [] role = "HTKD" -> assigned
      [] role = "WHOLESALE" -> (Stores \ Retail) \cap open

RetailScope ==
    CASE role = "STORE" -> {Home}
      [] role = "HTKD" -> assigned
      [] OTHER -> Retail

(* The stores read from the account once more, inside the query. *)
AccessibleStores == IF role = "ADMIN" THEN Stores ELSE PrincipalStores \cap open

EmergencyScope ==
    CASE role \in Managers -> Stores
      [] role = "STORE" -> {Home}
      [] OTHER -> (Stores \ Retail) \cap open

ReshareScope == IF role \in Managers THEN Stores ELSE PrincipalStores

(***************************************************************************)
(* The stores a request may name, and the stores it is answered for.       *)
(***************************************************************************)
Nameable ==
    CASE list.scope = "reshare" -> ReshareScope
      [] list.scope = "emergency" -> EmergencyScope
      [] list.scope = "live" -> AccessibleStores
      [] OTHER -> PrincipalStores

Scope ==
    CASE list.scope = "global" -> Stores
      [] list.scope = "retailSided" -> RetailScope
      [] list.scope = "pending" -> IF named = {} THEN RetailScope ELSE RetailScope \cap named
      [] named # {} -> named
      [] list.scope = "retail" -> RetailScope
      [] OTHER -> Nameable

ReadsAccountAgain == list.scope \in {"live", "emergency"}

(* A list of several assigned stores is put together from one list per store. *)
Merged == /\ list.scope = "merged"
          /\ role \in {"HTKD", "WHOLESALE"}
          /\ named = {}

PartsOf(scope) ==
    [s \in IF Merged THEN {{x} : x \in scope} ELSE {scope} |-> NoPart]

(***************************************************************************)
(* One query.                                                              *)
(***************************************************************************)
TwoSided == list.scope \in {"sided", "retailSided"}

InScope(r, stores) == r.store \in stores \/ (TwoSided /\ r.to \in stores)

Selected(r) == filter = {} \/ \E f \in filter : r.status \in list.words.asked[f]

Chosen(all, stores) == {r \in all : InScope(r, stores) /\ Selected(r)}

Before(r, q) ==
    CASE list.rows.order = "ascending" -> r.id < q.id
      [] list.rows.order = "descending" -> r.id > q.id
      [] list.rows.order = "touched" ->
            r.touched > q.touched \/ (r.touched = q.touched /\ r.id > q.id)

slicePage(S, n, size) ==
    {r \in S : Cardinality({q \in S : Before(q, r)}) \in (n - 1) * size .. n * size - 1}

TotalPages(total) == (total + PageSize - 1) \div PageSize

FetchPageSize(p) == IF Merged THEN Min({FetchSize, p * PageSize}) ELSE PageSize

(* Mutant of Needed: as many rows as the page holds are enough, whichever page. *)
FirstPageNeeded(part, p) == Min({part.count, PageSize})

Needed(part, p) == Min({part.count, p * PageSize})

Entries(S, k) == {[row |-> r, fetch |-> k] : r \in S}

(* All of the stores' rows sorted together; a row fetched twice stays twice. *)
SliceEntries(E, p) ==
    {e \in E : Cardinality({d \in E : \/ Before(d.row, e.row)
                                      \/ d.row.id = e.row.id /\ d.fetch < e.fetch})
                  \in (p - 1) * PageSize .. p * PageSize - 1}

Again(e) == [e EXCEPT !.row = CHOOSE r \in rows : r.id = e.row.id]

----------------------------------------------------------------------------
Init ==
    /\ list \in Lists
    /\ role \in Readers
    /\ named \in {{}} \cup (IF list.scope \in {"global", "retailSided"} THEN {}
                            ELSE {{s} : s \in NamedStores})
    /\ filter \in {{}} \cup (IF Filtering THEN {{w} : w \in Words} ELSE {})
    /\ assigned \in IF role = "HTKD" THEN SUBSET Stores ELSE {{}}
    /\ open = Stores
    /\ \E place \in [1..StartRows -> Placement], status \in [1..StartRows -> StartStatuses] :
          past = <<[rows |-> {[id |-> i, store |-> place[i][1], to |-> place[i][2],
                               status |-> status[i], touched |-> i] : i \in 1..StartRows}]>>
    /\ pages = [p \in Slots |-> Idle]

UnderWay == {p \in Slots : pages[p].at \in {"asked", "resolved"}}
Over(p) == pages[p].at \in {"answered", "refused"}

(* listAllPages: page 1 first, then the others in order, a few at a time. *)
MayAsk(p) ==
    /\ pages[p].at = "idle"
    /\ IF list.every
       THEN \/ p = 1
            \/ /\ pages[1].at = "answered"
               /\ p <= TotalPages(pages[1].total)
               /\ Cardinality(UnderWay) < InFlight
               /\ \A q \in 1..(p - 1) : pages[q].at # "idle"
       ELSE \A q \in Slots : pages[q].at = "idle"

Finished ==
    IF list.every
    THEN /\ Over(1)
         /\ pages[1].at = "answered" => \A p \in 1..TotalPages(pages[1].total) : Over(p)
    ELSE \E p \in Slots : Over(p)

(* History: the stores the reader is entitled to, at this instant. *)
Entitled(a, o) ==
    CASE role = "ADMIN" \/ list.scope = "global" -> Stores
      [] role = "HTKD" -> IF list.scope \in {"reshare", "emergency"} THEN Stores ELSE a
      [] role = "STORE" -> {Home}
      [] role = "WHOLESALE" -> (Stores \ Retail) \cap o

----------------------------------------------------------------------------
(* A page is asked for: the session, the roles of the route, the name.      *)
Ask(p) ==
    /\ MayAsk(p)
    /\ LET asked == [Idle EXCEPT !.entitled = Entitled(assigned, open), !.since = Len(past)]
       IN pages' = [pages EXCEPT ![p] =
            IF role \notin list.roles \/ (~ReadsAccountAgain /\ ~(named \subseteq Nameable))
            THEN [asked EXCEPT !.at = "refused"]
            ELSE IF ReadsAccountAgain
                 THEN [asked EXCEPT !.at = "asked"]
                 ELSE [asked EXCEPT !.at = "resolved", !.scope = Scope, !.parts = PartsOf(Scope)]]
    /\ UNCHANGED <<list, role, named, filter, assigned, open, past>>

(* resolveAccessibleStoreIds: the account and the open stores read again.   *)
Resolve(p) ==
    /\ pages[p].at = "asked"
    /\ list.scope = "live"
    /\ pages' = [pages EXCEPT ![p] =
          IF named \subseteq Nameable
          THEN [@ EXCEPT !.at = "resolved", !.scope = Scope, !.parts = PartsOf(Scope)]
          ELSE [@ EXCEPT !.at = "refused"]]
    /\ UNCHANGED <<list, role, named, filter, assigned, open, past>>

(* Count and page in one snapshot; the emergency orders resolve their stores there too. *)
ReadAtOnce(p) ==
    /\ list.rows.read = "snapshot"
    /\ \/ pages[p].at = "resolved"
       \/ pages[p].at = "asked" /\ list.scope = "emergency"
    /\ LET scope == IF pages[p].at = "asked" THEN Scope ELSE pages[p].scope
           chosen == Chosen(rows, scope)
       IN pages' = [pages EXCEPT ![p] =
            IF pages[p].at = "asked" /\ ~(named \subseteq Nameable)
            THEN [@ EXCEPT !.at = "refused"]
            ELSE [@ EXCEPT !.at = "answered", !.scope = scope,
                           !.total = Cardinality(chosen),
                           !.entries = Entries(slicePage(chosen, p, PageSize), 1)]]
    /\ UNCHANGED <<list, role, named, filter, assigned, open, past>>

Reading(p, s) ==
    /\ pages[p].at = "resolved"
    /\ list.rows.read # "snapshot"
    /\ s \in DOMAIN pages[p].parts

Count(p, s) ==
    /\ Reading(p, s)
    /\ ~pages[p].parts[s].counted
    /\ pages' = [pages EXCEPT ![p].parts[s].counted = TRUE,
                    ![p].parts[s].count = Cardinality(Chosen(rows, s))]
    /\ UNCHANGED <<list, role, named, filter, assigned, open, past>>

Fetch(p, s) ==
    /\ Reading(p, s)
    /\ pages[p].parts[s].next = 1
    /\ list.rows.read = "sequential" => pages[p].parts[s].counted
    /\ LET found == slicePage(Chosen(rows, s), IF Merged THEN 1 ELSE p, FetchPageSize(p))
       IN pages' = [pages EXCEPT ![p].parts[s].entries = Entries(found, 1),
                                 ![p].parts[s].next = 2]
    /\ UNCHANGED <<list, role, named, filter, assigned, open, past>>

Enough(p, s) ==
    LET part == pages[p].parts[s]
    IN /\ part.counted
       /\ part.next > 1
       /\ Merged => part.ended \/ Cardinality(part.entries) >= Needed(part, p)

(* A merged list asks a store for more until it has what its count promised. *)
FetchNext(p, s) ==
    /\ Reading(p, s)
    /\ pages[p].parts[s].counted /\ pages[p].parts[s].next > 1
    /\ ~Enough(p, s)
    /\ LET part == pages[p].parts[s]
           found == slicePage(Chosen(rows, s), part.next, FetchPageSize(p))
       IN pages' = [pages EXCEPT ![p].parts[s] =
                [@ EXCEPT !.entries = @ \cup Entries(found, part.next),
                          !.next = @ + 1,
                          !.ended = found = {}]]
    /\ UNCHANGED <<list, role, named, filter, assigned, open, past>>

Answer(p) ==
    /\ pages[p].at = "resolved"
    /\ list.rows.read # "snapshot"
    /\ LET parts == pages[p].parts
           found == UNION {parts[s].entries : s \in DOMAIN parts}
           page == IF Merged THEN SliceEntries(found, p) ELSE found
       IN /\ \A s \in DOMAIN parts : Enough(p, s)
          /\ pages' = [pages EXCEPT ![p] =
                [@ EXCEPT !.at = "answered",
                          !.total = MapThenSumSet(LAMBDA s : parts[s].count, DOMAIN parts),
                          !.entries = IF list.rows.detail = "again"
                                      THEN {Again(e) : e \in page} ELSE page,
                          !.parts = <<>>]]
    /\ UNCHANGED <<list, role, named, filter, assigned, open, past>>

PageStep(p) ==
    \/ Ask(p) \/ Resolve(p) \/ ReadAtOnce(p) \/ Answer(p)
    \/ \E s \in SUBSET Stores : Count(p, s) \/ Fetch(p, s) \/ FetchNext(p, s)

----------------------------------------------------------------------------
(* The others.  Every change of theirs is kept in past, and a right given   *)
(* meanwhile counts for the requests under way.                             *)
MayChange == ~Finished /\ Len(past) <= MaxChanges

Granted(a, o) ==
    [p \in Slots |-> IF p \in UnderWay
                     THEN [pages[p] EXCEPT !.entitled = @ \cup Entitled(a, o)] ELSE pages[p]]

Insert ==
    /\ MayChange
    /\ Cardinality(rows) < MaxRows
    /\ LET id == Cardinality(rows) + 1
       IN \E place \in Placement, status \in StartStatuses :
            past' = Append(past, [rows |-> rows \cup
                {[id |-> id, store |-> place[1], to |-> place[2], status |-> status,
                  touched |-> MaxRows + Len(past)]}])
    /\ UNCHANGED <<list, role, named, filter, assigned, open, pages>>

Move ==
    /\ MayChange
    /\ \E r \in rows, status \in StartStatuses :
          past' = Append(past, [rows |-> (rows \ {r}) \cup
                {[r EXCEPT !.status = status, !.touched = MaxRows + Len(past)]}])
    /\ UNCHANGED <<list, role, named, filter, assigned, open, pages>>

Reassign ==
    /\ MayChange
    /\ role = "HTKD"
    /\ assigned' \in SUBSET Stores \ {assigned}
    /\ past' = Append(past, [rows |-> rows])
    /\ pages' = Granted(assigned', open)
    /\ UNCHANGED <<list, role, named, filter, open>>

OpenOrClose ==
    /\ MayChange
    /\ \E s \in Stores : open' = IF s \in open THEN open \ {s} ELSE open \cup {s}
    /\ past' = Append(past, [rows |-> rows])
    /\ pages' = Granted(assigned, open')
    /\ UNCHANGED <<list, role, named, filter, assigned>>

Done == Finished /\ UNCHANGED vars

Next ==
    \/ \E p \in Slots : PageStep(p)
    \/ Insert \/ Move \/ Reassign \/ OpenOrClose
    \/ Done

(* A request is answered and a query returns; nothing is assumed of the others. *)
Fairness == \A p \in Slots : WF_vars(PageStep(p))

Spec == Init /\ [][Next]_vars /\ Fairness

----------------------------------------------------------------------------
Row == [id : Slots, store : Stores, to : Stores, status : Statuses,
        touched : 1..(MaxRows + MaxChanges)]
Entry == [row : Row, fetch : 1..(MaxRows + 1)]

(* The state has the types the code gives it; no total exceeds the rows there are. *)
TypeOK ==
    /\ list \in Lists /\ role \in Readers
    /\ assigned \subseteq Stores /\ open \subseteq Stores
    /\ \A i \in 1..Len(past) : past[i].rows \subseteq Row
    /\ \A p \in Slots :
          /\ pages[p].at \in {"idle", "asked", "resolved", "answered", "refused"}
          /\ pages[p].scope \subseteq Stores /\ pages[p].entitled \subseteq Stores
          /\ pages[p].total \in 0..MaxRows
          /\ pages[p].entries \subseteq Entry

Shown(p) == IF pages[p].at = "answered" THEN pages[p].entries ELSE {}

RetailList == list.scope \in {"retail", "retailSided", "pending"}

(* The stores a page may be of: those that were the reader's own at some     *)
(* instant between the request and its answer.  The wholesale desk, which    *)
(* retailScopeStoreIds does not name, is let into every retail store as well *)
(* on the lists of retail stores, as the code has it.                        *)
LetIn(p) ==
    pages[p].entitled \cup (IF role = "WHOLESALE" /\ RetailList THEN Retail ELSE {})

(* A reader is shown only rows of the stores it is let into (both sides of a *)
(* transfer may see it), whichever re-reading of the account the list has.   *)
(* The desk that names a retail store is shown nothing: the same rows are    *)
(* refused by the name of their store.                                       *)
ShownInScope ==
    \A p \in Slots :
        /\ \A e \in Shown(p) : InScope(e.row, LetIn(p))
        /\ role = "WHOLESALE" /\ named \cap Retail # {} => Shown(p) = {}

(* A request that names a store is answered for that store only.             *)
NamedOnly == named # {} => \A p \in Slots : \A e \in Shown(p) : InScope(e.row, named)

(* Three words select; the history shows a merged request's result instead.  *)
AsWord(s) ==
    IF list.words = History /\ s \in {"ALLOCATED", "PARTIALLY_ALLOCATED", "WAITLISTED"}
    THEN "MERGED" ELSE s

(* A row found under a status is shown with that very status, although one    *)
(* conversion builds the condition and another one the label, and although    *)
(* an old client knows fewer words.                                           *)
StatusAsAsked ==
    list.rows.detail = "with" =>
        \A p \in Slots : \A e \in Shown(p) : \A f \in filter :
            AsWord(list.words.shown[e.row.status]) = f

(* The lists whose count, page and details come from one snapshot.            *)
SnapshotLists == {OrderHistory, SessionDocuments, AllocationDecisions, ReshareOrders,
                  Allocations, Commitments, PriorityOrders, WaitDocuments}

OneInstant(p) ==
    \E i \in pages[p].since .. Len(past) :
        LET chosen == Chosen(past[i].rows, pages[p].scope)
        IN /\ pages[p].total = Cardinality(chosen)
           /\ {e.row : e \in pages[p].entries} = slicePage(chosen, p, PageSize)

(* On such a list the total and the rows of an answer belong to one instant.  *)
SnapshotAnswer ==
    list \in SnapshotLists => \A p \in Slots : pages[p].at = "answered" => OneInstant(p)

(* When nothing changes meanwhile, the pages put one after the other are the   *)
(* whole list, each row once and in its place, and every page names the same   *)
(* total; also when the list is merged from the lists of several stores.       *)
QuietIsWhole ==
    Len(past) = 1 =>
        \A p \in Slots : pages[p].at = "answered" =>
            LET chosen == Chosen(rows, pages[p].scope)
            IN /\ pages[p].total = Cardinality(chosen)
               /\ Cardinality(pages[p].entries) = Cardinality({e.row : e \in pages[p].entries})
               /\ {e.row : e \in pages[p].entries} = slicePage(chosen, p, PageSize)
=============================================================================
