------------------------------ MODULE MCGoods -------------------------------
(***************************************************************************)
(* The components that keep account of the goods of the main warehouse and *)
(* of what the stores wait for, each on instances of its own. They share   *)
(* no state in these modules, so one run puts them side by side: the       *)
(* variable part names the component (and the instance) a behaviour is     *)
(* about, every other component stands still. A property says of every     *)
(* part what its module states.                                            *)
(***************************************************************************)
EXTENDS Integers, Sequences, FiniteSets, TLC

CONSTANTS Parts, u1, u2, r1, r2, b1, b2, h1, k1, c1, c2, m1, s1, s2, s3, e1,
          d1, d2, p1, p2, p3, l1, l2, t1, t2, i1, i2, NoCommand, NoOne,
          NoSource, Fresh

\* The legacy commitment m1 holds two bags, the others one.
BagsOf(commitments) == [c \in commitments |-> IF c = m1 THEN 2 ELSE 1]
\* Bags finalized as the first product, and the bags granted by the lines of a result.
AllFirst(bags) == [b \in bags |-> p1]
OneAndTwo(results, lines) == [r \in results |-> [l \in lines |-> IF l = l1 THEN 1 ELSE 2]]
OneProduct == t1 :> p1 @@ t2 :> p1
TwoProducts == t1 :> p1 @@ t2 :> p2

Idle == "idle"

VARIABLE part      \* the component this behaviour is about, one of Parts

\* The balance of the warehouse and its ledger
VARIABLES balance, ledger, receipts, holds, running, clock

\* The warehouse of the in-memory server
VARIABLES memoryBalance, stockPage, adjusted, inbound, memoryResult,
          memoryShipment, memoryOrdered, marked, list, waitingBags,
          memoryReceipt, shortageCheck

\* The position at the supplier B
VARIABLES supplierClock, stockB, placed, placedRE, lost, happened, commit,
          events, source, onHand, reserved, observation

\* What a store declares of a shipment, and the wait of a shortage
VARIABLES tickets, offers, ordered, orders, shipments, storeReceipts,
          receiptChecks, stock, storeBags, queuedIn

\* Corrections of a finished receipt, and returns
VARIABLES receivedBags, docs, lines, rights, waits, freeStock, checks,
          returns, applied, storeLedger

\* The shipments of results and of orders
VARIABLES hold, decision, shipment, stockOnHand, stockReserved, form, listed,
          reshare, read

\* The RE orders of results and their history
VARIABLES decided, lineHold, reOrder, linked, manual, acknowledged, history,
          resultPage, plan, left

\* The wait document of a store
VARIABLES ticket, offer, result, document, closed, opened, preview, old

\* The waits of the in-memory server
VARIABLES waitTicket, priorityOffer, expired, commands, done, refused

ledgerVars == <<balance, ledger, receipts, holds, running, clock>>
serverVars == <<memoryBalance, stockPage, adjusted, inbound, memoryResult,
                memoryShipment, memoryOrdered, marked, list, waitingBags,
                memoryReceipt, shortageCheck>>
supplierVars == <<supplierClock, stockB, placed, placedRE, lost, happened,
                  commit, events, source, onHand, reserved, observation>>
receiptVars == <<tickets, offers, ordered, orders, shipments, storeReceipts,
                 receiptChecks, stock, storeBags, queuedIn>>
correctionVars == <<receivedBags, docs, lines, rights, waits, freeStock,
                    checks, returns, applied, storeLedger>>
shipmentVars == <<hold, decision, shipment, stockOnHand, stockReserved, form,
                  listed, reshare, read>>
reshareVars == <<decided, lineHold, reOrder, linked, manual, acknowledged,
                 history, resultPage, plan, left>>
documentVars == <<ticket, offer, result, document, closed, opened, preview,
                  old>>
waitVars == <<waitTicket, priorityOffer, expired, commands, done, refused>>

vars == <<part, ledgerVars, serverVars, supplierVars, receiptVars,
          correctionVars, shipmentVars, reshareVars, documentVars, waitVars>>

-----------------------------------------------------------------------------
(* The balance of the warehouse and its ledger. *)

\* Two people, two goods receipts with bags of their own.
Ledger == INSTANCE WarehouseLedger WITH
    Users <- {u1, u2}, Receipts <- {r1, r2}, Bags <- {b1, b2}, Holds <- {},
    HoldQuantity <- 1, TakenBags <- {}, Keys <- {k1}, EarlyKinds <- {},
    MaxClock <- 5, MaxAttempts <- 2

\* A hold that is reserved, issued or given back beside a goods receipt; the
\* worker stamps its reservations early.
Settling == INSTANCE WarehouseLedger WITH
    Users <- {u1, u2}, Receipts <- {r1}, Bags <- {b1}, Holds <- {h1},
    HoldQuantity <- 1, TakenBags <- {0, 1}, Keys <- {k1},
    EarlyKinds <- {"reserve"}, MaxClock <- 7, MaxAttempts <- 2

NoLedger ==
    /\ balance = Idle /\ ledger = Idle /\ receipts = Idle /\ holds = Idle
    /\ running = Idle /\ clock = Idle

LedgerInit ==
    \/ part = "Ledger" /\ Ledger!Init
    \/ part = "Settling" /\ Settling!Init
    \/ part \notin {"Ledger", "Settling"} /\ NoLedger

OnlyLedger == UNCHANGED <<part, serverVars, supplierVars, receiptVars,
                           correctionVars, shipmentVars, reshareVars,
                           documentVars, waitVars>>

LedgerStep == part = "Ledger" /\ Ledger!Next /\ OnlyLedger
SettlingStep == part = "Settling" /\ Settling!Next /\ OnlyLedger

-----------------------------------------------------------------------------
(* The warehouse of the in-memory server. *)

\* Two goods receipts and one result.
ServerStock == INSTANCE MemoryWarehouse WITH
    Products <- {p1}, Inbounds <- {i1, i2}, Results <- {r1},
    Quantities <- {1, 2}, MaxStock <- 3, MaxVersion <- 3, MaxMarks <- 0,
    Verdicts <- {"RETURNED_TO_STOCK"}, balance <- memoryBalance,
    page <- stockPage, result <- memoryResult, shipment <- memoryShipment,
    ordered <- memoryOrdered, ticket <- waitingBags, check <- shortageCheck,
    receipt <- memoryReceipt

\* Two results that are answered, sent, received and counted.
ServerAnswers == INSTANCE MemoryWarehouse WITH
    Products <- {p1}, Inbounds <- {i1}, Results <- {r1, r2},
    Quantities <- {1}, MaxStock <- 3, MaxVersion <- 4, MaxMarks <- 0,
    Verdicts <- {"RETURNED_TO_STOCK"}, balance <- memoryBalance,
    page <- stockPage, result <- memoryResult, shipment <- memoryShipment,
    ordered <- memoryOrdered, ticket <- waitingBags, check <- shortageCheck,
    receipt <- memoryReceipt

\* The status of an order, changed twice from a list.
ServerMarks == INSTANCE MemoryWarehouse WITH
    Products <- {p1}, Inbounds <- {i1}, Results <- {r1}, Quantities <- {1},
    MaxStock <- 2, MaxVersion <- 3, MaxMarks <- 2,
    Verdicts <- {"RETURNED_TO_STOCK"}, balance <- memoryBalance,
    page <- stockPage, result <- memoryResult, shipment <- memoryShipment,
    ordered <- memoryOrdered, ticket <- waitingBags, check <- shortageCheck,
    receipt <- memoryReceipt

NoServer ==
    /\ memoryBalance = Idle /\ stockPage = Idle /\ adjusted = Idle
    /\ inbound = Idle /\ memoryResult = Idle /\ memoryShipment = Idle
    /\ memoryOrdered = Idle /\ marked = Idle /\ list = Idle
    /\ waitingBags = Idle /\ memoryReceipt = Idle /\ shortageCheck = Idle

ServerInit ==
    \/ part = "ServerStock" /\ ServerStock!Init
    \/ part = "ServerAnswers" /\ ServerAnswers!Init
    \/ part = "ServerMarks" /\ ServerMarks!Init
    \/ part \notin {"ServerStock", "ServerAnswers",
                    "ServerMarks"} /\ NoServer

OnlyServer == UNCHANGED <<part, ledgerVars, supplierVars, receiptVars,
                           correctionVars, shipmentVars, reshareVars,
                           documentVars, waitVars>>

ServerStockStep == part = "ServerStock" /\ ServerStock!Next /\ OnlyServer
ServerAnswersStep == part = "ServerAnswers" /\ ServerAnswers!Next /\ OnlyServer
ServerMarksStep == part = "ServerMarks" /\ ServerMarks!Next /\ OnlyServer

-----------------------------------------------------------------------------
(* The position at the supplier B. *)

\* Two commitments of runs, and goods that happen to B.
Grants == INSTANCE SupplierReconciliation WITH
    Commitment <- {c1, c2}, Legacy <- {}, Bags <- BagsOf({c1, c2}),
    User <- {u1}, InitialStock <- 1, Diligent <- TRUE, MaxTime <- 3,
    MaxHappenings <- 1, MaxLoss <- 1, now <- supplierClock,
    form <- observation

\* A commitment from before the position was kept, of two bags.
OldCommitment == INSTANCE SupplierReconciliation WITH
    Commitment <- {m1, c1}, Legacy <- {m1}, Bags <- BagsOf({m1, c1}),
    User <- {u1}, InitialStock <- 2, Diligent <- TRUE, MaxTime <- 1,
    MaxHappenings <- 2, MaxLoss <- 0, now <- supplierClock,
    form <- observation

NoSupplier ==
    /\ supplierClock = Idle /\ stockB = Idle /\ placed = Idle
    /\ placedRE = Idle /\ lost = Idle /\ happened = Idle /\ commit = Idle
    /\ events = Idle /\ source = Idle /\ onHand = Idle /\ reserved = Idle
    /\ observation = Idle

SupplierInit ==
    \/ part = "Grants" /\ Grants!Init
    \/ part = "OldCommitment" /\ OldCommitment!Init
    \/ part \notin {"Grants", "OldCommitment"} /\ NoSupplier

OnlySupplier == UNCHANGED <<part, ledgerVars, serverVars, receiptVars,
                             correctionVars, shipmentVars, reshareVars,
                             documentVars, waitVars>>

GrantsStep == part = "Grants" /\ Grants!Next /\ OnlySupplier
OldCommitmentStep == part = "OldCommitment" /\ OldCommitment!Next /\ OnlySupplier

-----------------------------------------------------------------------------
(* What a store declares of a shipment, and the wait of a shortage. *)

\* One shipment, three tickets in a row.
Receipt == INSTANCE StoreReceipts WITH
    Shipments <- {s1}, Tickets <- {1, 2, 3}, Emergency <- {},
    Modes <- {"held", "issued"}, InitialStock <- 3, MaxOrder <- 3,
    MaxOrders <- 3, MaxVersion <- 6, MaxExcess <- 1,
    receipts <- storeReceipts, checks <- receiptChecks

\* Two shipments of one product under way.
TwoReceipts == INSTANCE StoreReceipts WITH
    Shipments <- {s1, s2}, Tickets <- {1, 2, 3}, Emergency <- {},
    Modes <- {"held"}, InitialStock <- 4, MaxOrder <- 2, MaxOrders <- 3,
    MaxVersion <- 2, MaxExcess <- 0, receipts <- storeReceipts,
    checks <- receiptChecks

\* Three shipments of two bags in stock: a ticket that was merged into another is
\* opened again.
ThreeReceipts == INSTANCE StoreReceipts WITH
    Shipments <- {s1, s2, s3}, Tickets <- {1, 2, 3}, Emergency <- {},
    Modes <- {"held"}, InitialStock <- 2, MaxOrder <- 2, MaxOrders <- 3,
    MaxVersion <- 3, MaxExcess <- 0, receipts <- storeReceipts,
    checks <- receiptChecks

\* An emergency order beside a shipment of a run.
Urgent == INSTANCE StoreReceipts WITH
    Shipments <- {s1, e1}, Tickets <- {1, 2}, Emergency <- {e1},
    Modes <- {"held", "issued"}, InitialStock <- 3, MaxOrder <- 2,
    MaxOrders <- 2, MaxVersion <- 3, MaxExcess <- 1,
    receipts <- storeReceipts, checks <- receiptChecks

NoReceipts ==
    /\ tickets = Idle /\ offers = Idle /\ ordered = Idle /\ orders = Idle
    /\ shipments = Idle /\ storeReceipts = Idle /\ receiptChecks = Idle
    /\ stock = Idle /\ storeBags = Idle /\ queuedIn = Idle

ReceiptsInit ==
    \/ part = "Receipt" /\ Receipt!Init
    \/ part = "TwoReceipts" /\ TwoReceipts!Init
    \/ part = "ThreeReceipts" /\ ThreeReceipts!Init
    \/ part = "Urgent" /\ Urgent!Init
    \/ part \notin {"Receipt", "TwoReceipts", "ThreeReceipts",
                    "Urgent"} /\ NoReceipts

OnlyReceipts == UNCHANGED <<part, ledgerVars, serverVars, supplierVars,
                             correctionVars, shipmentVars, reshareVars,
                             documentVars, waitVars>>

ReceiptStep == part = "Receipt" /\ Receipt!Next /\ OnlyReceipts
TwoReceiptsStep == part = "TwoReceipts" /\ TwoReceipts!Next /\ OnlyReceipts
ThreeReceiptsStep == part = "ThreeReceipts" /\ ThreeReceipts!Next /\ OnlyReceipts
UrgentStep == part = "Urgent" /\ Urgent!Next /\ OnlyReceipts

-----------------------------------------------------------------------------
(* Corrections of a finished receipt, and returns. *)

\* One bag, two documents, one return.
Corrections == INSTANCE ReceiptAdjustments WITH
    Bags <- {1}, Products <- {p1, p2, p3}, Booked <- AllFirst({1}),
    Excess <- {}, Docs <- {d1, d2}, Legacy <- {}, Returns <- {r1},
    Prices <- {0, 2}, Weights <- {1, 2}, FreeStock <- 1, stock <- freeStock,
    ledger <- storeLedger, bags <- receivedBags

\* A bag in excess, and a document from before the checks.
Surplus == INSTANCE ReceiptAdjustments WITH
    Bags <- {1, 2}, Products <- {p1, p2}, Booked <- AllFirst({1, 2}),
    Excess <- {2}, Docs <- {d1, d2}, Legacy <- {d1}, Returns <- {r1},
    Prices <- {0, 2}, Weights <- {1}, FreeStock <- 1, stock <- freeStock,
    ledger <- storeLedger, bags <- receivedBags

NoCorrections ==
    /\ receivedBags = Idle /\ docs = Idle /\ lines = Idle /\ rights = Idle
    /\ waits = Idle /\ freeStock = Idle /\ checks = Idle /\ returns = Idle
    /\ applied = Idle /\ storeLedger = Idle

CorrectionsInit ==
    \/ part = "Corrections" /\ Corrections!Init
    \/ part = "Surplus" /\ Surplus!Init
    \/ part \notin {"Corrections", "Surplus"} /\ NoCorrections

OnlyCorrections == UNCHANGED <<part, ledgerVars, serverVars, supplierVars,
                                receiptVars, shipmentVars, reshareVars,
                                documentVars, waitVars>>

CorrectionsStep == part = "Corrections" /\ Corrections!Next /\ OnlyCorrections
SurplusStep == part = "Surplus" /\ Surplus!Next /\ OnlyCorrections

-----------------------------------------------------------------------------
(* The shipments of results and of orders. *)

\* Three runs of one product.
Runs == INSTANCE Shipments WITH
    Products <- {p1}, Users <- {}, MaxRun <- 3, MaxOrders <- 0,
    MaxGrant <- 1, Stock <- 6, MaxUpdates <- 1, onHand <- stockOnHand,
    reserved <- stockReserved

\* A run, an order and a manager who ships from a form.
Forms == INSTANCE Shipments WITH
    Products <- {p1}, Users <- {u1}, MaxRun <- 1, MaxOrders <- 2,
    MaxGrant <- 1, Stock <- 4, MaxUpdates <- 1, onHand <- stockOnHand,
    reserved <- stockReserved

\* A run of two products.
ProductLines == INSTANCE Shipments WITH
    Products <- {p1, p2}, Users <- {}, MaxRun <- 1, MaxOrders <- 0,
    MaxGrant <- 1, Stock <- 4, MaxUpdates <- 1, onHand <- stockOnHand,
    reserved <- stockReserved

\* Two managers who change the status of two orders.
Statuses == INSTANCE Shipments WITH
    Products <- {p1}, Users <- {u1, u2}, MaxRun <- 0, MaxOrders <- 2,
    MaxGrant <- 1, Stock <- 3, MaxUpdates <- 2, onHand <- stockOnHand,
    reserved <- stockReserved

NoShipments ==
    /\ hold = Idle /\ decision = Idle /\ shipment = Idle
    /\ stockOnHand = Idle /\ stockReserved = Idle /\ form = Idle
    /\ listed = Idle /\ reshare = Idle /\ read = Idle

ShipmentsInit ==
    \/ part = "Runs" /\ Runs!Init
    \/ part = "Forms" /\ Forms!Init
    \/ part = "ProductLines" /\ ProductLines!Init
    \/ part = "Statuses" /\ Statuses!Init
    \/ part \notin {"Runs", "Forms", "ProductLines",
                    "Statuses"} /\ NoShipments

OnlyShipments == UNCHANGED <<part, ledgerVars, serverVars, supplierVars,
                              receiptVars, correctionVars, reshareVars,
                              documentVars, waitVars>>

RunsStep == part = "Runs" /\ Runs!Next /\ OnlyShipments
FormsStep == part = "Forms" /\ Forms!Next /\ OnlyShipments
ProductLinesStep == part = "ProductLines" /\ ProductLines!Next /\ OnlyShipments
StatusesStep == part = "Statuses" /\ Statuses!Next /\ OnlyShipments

-----------------------------------------------------------------------------
(* The RE orders of results and their history. *)

\* One result of two lines, two managers.
Acknowledging == INSTANCE ReshareHistory WITH
    Results <- {r1}, Lines <- {l1, l2}, Granted <- OneAndTwo({r1}, {l1, l2}),
    Legacy <- {}, Managers <- {u1, u2}, MaxVersion <- 4, hold <- lineHold,
    decision <- decided, events <- history, order <- reOrder,
    page <- resultPage, version <- acknowledged

\* Two results from before the orders, moved by a plan.
Cutover == INSTANCE ReshareHistory WITH
    Results <- {r1, r2}, Lines <- {l1, l2},
    Granted <- OneAndTwo({r1, r2}, {l1, l2}), Legacy <- {r1, r2},
    Managers <- {u1}, MaxVersion <- 0, hold <- lineHold, decision <- decided,
    events <- history, order <- reOrder, page <- resultPage,
    version <- acknowledged

NoReshare ==
    /\ decided = Idle /\ lineHold = Idle /\ reOrder = Idle /\ linked = Idle
    /\ manual = Idle /\ acknowledged = Idle /\ history = Idle
    /\ resultPage = Idle /\ plan = Idle /\ left = Idle

ReshareInit ==
    \/ part = "Acknowledging" /\ Acknowledging!Init
    \/ part = "Cutover" /\ Cutover!Init
    \/ part \notin {"Acknowledging", "Cutover"} /\ NoReshare

OnlyReshare == UNCHANGED <<part, ledgerVars, serverVars, supplierVars,
                            receiptVars, correctionVars, shipmentVars,
                            documentVars, waitVars>>

AcknowledgingStep == part = "Acknowledging" /\ Acknowledging!Next /\ OnlyReshare
CutoverStep == part = "Cutover" /\ Cutover!Next /\ OnlyReshare

-----------------------------------------------------------------------------
(* The wait document of a store. *)

\* Two results of one product, one bag a ticket.
Turns == INSTANCE WaitDocuments WITH
    Products <- {p1}, ProductOf <- OneProduct, Results <- {1, 2},
    Users <- {u1}, MaxOrder <- 1, MaxDocuments <- 3

\* One result, bags revoked from a preview.
Previews == INSTANCE WaitDocuments WITH
    Products <- {p1}, ProductOf <- OneProduct, Results <- {1}, Users <- {u1},
    MaxOrder <- 2, MaxDocuments <- 3

\* Two products in one document.
Mixed == INSTANCE WaitDocuments WITH
    Products <- {p1, p2}, ProductOf <- TwoProducts, Results <- {1},
    Users <- {}, MaxOrder <- 1, MaxDocuments <- 3

\* A document that is opened five times.
Records == INSTANCE WaitDocuments WITH
    Products <- {p1}, ProductOf <- OneProduct, Results <- {1, 2},
    Users <- {}, MaxOrder <- 1, MaxDocuments <- 5

NoDocuments ==
    /\ ticket = Idle /\ offer = Idle /\ result = Idle /\ document = Idle
    /\ closed = Idle /\ opened = Idle /\ preview = Idle /\ old = Idle

DocumentsInit ==
    \/ part = "Turns" /\ Turns!Init /\ ~old.running
    \/ part = "Previews" /\ Previews!Init /\ ~old.running
    \/ part = "Mixed" /\ Mixed!Init /\ old.running
    \/ part = "Records" /\ Records!Init /\ old.running
    \/ part \notin {"Turns", "Previews", "Mixed", "Records"} /\ NoDocuments

OnlyDocuments == UNCHANGED <<part, ledgerVars, serverVars, supplierVars,
                              receiptVars, correctionVars, shipmentVars,
                              reshareVars, waitVars>>

TurnsStep == part = "Turns" /\ Turns!Next /\ OnlyDocuments
PreviewsStep == part = "Previews" /\ Previews!Next /\ OnlyDocuments
MixedStep == part = "Mixed" /\ Mixed!Next /\ OnlyDocuments
RecordsStep == part = "Records" /\ Records!Next /\ OnlyDocuments

-----------------------------------------------------------------------------
(* The waits of the in-memory server. *)

\* Commands about tickets.
ServerTickets == INSTANCE MemoryWaits WITH
    Tickets <- {t1, t2}, Products <- {p1, p2}, MaxUnits <- 2,
    MaxCommands <- 2, Scopes <- {"TICKET"}, ticket <- waitTicket,
    offer <- priorityOffer

\* Commands about tickets and the document.
ServerEnds == INSTANCE MemoryWaits WITH
    Tickets <- {t1, t2}, Products <- {p1}, MaxUnits <- 2, MaxCommands <- 2,
    Scopes <- {"TICKET", "DOCUMENT"}, ticket <- waitTicket,
    offer <- priorityOffer

NoWaits ==
    /\ waitTicket = Idle /\ priorityOffer = Idle /\ expired = Idle
    /\ commands = Idle /\ done = Idle /\ refused = Idle

WaitsInit ==
    \/ part = "ServerTickets" /\ ServerTickets!Init
    \/ part = "ServerEnds" /\ ServerEnds!Init
    \/ part \notin {"ServerTickets", "ServerEnds"} /\ NoWaits

OnlyWaits == UNCHANGED <<part, ledgerVars, serverVars, supplierVars,
                          receiptVars, correctionVars, shipmentVars,
                          reshareVars, documentVars>>

ServerTicketsStep == part = "ServerTickets" /\ ServerTickets!Next /\ OnlyWaits
ServerEndsStep == part = "ServerEnds" /\ ServerEnds!Next /\ OnlyWaits

-----------------------------------------------------------------------------

ASSUME GoodsAssumption ==
    /\ Ledger!QuantitiesAssumption
    /\ Settling!QuantitiesAssumption
    /\ ServerStock!MemoryWarehouseBounds
    /\ ServerAnswers!MemoryWarehouseBounds
    /\ ServerMarks!MemoryWarehouseBounds
    /\ Grants!SupplierAssumption
    /\ OldCommitment!SupplierAssumption
    /\ Receipt!ReceiptsAssumption
    /\ TwoReceipts!ReceiptsAssumption
    /\ ThreeReceipts!ReceiptsAssumption
    /\ Urgent!ReceiptsAssumption
    /\ Corrections!AdjustmentsAssumption
    /\ Surplus!AdjustmentsAssumption
    /\ Runs!ShipmentBounds
    /\ Forms!ShipmentBounds
    /\ ProductLines!ShipmentBounds
    /\ Statuses!ShipmentBounds
    /\ Acknowledging!ReshareAssumption
    /\ Cutover!ReshareAssumption
    /\ Turns!WaitDocumentsAssumption
    /\ Previews!WaitDocumentsAssumption
    /\ Mixed!WaitDocumentsAssumption
    /\ Records!WaitDocumentsAssumption
    /\ ServerTickets!MemoryWaitBounds
    /\ ServerEnds!MemoryWaitBounds

Init ==
    /\ part \in Parts
    /\ LedgerInit
    /\ ServerInit
    /\ SupplierInit
    /\ ReceiptsInit
    /\ CorrectionsInit
    /\ ShipmentsInit
    /\ ReshareInit
    /\ DocumentsInit
    /\ WaitsInit

Next ==
    \/ LedgerStep
    \/ SettlingStep
    \/ ServerStockStep
    \/ ServerAnswersStep
    \/ ServerMarksStep
    \/ GrantsStep
    \/ OldCommitmentStep
    \/ ReceiptStep
    \/ TwoReceiptsStep
    \/ ThreeReceiptsStep
    \/ UrgentStep
    \/ CorrectionsStep
    \/ SurplusStep
    \/ RunsStep
    \/ FormsStep
    \/ ProductLinesStep
    \/ StatusesStep
    \/ AcknowledgingStep
    \/ CutoverStep
    \/ TurnsStep
    \/ PreviewsStep
    \/ MixedStep
    \/ RecordsStep
    \/ ServerTicketsStep
    \/ ServerEndsStep

Spec == Init /\ [][Next]_vars

-----------------------------------------------------------------------------

\* The balance of a product is what its ledger adds up to, no receipt counts
\* twice, no adjustment is booked over figures nobody saw, the balance of a past
\* instant is what was booked up to it unless a reservation of the worker or a
\* settlement of two movements put the stamps out of step (WarehouseLedger),
\* and the in-memory server holds, books and ships what it was told
\* (MemoryWarehouse).
LedgerExact ==
    /\ part = "Ledger" =>
          /\ Ledger!TypeOK
          /\ Ledger!BalanceIsLedger
          /\ Ledger!ReceiptsCountedOnce
          /\ Ledger!AdjustedWhatWasSeen
          /\ Ledger!SnapshotIsExact
          /\ Ledger!StampsInStep
    /\ part = "Settling" =>
          /\ Settling!TypeOK
          /\ Settling!BalanceIsLedger
          /\ Settling!ReceiptsCountedOnce
          /\ Settling!AdjustedWhatWasSeen
          /\ Settling!SnapshotIsExact
          /\ Settling!StampsInStep
    /\ part = "ServerStock" =>
          /\ ServerStock!TypeOK
          /\ ServerStock!HoldsAreUnanswered
          /\ ServerStock!OnHandIsBooked
    /\ part = "ServerAnswers" =>
          /\ ServerAnswers!TypeOK
          /\ ServerAnswers!DemandKept
          /\ ServerAnswers!TravelsOnceAccepted

\* No bag of B is promised twice, and what is reserved is what the rows of the
\* commitments say (SupplierReconciliation).
SupplierAgrees ==
    /\ part = "Grants" =>
          /\ Grants!TypeOK
          /\ Grants!NoDoubleCommit
          /\ Grants!ReservedMatchesRows
    /\ part = "OldCommitment" =>
          /\ OldCommitment!TypeOK
          /\ OldCommitment!NoDoubleCommit
          /\ OldCommitment!ReservedMatchesRows

\* Bags are neither lost nor made, holds match what is reserved and no demand is
\* lost over shortages, corrections and returns (StoreReceipts,
\* ReceiptAdjustments).
ReceiptsAccounted ==
    /\ part = "Receipt" =>
          /\ Receipt!TypeOK
          /\ Receipt!BagsAccounted
          /\ Receipt!ReservedMatchesHolds
          /\ Receipt!NoDemandLost
    /\ part = "TwoReceipts" =>
          /\ TwoReceipts!TypeOK
          /\ TwoReceipts!BagsAccounted
          /\ TwoReceipts!ReservedMatchesHolds
          /\ TwoReceipts!NoDemandLost
    /\ part = "ThreeReceipts" =>
          /\ ThreeReceipts!TypeOK
          /\ ThreeReceipts!BagsAccounted
          /\ ThreeReceipts!ReservedMatchesHolds
          /\ ThreeReceipts!NoDemandLost
    /\ part = "Urgent" =>
          /\ Urgent!TypeOK
          /\ Urgent!BagsAccounted
          /\ Urgent!ReservedMatchesHolds
          /\ Urgent!NoDemandLost
    /\ part = "Corrections" =>
          /\ Corrections!TypeOK
          /\ Corrections!GoodsAreBags
          /\ Corrections!RightOncePerBag
          /\ Corrections!HeldByOne
          /\ Corrections!LedgerIsBags
          /\ Corrections!BagsAccounted
    /\ part = "Surplus" =>
          /\ Surplus!TypeOK
          /\ Surplus!GoodsAreBags
          /\ Surplus!RightOncePerBag
          /\ Surplus!HeldByOne
          /\ Surplus!LedgerIsBags
          /\ Surplus!BagsAccounted

\* The stock is what was neither shipped nor pledged, only answered goods
\* leave, and the lines of a shipment carry their holds (Shipments).
ShipmentsAccounted ==
    /\ part = "Runs" =>
          /\ Runs!TypeOK
          /\ Runs!StockAccounted
          /\ Runs!OnlyAnsweredGoodsLeave
          /\ Runs!LinesCarryTheirHolds
    /\ part = "Forms" =>
          /\ Forms!TypeOK
          /\ Forms!StockAccounted
          /\ Forms!OnlyAnsweredGoodsLeave
          /\ Forms!LinesCarryTheirHolds
    /\ part = "ProductLines" =>
          /\ ProductLines!TypeOK
          /\ ProductLines!StockAccounted
          /\ ProductLines!OnlyAnsweredGoodsLeave
          /\ ProductLines!LinesCarryTheirHolds

\* The history of an RE order is a chain of what happened to it, an order can
\* be acted on, and goods leave once (ReshareHistory).
OrdersTold ==
    /\ part = "Acknowledging" =>
          /\ Acknowledging!TypeOK
          /\ Acknowledging!HistoryChains
          /\ Acknowledging!OrderIsActionable
          /\ Acknowledging!LeavesOnce
    /\ part = "Cutover" =>
          /\ Cutover!TypeOK
          /\ Cutover!OrderIsActionable
          /\ Cutover!LeavesOnce

\* The document of a store is in step with its tickets and the chain of its
\* records adds up (WaitDocuments); the in-memory server tells a repeated
\* command what it told the first and ends the offers of a wait that ended
\* (MemoryWaits).
DocumentsTell ==
    /\ part = "Turns" =>
          /\ Turns!TypeOK
          /\ Turns!DocumentInStep
          /\ Turns!ChainConserves
    /\ part = "Previews" =>
          /\ Previews!TypeOK
          /\ Previews!DocumentInStep
          /\ Previews!ChainConserves
    /\ part = "Mixed" =>
          /\ Mixed!TypeOK
          /\ Mixed!DocumentInStep
          /\ Mixed!ChainConserves
    /\ part = "Records" =>
          /\ Records!TypeOK
          /\ Records!DocumentInStep
          /\ Records!ChainConserves
    /\ part = "ServerTickets" =>
          /\ ServerTickets!TypeOK
          /\ ServerTickets!DoneIsToldAgain
    /\ part = "ServerEnds" =>
          /\ ServerEnds!TypeOK
          /\ ServerEnds!OffersEndWithTheirWait

\* Whoever revokes bags, adjusts stock, marks an order or ends a wait has been
\* shown what the command changes, as it stands when it is changed.
DecidedAsShown ==
    [][/\ part = "ServerStock" => ServerStock!AdjustedAsShown
       /\ part = "ServerMarks" => ServerMarks!MarkedAsShown
       /\ part = "Forms" => Forms!StatusChangedAsShown
       /\ part = "Statuses" => Statuses!StatusChangedAsShown
       /\ part = "Acknowledging" => Acknowledging!AcknowledgedSeen
       /\ part = "Cutover" => Cutover!BackfillReviewed
       /\ part = "Turns" => Turns!RevokedAsShown
       /\ part = "Previews" => Previews!RevokedAsShown
       /\ part = "ServerEnds" => ServerEnds!EndsAsSeen]_vars

\* What is priced, shipped, accepted, reconciled or recorded is not undone, demand
\* is made by orders only, but for what a merged ticket counts twice or a cancelled
\* wait no longer takes back, and every change of a wait is recorded as what it was.
DoneForGood ==
    [][/\ part = "Ledger" => Ledger!PricedIsFinal
       /\ part = "Grants" =>
             /\ Grants!ReconciledStaysProjected
             /\ Grants!ObservationIsExact
       /\ part = "OldCommitment" =>
             /\ OldCommitment!ReconciledStaysProjected
             /\ OldCommitment!ObservationIsExact
       /\ part = "Receipt" =>
             /\ Receipt!ReductionFindsItsWait
             /\ Receipt!DemandConserved
       /\ part = "TwoReceipts" => TwoReceipts!DemandConserved
       /\ part = "ThreeReceipts" => ThreeReceipts!DemandConserved
       /\ part = "Urgent" => Urgent!DemandConserved
       /\ part = "Runs" =>
             /\ Runs!NothingLeftBehind
             /\ Runs!LeavesOnce
             /\ Runs!AcceptedGoodsKept
       /\ part = "Forms" => Forms!LeavesOnce
       /\ part = "ProductLines" =>
             /\ ProductLines!LeavesOnce
             /\ ProductLines!AcceptedGoodsKept
       /\ part = "Turns" =>
             /\ Turns!RecordsWhatHappened
             /\ Turns!NoEmptyTurnover
       /\ part = "Previews" =>
             /\ Previews!RecordsWhatHappened
             /\ Previews!NoEmptyTurnover
       /\ part = "Records" =>
             /\ Records!RecordsWhatHappened
             /\ Records!NoEmptyTurnover]_vars

\* "Confirmed priority offer no longer matches an active wait ticket": the run
\* throws when an accepted offer's ticket is no longer active
\* (StoreReceipts, allocation.ts:126).
AcceptedOfferIsOpen == part = "ThreeReceipts" => ThreeReceipts!AcceptedOfferIsOpen
=============================================================================
