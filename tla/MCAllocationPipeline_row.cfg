SPECIFICATION Spec
CONSTANTS
    s1 = s1
    s2 = s2
    p1 = p1
    p2 = p2
    Store = {s1}
    Product = {p1}
    Session = {1, 2}
    NoShipment = NoShipment
    SnapshotDue <- SuccessiveSnapshots
    FinalDue <- SuccessiveFinals
    RequestQuota = 1
    InitialStock <- TwoInStock
    InitialDemand <- FirstStoreWaits
    TicketSlots = 3
    MaxOrder = 1
    MaxStock = 3
    MaxTime = 4
INVARIANTS
    TypeOK
    OnlyConfirmedGoodsLeave
    DemandAccounted
PROPERTIES
    DispatchedGoodsStay
    ResultsKeepPromise
CHECK_DEADLOCK FALSE
