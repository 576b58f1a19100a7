SPECIFICATION Spec
CONSTANTS
    s1 = s1
    s2 = s2
    p1 = p1
    p2 = p2
    Store = {s1}
    Product = {p1, p2}
    Session = {1}
    NoShipment = NoShipment
    SnapshotDue <- SuccessiveSnapshots
    FinalDue <- SuccessiveFinals
    RequestQuota = 1
    InitialStock <- TwoInStock
    InitialDemand <- FirstStoreWaits
    TicketSlots = 2
    MaxOrder = 2
    MaxStock = 2
    MaxTime = 2
INVARIANTS
    PendingResultAnswerable
CHECK_DEADLOCK FALSE
