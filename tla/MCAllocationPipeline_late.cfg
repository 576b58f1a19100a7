SPECIFICATION FairSpec
CONSTANTS
    s1 = s1
    s2 = s2
    p1 = p1
    p2 = p2
    Store = {s1}
    Product = {p1}
    Session = {1}
    NoShipment = NoShipment
    SnapshotDue <- CommonSnapshots
    FinalDue <- StaggeredFinals
    RequestQuota = 1
    InitialStock <- TwoInStock
    InitialDemand <- FirstStoreWaits
    TicketSlots = 3
    MaxOrder = 1
    MaxStock = 2
    MaxTime = 2
PROPERTIES
    OffersMadeInTime
CHECK_DEADLOCK FALSE
