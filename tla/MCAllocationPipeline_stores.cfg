SPECIFICATION Spec
CONSTANTS
    s1 = s1
    s2 = s2
    p1 = p1
    p2 = p2
    Store = {s1, s2}
    Product = {p1}
    Session = {1, 2}
    NoShipment = NoShipment
    SnapshotDue <- CommonSnapshots
    FinalDue <- StaggeredFinals
    RequestQuota = 1
    InitialStock <- OneInStock
    InitialDemand <- EachPairWaits
    TicketSlots = 2
    MaxOrder = 1
    MaxStock = 2
    MaxTime = 3
SYMMETRY Permuted
INVARIANTS
    ReservedIsPledged
CHECK_DEADLOCK FALSE
