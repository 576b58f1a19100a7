SPECIFICATION Spec
CONSTANTS
    Parts = {"SaleMonths", "BagMoves", "BagRequests", "ServerMoves",
             "ServerReviews", "SortingMonths", "SortingLots",
             "SortingStores", "ServerMonths", "ServerPieces", "ServerStores"}
    s1 = s1
    s2 = s2
INVARIANTS
    BagsAccounted
    SortingAccounted

    
CHECK_DEADLOCK FALSE
