SPECIFICATION Spec
CONSTANTS
    Parts = {"Once", "Aged", "Panels", "Slots", "Maps", "Frozen", "Partner",
             "OrderQuota", "OrderDays", "ServerSlots", "Logins",
             "AccountEdits", "ManyTabs", "BusyTabs", "OneCookie", "FewTabs",
             "ServerLogins", "ServerScope", "ServerGroups", "Repeats", "Changes",
             "ListScope", "ListStatus", "ListPages", "ListSnapshot",
             "WorkerDays", "Workers", "TillCrashes", "TillRaces", "Tiers",
             "Rounds", "TwoTiers", "Shares", "StoreClosing", "StoreGroups",
             "StoreAccounts", "RatioPages", "RatioChoices", "Resets",
             "Retained"}
    u1 = u1
    u2 = u2
    b1 = b1
    b2 = b2
    m1 = m1
    m2 = m2
    s1 = s1
    s2 = s2
    s3 = s3
    n1 = n1
    n2 = n2
    q1 = q1
    q2 = q2
    a1 = a1
    a2 = a2
    t1 = t1
    t2 = t2
    t3 = t3
    g1 = g1
    g2 = g2
    r1 = r1
    r2 = r2
    w1 = w1
    w2 = w2
    i1 = i1
    k1 = k1
    k2 = k2
    A = A
    B = B
    NoBody = NoBody
    NoStore = NoStore
INVARIANTS
    CommandsOnce
    FormsSendOnce
    OrdersKept
    LoginsHold
    RightsHold
    ListsTruthful
    WorkerOnTime
    SharesFair
    StoresServed
    TillFaithful
    StoresConsistent
    RatiosKept
    ResetClean
PROPERTIES
    SettledStands
    RecordStands
CHECK_DEADLOCK FALSE
