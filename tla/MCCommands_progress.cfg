SPECIFICATION FairSpec
CONSTANTS
    Parts = {"FairCommand", "FairShares", "FairList", "FairOrders",
             "FairTill", "FairWorker"}
    u1 = u1
    u2 = u2
    b1 = b1
    b2 = b2
    m1 = m1
    m2 = m2
    s1 = s1
    s2 = s2
    s3 = s3
    n1 = n1
    n2 = n2
    q1 = q1
    q2 = q2
    a1 = a1
    a2 = a2
    t1 = t1
    t2 = t2
    t3 = t3
    g1 = g1
    g2 = g2
    r1 = r1
    r2 = r2
    w1 = w1
    w2 = w2
    i1 = i1
    k1 = k1
    k2 = k2
    A = A
    B = B
    NoBody = NoBody
    NoStore = NoStore
PROPERTIES
    WorkEnds
CHECK_DEADLOCK FALSE
