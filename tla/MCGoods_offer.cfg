SPECIFICATION Spec
CONSTANTS
    Parts = {"ThreeReceipts"}
    u1 = u1
    u2 = u2
    r1 = r1
    r2 = r2
    b1 = b1
    b2 = b2
    h1 = h1
    k1 = k1
    c1 = c1
    c2 = c2
    m1 = m1
    s1 = s1
    s2 = s2
    s3 = s3
    e1 = e1
    d1 = d1
    d2 = d2
    p1 = p1
    p2 = p2
    p3 = p3
    l1 = l1
    l2 = l2
    t1 = t1
    t2 = t2
    i1 = i1
    i2 = i2
    NoCommand = NoCommand
    NoOne = NoOne
    NoSource = NoSource
    Fresh = Fresh
INVARIANTS
    AcceptedOfferIsOpen
CHECK_DEADLOCK FALSE
