SPECIFICATION LiveSpec
CONSTANTS
    i1 = i1
    i2 = i2
    o1 = o1
    o2 = o2
    p1 = p1
    p2 = p2
    w1 = w1
    r1 = r1
    r2 = r2
    n1 = n1
    n2 = n2
    n3 = n3
    n4 = n4
    g1 = g1
    g2 = g2
    reading = reading
    writing = writing
    rar = rar
    s1 = s1
    k1 = k1
    t1 = t1
    a1 = a1
    l1 = l1
    Broken = Broken
    NoValue = NoValue
    NotUsed = NotUsed
PROPERTIES NothingWaitsForever
CHECK_DEADLOCK FALSE
