SPECIFICATION LiveSpec
CONSTANTS
    c1 = c1
    c2 = c2
    c3 = c3
    r1 = r1
    r2 = r2
    m1 = m1
    o1 = o1
    o2 = o2
    w1 = w1
    w2 = w2
    e1 = e1
    p1 = p1
    p2 = p2
    a1 = a1
    k1 = k1
    f1 = f1
    east = east
    west = west
    s1 = s1
    NoValue = NoValue
    NotUsed = NotUsed
PROPERTIES EverythingSettles
CHECK_DEADLOCK FALSE
