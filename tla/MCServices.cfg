INIT SuiteInit
NEXT SuiteNext
CONSTANTS
    c1 = c1
    d1 = d1
    e1 = e1
    h1 = h1
    i1 = i1
    j1 = j1
    j2 = j2
    l1 = l1
    n1 = n1
    p1 = p1
    r1 = r1
    s1 = s1
    s2 = s2
    s3 = s3
    sa1 = sa1
    sa2 = sa2
    sa3 = sa3
    sb1 = sb1
    sb2 = sb2
    sc1 = sc1
    sc2 = sc2
    t1 = t1
    t2 = t2
    t3 = t3
    t4 = t4
    w1 = w1
    x0 = x0
SYMMETRY Symmetric
CHECK_DEADLOCK FALSE
INVARIANT TypesOK
INVARIANT WatchersSeeTrue
INVARIANT RegistriesAgree
INVARIANT TimersFireInTime
 
 
 
PROPERTY SettledStays
