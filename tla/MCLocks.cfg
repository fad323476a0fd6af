INIT SuiteInit
NEXT SuiteNext
CONSTANTS
    h1 = h1
    k1 = k1
    p1 = p1
    p2 = p2
    p3 = p3
    p4 = p4
    sa1 = sa1
    sa2 = sa2
    sa3 = sa3
    sb1 = sb1
    sb2 = sb2
    sc1 = sc1
    sc2 = sc2
    x0 = x0
    Token = {sb1,sb2}
    Key = {sc1,sc2}
    TTL = {1,2}
    MaxReentrancy = 2
    NoEntry = x0
    Proc = {sa1,sa2,sa3}
    Parties = {2,3}
    Timers = {TRUE, FALSE}
    MaxRound = 2
SYMMETRY Symmetric
CHECK_DEADLOCK FALSE
INVARIANT TypesOK
INVARIANT MutualExclusion
INVARIANT ClientViewAgrees
INVARIANT PartiesMeet
INVARIANT SharedStateAgrees
 
PROPERTY ImplementsLease
