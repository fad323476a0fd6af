INIT SuiteInit
NEXT SuiteNext
CONSTANTS
    h1 = h1
    i1 = i1
    l1 = l1
    l2 = l2
    n1 = n1
    n2 = n2
    p1 = p1
    p2 = p2
    p3 = p3
    sb1 = sb1
    sb2 = sb2
    x0 = x0
    Token = {sb1,sb2}
    MaxReentrancy = 1
    NoEntry = x0
    N = 3
    TTL = 2
    ClockDrift = 1
    MaxLag = 1
    MaxStopped = 0
SYMMETRY Symmetric
CHECK_DEADLOCK FALSE
INVARIANT TypesOK
INVARIANT MajorityIsHeld
INVARIANT ConnectionsAccounted
INVARIANT CopiesComplete
INVARIANT RequestsServed
PROPERTY ImplementsLease
 
