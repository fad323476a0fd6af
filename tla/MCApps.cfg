INIT SuiteInit
NEXT SuiteNext
CONSTANTS
    n1 = n1
    n2 = n2
    n3 = n3
    sa1 = sa1
    sa2 = sa2
    sa3 = sa3
    sb1 = sb1
    sb2 = sb2
    sc1 = sc1
    sc2 = sc2
    u1 = u1
SYMMETRY Symmetric
CHECK_DEADLOCK FALSE
INVARIANT TypesOK
 
 
 
