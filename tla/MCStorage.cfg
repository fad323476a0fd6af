INIT SuiteInit
NEXT SuiteNext
CONSTANTS
    a1 = a1
    s1 = s1
    s2 = s2
    s3 = s3
    s4 = s4
    sa1 = sa1
    sa2 = sa2
    sa3 = sa3
    sb1 = sb1
    sb2 = sb2
    x0 = x0
SYMMETRY Symmetric
CHECK_DEADLOCK FALSE
INVARIANT TypesOK
 
INVARIANT ContentIsExact
 
 
