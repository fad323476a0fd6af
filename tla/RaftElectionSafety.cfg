SPECIFICATION RaftSpec
CONSTANTS
    Node = {n1,n2,n3}
    NoNode = x0
    MaxTerm = 1
    MaxCalls = 4
    MaxStops = 0
CHECK_DEADLOCK FALSE
INVARIANT ElectionSafety
