SPECIFICATION Spec
CONSTANTS
    Borrowers = {"p1","p2","p3"}
    MaxConns = 2
    Waits = FALSE
    MaxDials = 3
CHECK_DEADLOCK FALSE
INVARIANT ConnExclusive
