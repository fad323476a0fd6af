SPECIFICATION FairSpec
CONSTANTS
    Input = {m1,m2,m3}
    Partition = {p1}
    MaxRetries = 0
    Drain = FALSE
    MaxRuns = 1
CHECK_DEADLOCK FALSE
PROPERTY RunReturns
