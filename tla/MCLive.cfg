SPECIFICATION SuiteSpec
CONSTANTS
    b1 = b1
    c1 = c1
    e1 = e1
    e2 = e2
    j1 = j1
    j2 = j2
    k1 = k1
    l1 = l1
    m1 = m1
    m2 = m2
    n1 = n1
    n2 = n2
    p1 = p1
    p2 = p2
    p3 = p3
    p4 = p4
    r1 = r1
    t1 = t1
    t2 = t2
    w1 = w1
    x0 = x0
    Token = {e1,e2}
    MaxReentrancy = 2
    NoEntry = x0
    LeaseDuration = 3
    HeartbeatInterval = 1
    CheckInterval = 2
    Prompt = TRUE
    Events = {"Crash"}
    Node = {n1,n2}
    NoNode = x0
    MaxTerm = 2
    MaxCalls = 3
    MaxStops = 1
    Job = {j1,j2}
    Priority <- JQLivePriority
    Loop = {l1}
    Waiter = {w1}
    PoolSize = 1
    MaxRetries = 1
    MaxEnqueues = 1
    Goroutine = {p1,p2}
    Upgrader = {p1,p2}
    Writer = {p1,p2}
    MaxReads = 2
    MaxHelpers = 1
    Proc = {p1,p2,p3,p4}
    Fair = FALSE
    MaxTotal = 2
CHECK_DEADLOCK FALSE
INVARIANT LeasesExclude
INVARIANT VotesAreKept
INVARIANT AcceptedWorkIsKept
INVARIANT HoldersAgree
INVARIANT PermitsAccounted
PROPERTY TermsGrow
PROPERTY NeverOvercommits
PROPERTY LocksRecover
 
