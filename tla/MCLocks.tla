------------------------------ MODULE MCLocks -------------------------------
(*****************************************************************************)
(* The lock manager, the leader elector, the semaphore, the barrier, the     *)
(* read-write lock, the connection pool, the bulkhead, the idempotent        *)
(* executor, the migrations, the renewal of certificates and the chain of    *)
(* timeouts on small instances. A behaviour is about one of the              *)
(* components, the one named by which; the lock manager and the barrier      *)
(* keep their own variables, the others use the slots.                       *)
(*****************************************************************************)
EXTENDS LockManager, Barrier, Integers, Sequences, FiniteSets, TLC

CONSTANTS h1, k1, p1, p2, p3, p4, sa1, sa2, sa3, sb1, sb2, sc1, sc2, x0

VARIABLES
    which,   \* the component this behaviour is about
    x1, x2, x3, x4, x5, x6, x7, x8, x9, x10, x11, x12, x13, x14, x15, x16   \* its variables

slots == <<x1, x2, x3, x4, x5, x6, x7, x8, x9, x10, x11, x12, x13, x14, x15, x16>>
all == <<which, vars, barVars, slots>>

ASSUME BarrierAssumption

BarExact == INSTANCE Barrier WITH
    Proc <- {sa1,sa2,sa3}, Parties <- {3}, Timers <- {FALSE}, MaxRound <- 3,
    participants <- x1, effectiveNeeded <- x2, arrived <- x3, waiting <- x4,
    broken <- x5, released <- x6, waiters <- x7, round <- x8, pc <- x9, timed <- x10,
    done <- x11, releases <- x12, trips <- x13
ASSUME BarExact!BarrierAssumption

Bk == INSTANCE Pools WITH
    Worker <- {sa1,sa2,sa3}, BulkheadCaller <- {h1}, Sizes <- {1,2}, QueueSizes <- {0,2},
    BulkheadWait <- FALSE, MaxTasks <- 3, MaxResizes <- 2, worker <- x1, waiting <- x2,
    bulkheadCall <- x3, queue <- x4, task <- x5, ran <- x6, accepted <- x7,
    semHolders <- x8, idleWorkers <- x9, workerCnt <- x10, shrinkCnt <- x11,
    maxConcurrency <- x12, maxQueueSize <- x13, resizes <- x14, bulkheadClosed <- x15,
    returned <- x16, ConnCaller <- 0, InitialCap <- 0, MaxCap <- 0, MaxIdle <- 0,
    ConnWait <- 0, Ping <- 0, Expiry <- 0, Failures <- 0, MaxConns <- 0, IdemCaller <- 0,
    Key <- 0, TTL <- 0, Manual <- 0, MaxTime <- 0, MaxRuns <- 0, idle <- 0, active <- 0,
    count <- 0, connClosed <- 0, conns <- 0, connCall <- 0, waiters <- 0, stale <- 0,
    hb <- 0, closing <- 0, now <- 0, cache <- 0, pending <- 0, runs <- 0, idemCall <- 0,
    running <- 0, stopped <- 0, cleaners <- 0, replay <- 0

BkWait == INSTANCE Pools WITH
    Worker <- {sb1,sb2}, BulkheadCaller <- {sc1,sc2}, Sizes <- {1,2}, QueueSizes <- {1},
    BulkheadWait <- TRUE, MaxTasks <- 2, MaxResizes <- 1, worker <- x1, waiting <- x2,
    bulkheadCall <- x3, queue <- x4, task <- x5, ran <- x6, accepted <- x7,
    semHolders <- x8, idleWorkers <- x9, workerCnt <- x10, shrinkCnt <- x11,
    maxConcurrency <- x12, maxQueueSize <- x13, resizes <- x14, bulkheadClosed <- x15,
    returned <- x16, ConnCaller <- 0, InitialCap <- 0, MaxCap <- 0, MaxIdle <- 0,
    ConnWait <- 0, Ping <- 0, Expiry <- 0, Failures <- 0, MaxConns <- 0, IdemCaller <- 0,
    Key <- 0, TTL <- 0, Manual <- 0, MaxTime <- 0, MaxRuns <- 0, idle <- 0, active <- 0,
    count <- 0, connClosed <- 0, conns <- 0, connCall <- 0, waiters <- 0, stale <- 0,
    hb <- 0, closing <- 0, now <- 0, cache <- 0, pending <- 0, runs <- 0, idemCall <- 0,
    running <- 0, stopped <- 0, cleaners <- 0, replay <- 0

El == INSTANCE LeaderElector WITH
    Token <- {sb1,sb2}, MaxReentrancy <- 2, NoEntry <- x0, LeaseDuration <- 3,
    HeartbeatInterval <- 1, CheckInterval <- 2, Prompt <- FALSE, Events <- {"Resign"},
    entry <- x1, backend <- x2, el <- x3
ASSUME El!ConfigAssumption

ElPrompt == INSTANCE LeaderElector WITH
    Token <- {sb1,sb2}, MaxReentrancy <- 2, NoEntry <- x0, LeaseDuration <- 3,
    HeartbeatInterval <- 1, CheckInterval <- 2, Prompt <- TRUE,
    Events <- {"Stop","Crash","StopBackend"}, entry <- x1, backend <- x2, el <- x3
ASSUME ElPrompt!ConfigAssumption

Cr == INSTANCE Deadlines WITH
    Conn <- {}, Validity <- 4, RenewalBuffer <- 3, CheckInterval <- 1,
    RetirementTimeout <- 1, IssueTime <- 1, CertMaxTime <- 5, MaxCerts <- 3,
    MaxFails <- 1, certNow <- x1, due <- x2, issued <- x3, notAfter <- x4,
    activeCert <- x5, pendingCert <- x6, renewer <- x7, fails <- x8, retirer <- x9,
    certDeadline <- x10, connections <- x11, conn <- x12, cert <- x13, toClose <- x14,
    late <- x15, certClosed <- x16, Stages <- 0, Budgets <- 0, TotalTimeout <- 0,
    MinThreshold <- 0, ChainMaxTime <- 0, Req <- 0, Caller <- 0, Callback <- 0,
    chainNow <- 0, began <- 0, budget <- 0, parent <- 0, step <- 0, i <- 0,
    carryOver <- 0, start <- 0, chainDeadline <- 0, status <- 0, reason <- 0,
    success <- 0, failedStage <- 0, idle <- 0, state <- 0, phase <- 0, accepting <- 0,
    activeRequests <- 0, order <- 0, listener <- 0, trigger <- 0, signal <- 0,
    shutdownClosed <- 0, req <- 0, caller <- 0, expired <- 0, errors <- 0, todo <- 0,
    ran <- 0, alive <- 0, report <- 0

Cp == INSTANCE Pools WITH
    ConnCaller <- {sa1,sa2,sa3}, InitialCap <- 1, ConnWait <- TRUE, MaxCap <- 2,
    MaxIdle <- 1, Ping <- FALSE, Expiry <- TRUE, Failures <- FALSE, MaxConns <- 4,
    idle <- x1, active <- x2, count <- x3, connClosed <- x4, conns <- x5, connCall <- x6,
    waiters <- x7, stale <- x8, hb <- x9, closing <- x10, Worker <- 0,
    BulkheadCaller <- 0, Sizes <- 0, QueueSizes <- 0, BulkheadWait <- 0, MaxTasks <- 0,
    MaxResizes <- 0, IdemCaller <- 0, Key <- 0, TTL <- 0, Manual <- 0, MaxTime <- 0,
    MaxRuns <- 0, worker <- 0, waiting <- 0, bulkheadCall <- 0, queue <- 0, task <- 0,
    ran <- 0, accepted <- 0, semHolders <- 0, idleWorkers <- 0, workerCnt <- 0,
    shrinkCnt <- 0, maxConcurrency <- 0, maxQueueSize <- 0, resizes <- 0,
    bulkheadClosed <- 0, returned <- 0, now <- 0, cache <- 0, pending <- 0, runs <- 0,
    idemCall <- 0, running <- 0, stopped <- 0, cleaners <- 0, replay <- 0

CpPing == INSTANCE Pools WITH
    ConnCaller <- {sb1,sb2}, InitialCap <- 1, ConnWait <- TRUE, MaxCap <- 2,
    MaxIdle <- 1, Ping <- TRUE, Expiry <- FALSE, Failures <- TRUE, MaxConns <- 4,
    idle <- x1, active <- x2, count <- x3, connClosed <- x4, conns <- x5, connCall <- x6,
    waiters <- x7, stale <- x8, hb <- x9, closing <- x10, Worker <- 0,
    BulkheadCaller <- 0, Sizes <- 0, QueueSizes <- 0, BulkheadWait <- 0, MaxTasks <- 0,
    MaxResizes <- 0, IdemCaller <- 0, Key <- 0, TTL <- 0, Manual <- 0, MaxTime <- 0,
    MaxRuns <- 0, worker <- 0, waiting <- 0, bulkheadCall <- 0, queue <- 0, task <- 0,
    ran <- 0, accepted <- 0, semHolders <- 0, idleWorkers <- 0, workerCnt <- 0,
    shrinkCnt <- 0, maxConcurrency <- 0, maxQueueSize <- 0, resizes <- 0,
    bulkheadClosed <- 0, returned <- 0, now <- 0, cache <- 0, pending <- 0, runs <- 0,
    idemCall <- 0, running <- 0, stopped <- 0, cleaners <- 0, replay <- 0

CpBeat == INSTANCE Pools WITH
    ConnCaller <- {sa1,sa2,sa3}, InitialCap <- 1, ConnWait <- TRUE, MaxCap <- 2,
    MaxIdle <- 2, Ping <- TRUE, Expiry <- FALSE, Failures <- FALSE, MaxConns <- 3,
    idle <- x1, active <- x2, count <- x3, connClosed <- x4, conns <- x5, connCall <- x6,
    waiters <- x7, stale <- x8, hb <- x9, closing <- x10, Worker <- 0,
    BulkheadCaller <- 0, Sizes <- 0, QueueSizes <- 0, BulkheadWait <- 0, MaxTasks <- 0,
    MaxResizes <- 0, IdemCaller <- 0, Key <- 0, TTL <- 0, Manual <- 0, MaxTime <- 0,
    MaxRuns <- 0, worker <- 0, waiting <- 0, bulkheadCall <- 0, queue <- 0, task <- 0,
    ran <- 0, accepted <- 0, semHolders <- 0, idleWorkers <- 0, workerCnt <- 0,
    shrinkCnt <- 0, maxConcurrency <- 0, maxQueueSize <- 0, resizes <- 0,
    bulkheadClosed <- 0, returned <- 0, now <- 0, cache <- 0, pending <- 0, runs <- 0,
    idemCall <- 0, running <- 0, stopped <- 0, cleaners <- 0, replay <- 0

CpNow == INSTANCE Pools WITH
    ConnCaller <- {sb1,sb2}, InitialCap <- 1, ConnWait <- FALSE, MaxCap <- 2,
    MaxIdle <- 2, Ping <- FALSE, Expiry <- TRUE, Failures <- FALSE, MaxConns <- 4,
    idle <- x1, active <- x2, count <- x3, connClosed <- x4, conns <- x5, connCall <- x6,
    waiters <- x7, stale <- x8, hb <- x9, closing <- x10, Worker <- 0,
    BulkheadCaller <- 0, Sizes <- 0, QueueSizes <- 0, BulkheadWait <- 0, MaxTasks <- 0,
    MaxResizes <- 0, IdemCaller <- 0, Key <- 0, TTL <- 0, Manual <- 0, MaxTime <- 0,
    MaxRuns <- 0, worker <- 0, waiting <- 0, bulkheadCall <- 0, queue <- 0, task <- 0,
    ran <- 0, accepted <- 0, semHolders <- 0, idleWorkers <- 0, workerCnt <- 0,
    shrinkCnt <- 0, maxConcurrency <- 0, maxQueueSize <- 0, resizes <- 0,
    bulkheadClosed <- 0, returned <- 0, now <- 0, cache <- 0, pending <- 0, runs <- 0,
    idemCall <- 0, running <- 0, stopped <- 0, cleaners <- 0, replay <- 0

Ie == INSTANCE Pools WITH
    IdemCaller <- {sa1,sa2,sa3}, Key <- {sb1,sb2}, TTL <- 2, Manual <- FALSE,
    MaxTime <- 3, MaxRuns <- 3, now <- x1, cache <- x2, pending <- x3, runs <- x4,
    idemCall <- x5, running <- x6, stopped <- x7, cleaners <- x8, replay <- x9,
    ConnCaller <- 0, InitialCap <- 0, MaxCap <- 0, MaxIdle <- 0, ConnWait <- 0,
    Ping <- 0, Expiry <- 0, Failures <- 0, MaxConns <- 0, Worker <- 0,
    BulkheadCaller <- 0, Sizes <- 0, QueueSizes <- 0, BulkheadWait <- 0, MaxTasks <- 0,
    MaxResizes <- 0, idle <- 0, active <- 0, count <- 0, connClosed <- 0, conns <- 0,
    connCall <- 0, waiters <- 0, stale <- 0, hb <- 0, closing <- 0, worker <- 0,
    waiting <- 0, bulkheadCall <- 0, queue <- 0, task <- 0, ran <- 0, accepted <- 0,
    semHolders <- 0, idleWorkers <- 0, workerCnt <- 0, shrinkCnt <- 0,
    maxConcurrency <- 0, maxQueueSize <- 0, resizes <- 0, bulkheadClosed <- 0,
    returned <- 0

IeManual == INSTANCE Pools WITH
    IdemCaller <- {sb1,sb2}, Key <- {k1}, TTL <- 2, Manual <- TRUE, MaxTime <- 3,
    MaxRuns <- 3, now <- x1, cache <- x2, pending <- x3, runs <- x4, idemCall <- x5,
    running <- x6, stopped <- x7, cleaners <- x8, replay <- x9, ConnCaller <- 0,
    InitialCap <- 0, MaxCap <- 0, MaxIdle <- 0, ConnWait <- 0, Ping <- 0, Expiry <- 0,
    Failures <- 0, MaxConns <- 0, Worker <- 0, BulkheadCaller <- 0, Sizes <- 0,
    QueueSizes <- 0, BulkheadWait <- 0, MaxTasks <- 0, MaxResizes <- 0, idle <- 0,
    active <- 0, count <- 0, connClosed <- 0, conns <- 0, connCall <- 0, waiters <- 0,
    stale <- 0, hb <- 0, closing <- 0, worker <- 0, waiting <- 0, bulkheadCall <- 0,
    queue <- 0, task <- 0, ran <- 0, accepted <- 0, semHolders <- 0, idleWorkers <- 0,
    workerCnt <- 0, shrinkCnt <- 0, maxConcurrency <- 0, maxQueueSize <- 0, resizes <- 0,
    bulkheadClosed <- 0, returned <- 0

RW == INSTANCE RWLocker WITH
    Goroutine <- {sa1,sa2,sa3}, Upgrader <- {sa1,sa2,sa3}, Writer <- {sa1,sa2,sa3},
    MaxReads <- 2, MaxHelpers <- 1, readerCount <- x1, writerWaiting <- x2,
    writerActive <- x3, at <- x4, reads <- x5, registry <- x6, mine <- x7, asleep <- x8,
    helpers <- x9
ASSUME RW!RWLockerAssumption

Sm == INSTANCE Maintenance WITH
    Migrator <- {sb1,sb2}, Last <- 3, NoDown <- {2}, LockTimeout <- 1, Prompt <- TRUE,
    SchemaMaxTime <- 2, MaxCalls <- 3, SchemaMaxFaults <- 2, schemaNow <- x1,
    applied <- x2, effect <- x3, row <- x4, mig <- x5, calls <- x6, schemaFaults <- x7,
    unsure <- x8, BatchSize <- 0, MaxRetryPerBatch <- 0, EnableCheckpoint <- 0,
    Records <- 0, MaxRuns <- 0, PipeMaxFaults <- 0, RotationMode <- 0, MaxFileSize <- 0,
    Compress <- 0, MaxBackups <- 0, TTL <- 0, Busy <- 0, MaxLines <- 0, MaxName <- 0,
    LogMaxTime <- 0, LogMaxFaults <- 0, source <- 0, copies <- 0, checkpoint <- 0,
    cursor <- 0, status <- 0, phase <- 0, batch <- 0, attempt <- 0, stopped <- 0,
    goal <- 0, runs <- 0, pipeFaults <- 0, stops <- 0, logNow <- 0, lines <- 0,
    file <- 0, date <- 0, orphan <- 0, broken <- 0, plain <- 0, gz <- 0, comp <- 0,
    removed <- 0, logFaults <- 0

Sem == INSTANCE Semaphore WITH
    Proc <- {p1,p2,p3,p4}, Fair <- FALSE, MaxTotal <- 2, held <- x1, totalPermits <- x2,
    waiters <- x3, pc <- x4, ch <- x5, timed <- x6
ASSUME Sem!SemaphoreAssumption

SemFair == INSTANCE Semaphore WITH
    Proc <- {p1,p2,p3,p4}, Fair <- TRUE, MaxTotal <- 2, held <- x1, totalPermits <- x2,
    waiters <- x3, pc <- x4, ch <- x5, timed <- x6
ASSUME SemFair!SemaphoreAssumption

Tp == INSTANCE Deadlines WITH
    Stages <- 3, Budgets <- 0..2, TotalTimeout <- 4, MinThreshold <- 2,
    ChainMaxTime <- 4, chainNow <- x1, began <- x2, budget <- x3, parent <- x4,
    step <- x5, i <- x6, carryOver <- x7, start <- x8, chainDeadline <- x9,
    status <- x10, reason <- x11, success <- x12, failedStage <- x13, idle <- x14,
    Conn <- 0, Validity <- 0, RenewalBuffer <- 0, CheckInterval <- 0,
    RetirementTimeout <- 0, IssueTime <- 0, CertMaxTime <- 0, MaxCerts <- 0,
    MaxFails <- 0, Req <- 0, Caller <- 0, Callback <- 0, certNow <- 0, due <- 0,
    issued <- 0, notAfter <- 0, activeCert <- 0, pendingCert <- 0, renewer <- 0,
    fails <- 0, retirer <- 0, certDeadline <- 0, connections <- 0, conn <- 0, cert <- 0,
    toClose <- 0, late <- 0, certClosed <- 0, state <- 0, phase <- 0, accepting <- 0,
    activeRequests <- 0, order <- 0, listener <- 0, trigger <- 0, signal <- 0,
    shutdownClosed <- 0, req <- 0, caller <- 0, expired <- 0, errors <- 0, todo <- 0,
    ran <- 0, alive <- 0, report <- 0

-----------------------------------------------------------------------------
SuiteInit ==
    \/ /\ which = "LockManager" /\ Init /\ BarInit /\ participants = 2 /\ x1 = 0 /\ x2 = 0 /\ x3 = 0 /\ x4 = 0 /\ x5 = 0 /\ x6 = 0 /\ x7 = 0 /\ x8 = 0 /\ x9 = 0 /\ x10 = 0 /\ x11 = 0 /\ x12 = 0 /\ x13 = 0 /\ x14 = 0 /\ x15 = 0 /\ x16 = 0
    \/ /\ which = "Bar" /\ Init /\ BarInit /\ x1 = 0 /\ x2 = 0 /\ x3 = 0 /\ x4 = 0 /\ x5 = 0 /\ x6 = 0 /\ x7 = 0 /\ x8 = 0 /\ x9 = 0 /\ x10 = 0 /\ x11 = 0 /\ x12 = 0 /\ x13 = 0 /\ x14 = 0 /\ x15 = 0 /\ x16 = 0
    \/ /\ which = "BarExact" /\ BarExact!BarInit /\ Init /\ BarInit /\ participants = 2 /\ x14 = 0 /\ x15 = 0 /\ x16 = 0
    \/ /\ which = "Bk" /\ Bk!BulkheadInit /\ Init /\ BarInit /\ participants = 2
    \/ /\ which = "BkWait" /\ BkWait!BulkheadInit /\ Init /\ BarInit /\ participants = 2
    \/ /\ which = "El" /\ El!Init /\ Init /\ BarInit /\ participants = 2 /\ x4 = 0 /\ x5 = 0 /\ x6 = 0 /\ x7 = 0 /\ x8 = 0 /\ x9 = 0 /\ x10 = 0 /\ x11 = 0 /\ x12 = 0 /\ x13 = 0 /\ x14 = 0 /\ x15 = 0 /\ x16 = 0
    \/ /\ which = "ElPrompt" /\ ElPrompt!Init /\ Init /\ BarInit /\ participants = 2 /\ x4 = 0 /\ x5 = 0 /\ x6 = 0 /\ x7 = 0 /\ x8 = 0 /\ x9 = 0 /\ x10 = 0 /\ x11 = 0 /\ x12 = 0 /\ x13 = 0 /\ x14 = 0 /\ x15 = 0 /\ x16 = 0
    \/ /\ which = "Cr" /\ Cr!CertInit /\ Init /\ BarInit /\ participants = 2
    \/ /\ which = "Cp" /\ Cp!ConnInit /\ Init /\ BarInit /\ participants = 2 /\ x11 = 0 /\ x12 = 0 /\ x13 = 0 /\ x14 = 0 /\ x15 = 0 /\ x16 = 0
    \/ /\ which = "CpPing" /\ CpPing!ConnInit /\ Init /\ BarInit /\ participants = 2 /\ x11 = 0 /\ x12 = 0 /\ x13 = 0 /\ x14 = 0 /\ x15 = 0 /\ x16 = 0
    \/ /\ which = "CpBeat" /\ CpBeat!ConnInit /\ Init /\ BarInit /\ participants = 2 /\ x11 = 0 /\ x12 = 0 /\ x13 = 0 /\ x14 = 0 /\ x15 = 0 /\ x16 = 0
    \/ /\ which = "CpNow" /\ CpNow!ConnInit /\ Init /\ BarInit /\ participants = 2 /\ x11 = 0 /\ x12 = 0 /\ x13 = 0 /\ x14 = 0 /\ x15 = 0 /\ x16 = 0
    \/ /\ which = "Ie" /\ Ie!IdemInit /\ Init /\ BarInit /\ participants = 2 /\ x10 = 0 /\ x11 = 0 /\ x12 = 0 /\ x13 = 0 /\ x14 = 0 /\ x15 = 0 /\ x16 = 0
    \/ /\ which = "IeManual" /\ IeManual!IdemInit /\ Init /\ BarInit /\ participants = 2 /\ x10 = 0 /\ x11 = 0 /\ x12 = 0 /\ x13 = 0 /\ x14 = 0 /\ x15 = 0 /\ x16 = 0
    \/ /\ which = "RW" /\ RW!RWInit /\ Init /\ BarInit /\ participants = 2 /\ x10 = 0 /\ x11 = 0 /\ x12 = 0 /\ x13 = 0 /\ x14 = 0 /\ x15 = 0 /\ x16 = 0
    \/ /\ which = "Sm" /\ Sm!SchemaInit /\ Init /\ BarInit /\ participants = 2 /\ x9 = 0 /\ x10 = 0 /\ x11 = 0 /\ x12 = 0 /\ x13 = 0 /\ x14 = 0 /\ x15 = 0 /\ x16 = 0
    \/ /\ which = "Sem" /\ Sem!SemInit /\ Init /\ BarInit /\ participants = 2 /\ x7 = 0 /\ x8 = 0 /\ x9 = 0 /\ x10 = 0 /\ x11 = 0 /\ x12 = 0 /\ x13 = 0 /\ x14 = 0 /\ x15 = 0 /\ x16 = 0
    \/ /\ which = "SemFair" /\ SemFair!SemInit /\ Init /\ BarInit /\ participants = 2 /\ x7 = 0 /\ x8 = 0 /\ x9 = 0 /\ x10 = 0 /\ x11 = 0 /\ x12 = 0 /\ x13 = 0 /\ x14 = 0 /\ x15 = 0 /\ x16 = 0
    \/ /\ which = "Tp" /\ Tp!ChainInit /\ Init /\ BarInit /\ participants = 2 /\ x15 = 0 /\ x16 = 0

SuiteNext ==
    /\ UNCHANGED which
    /\ \/ /\ which = "LockManager" /\ Next /\ UNCHANGED <<barVars, slots>>
       \/ /\ which = "Bar" /\ BarNext /\ UNCHANGED <<vars, slots>>
       \/ /\ which = "BarExact" /\ BarExact!Step /\ UNCHANGED <<vars, barVars, x14, x15, x16>>
       \/ /\ which = "Bk" /\ Bk!BulkheadNext /\ UNCHANGED <<vars, barVars>>
       \/ /\ which = "BkWait" /\ BkWait!BulkheadNext /\ UNCHANGED <<vars, barVars>>
       \/ /\ which = "El" /\ El!Next /\ UNCHANGED <<vars, barVars, x4, x5, x6, x7, x8, x9, x10, x11, x12, x13, x14, x15, x16>>
       \/ /\ which = "ElPrompt" /\ ElPrompt!Next /\ UNCHANGED <<vars, barVars, x4, x5, x6, x7, x8, x9, x10, x11, x12, x13, x14, x15, x16>>
       \/ /\ which = "Cr" /\ Cr!CertNext /\ UNCHANGED <<vars, barVars>>
       \/ /\ which = "Cp" /\ Cp!ConnNext /\ UNCHANGED <<vars, barVars, x11, x12, x13, x14, x15, x16>>
       \/ /\ which = "CpPing" /\ CpPing!ConnNext /\ UNCHANGED <<vars, barVars, x11, x12, x13, x14, x15, x16>>
       \/ /\ which = "CpBeat" /\ CpBeat!ConnNext /\ UNCHANGED <<vars, barVars, x11, x12, x13, x14, x15, x16>>
       \/ /\ which = "CpNow" /\ CpNow!ConnNext /\ UNCHANGED <<vars, barVars, x11, x12, x13, x14, x15, x16>>
       \/ /\ which = "Ie" /\ Ie!IdemNext /\ UNCHANGED <<vars, barVars, x10, x11, x12, x13, x14, x15, x16>>
       \/ /\ which = "IeManual" /\ IeManual!IdemNext /\ UNCHANGED <<vars, barVars, x10, x11, x12, x13, x14, x15, x16>>
       \/ /\ which = "RW" /\ RW!RWNext /\ UNCHANGED <<vars, barVars, x10, x11, x12, x13, x14, x15, x16>>
       \/ /\ which = "Sm" /\ Sm!SchemaNext /\ UNCHANGED <<vars, barVars, x9, x10, x11, x12, x13, x14, x15, x16>>
       \/ /\ which = "Sem" /\ Sem!SemNext /\ UNCHANGED <<vars, barVars, x7, x8, x9, x10, x11, x12, x13, x14, x15, x16>>
       \/ /\ which = "SemFair" /\ SemFair!SemNext /\ UNCHANGED <<vars, barVars, x7, x8, x9, x10, x11, x12, x13, x14, x15, x16>>
       \/ /\ which = "Tp" /\ Tp!ChainNext /\ UNCHANGED <<vars, barVars, x15, x16>>

Symmetric == Permutations({sb1, sb2}) \cup Permutations({sc1, sc2}) \cup Permutations({sa1, sa2, sa3})

-----------------------------------------------------------------------------
(* Each component keeps its variables in their types. *)
TypesOK ==
    /\ which = "LockManager" => TypeOK
    /\ which = "LockManager" => ReentrancyBounded
    /\ which = "Bar" => BarTypeOK
    /\ which = "BarExact" => BarExact!BarTypeOK
    /\ which = "Bk" => Bk!BulkheadTypeOK
    /\ which = "BkWait" => BkWait!BulkheadTypeOK
    /\ which = "El" => El!TypeOK
    /\ which = "ElPrompt" => ElPrompt!TypeOK
    /\ which = "Cr" => Cr!CertTypeOK
    /\ which = "Cp" => Cp!ConnTypeOK
    /\ which = "CpPing" => CpPing!ConnTypeOK
    /\ which = "CpBeat" => CpBeat!ConnTypeOK
    /\ which = "CpNow" => CpNow!ConnTypeOK
    /\ which = "Ie" => Ie!IdemTypeOK
    /\ which = "IeManual" => IeManual!IdemTypeOK
    /\ which = "RW" => RW!RWTypeOK
    /\ which = "Sm" => Sm!SchemaTypeOK
    /\ which = "Sem" => Sem!SemTypeOK
    /\ which = "SemFair" => SemFair!SemTypeOK
    /\ which = "Tp" => Tp!ChainTypeOK

(* A grant, a timeout, a release and a resize may race: held counts exactly  *)
(* the callers that hold a permit or have one waiting in their channel,      *)
(* nobody waits while a permit is free, and every blocked caller is in the   *)
(* queue or has its answer.                                                  *)
(* The callback is told the round it ends: with as many callers as parties   *)
(* and no timeouts, the n-th release runs with round n.                      *)
(* However the loop, Resign and Stop of an elector interleave, its lock is   *)
(* never nested; and with nobody delayed and nobody resigning a leader holds *)
(* the lock whenever the backend is up.                                      *)
(* Whoever is between mu.Lock and mu.Unlock, a goroutine or the helper of a  *)
(* call that timed out, is alone: no second writer, and no reader, although  *)
(* an upgrade gives its read locks back and takes mu again, and a timed-out  *)
(* call takes mu when nobody waits for it any more.                          *)
(* readerCount is exact at every moment, whatever timeouts, failed attempts, *)
(* upgrades and their helpers have added and taken back.  An upgrader waits  *)
(* for it to reach zero, so a leaked count would block upgrades for good.    *)
(* writerActive and the detector's registry agree with the mutex between     *)
(* calls: a goroutine at rest is registered for exactly what it holds.       *)
(* Readers are held back only for an upgrade under way: writerWaiting is     *)
(* never left set by a call that has ended, on its success or timeout path.  *)
(* The lock table lets one Migrator work at a time, whatever crashes or      *)
(* fails, as long as none outlives its lock.                                 *)
(* What the migrations table lists is what was executed and not undone, once *)
(* each, except for the version a Migrator is at and those whose record was  *)
(* lost.                                                                     *)
(* Versions are brought up in order and back in reverse: the table lists a   *)
(* prefix of them, whichever calls fail half way.                            *)
SharedStateAgrees ==
    /\ which = "Sem" => Sem!PermitsAccounted
    /\ which = "SemFair" => SemFair!PermitsAccounted
    /\ which = "BarExact" => BarExact!CallbackSeesItsRound
    /\ which = "El" => El!LeasesExclude
    /\ which = "ElPrompt" => ElPrompt!LeasesExclude
    /\ which = "RW" => RW!WriterIsAlone
    /\ which = "RW" => RW!ReaderCountExact
    /\ which = "RW" => RW!RegistryAgrees
    /\ which = "RW" => RW!HeldBackForUpgrade
    /\ which = "Sm" => Sm!MigrationsExclusive
    /\ which = "Sm" => Sm!RecordsMatch
    /\ which = "Sm" => Sm!NoVersionSkipped

=============================================================================
