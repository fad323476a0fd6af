----------------------------- MODULE MCServices -----------------------------
(*****************************************************************************)
(* Job queue, schedulers, dead letters, saga, shutdown, DAG and workflow     *)
(* execution, map-reduce, publish-subscribe with its topic tree, webhooks,   *)
(* the websocket center, stream and extraction pipelines, the HTTP           *)
(* balancers, the audit log and the alert engine; and Redlock with nodes     *)
(* that stop. A behaviour is about one of the components, the one named by   *)
(* which; its variables are in the slots.                                    *)
(*****************************************************************************)
EXTENDS Integers, Sequences, FiniteSets, TLC

CONSTANTS c1, d1, e1, h1, i1, j1, j2, l1, n1, p1, r1, s1, s2, s3, sa1, sa2, sa3, sb1, sb2, sc1, sc2, t1, t2, t3, t4, w1, x0

VARIABLES
    which,   \* the component this behaviour is about
    x1, x2, x3, x4, x5, x6, x7, x8, x9, x10, x11, x12, x13, x14, x15, x16, x17, x18, x19, x20, x21, x22, x23   \* its variables

slots == <<x1, x2, x3, x4, x5, x6, x7, x8, x9, x10, x11, x12, x13, x14, x15, x16, x17, x18, x19, x20, x21, x22, x23>>
all == <<which, slots>>

Al == INSTANCE Watching WITH
    
    Rules <- {[id |-> "count", cond |-> [kind |-> "threshold", op |-> ">", limit |-> 1], duration |-> [kind |-> "count", n |-> 2], inhibit |-> 2, silent |-> {[kind |-> "daily", from |-> 2, to |-> 1]}, escalations |-> <<[from |-> "warn", to |-> "alert", after |-> 1], [from |-> "alert", to |-> "crit", after |-> 2]>>, initial |-> "warn", levelNotifiers |-> [l \in {"crit"} |-> {n1}], notifiers |-> {n1, "gone"}],
      [id |-> "time", cond |-> [kind |-> "threshold", op |-> ">=", limit |-> 1], duration |-> [kind |-> "time", n |-> 1], inhibit |-> 1, silent |-> {[kind |-> "daily", from |-> 0, to |-> 1], [kind |-> "range", from |-> 3, to |-> 4]}, escalations |-> <<>>, initial |-> "warn", levelNotifiers |-> [l \in {} |-> {}], notifiers |-> {}],
      [id |-> "plain", cond |-> [kind |-> "threshold", op |-> ">", limit |-> 1], duration |-> [kind |-> "none", n |-> 0], inhibit |-> 0, silent |-> {}, escalations |-> <<[from |-> "warn", to |-> "crit", after |-> 1]>>, initial |-> "warn", levelNotifiers |-> [l \in {} |-> {}], notifiers |-> {n1}],
      [id |-> "ring", cond |-> [kind |-> "ring", period |-> 2, tolerance |-> 0, percent |-> 100], duration |-> [kind |-> "none", n |-> 0], inhibit |-> 0, silent |-> {}, escalations |-> <<>>, initial |-> "warn", levelNotifiers |-> [l \in {} |-> {}], notifiers |-> {n1}]},
    Value <- 0 .. 2, Late <- {0,1}, Notifier <- {n1}, Day <- 3, maxHistorySize <- 3,
    MaxTime <- 4, MaxEvals <- 4, now <- x1, rule <- x2, alert <- x3, notifiers <- x4,
    evals <- x5, sent <- x6, Caller <- 0, Worker <- 0, BufferSize <- 0, MaxRetries <- 0,
    EarlyStop <- 0, MaxLogs <- 0, Damages <- 0, started <- 0, stopped <- 0, logs <- 0,
    buffer <- 0, closed <- 0, running <- 0, call <- 0, trying <- 0, written <- 0,
    given <- 0, stopping <- 0, damage <- 0

Au == INSTANCE Watching WITH
    Caller <- {sb1,sb2}, Worker <- {w1}, BufferSize <- 1, MaxRetries <- 1,
    EarlyStop <- FALSE, MaxLogs <- 3,
    Damages <- {"memory","detail","chain","spoof","delete","truncate"}, started <- x1,
    stopped <- x2, logs <- x3, buffer <- x4, closed <- x5, running <- x6, call <- x7,
    trying <- x8, written <- x9, given <- x10, stopping <- x11, damage <- x12,
    Rules <- 0, Value <- 0, Late <- 0, Notifier <- 0, Day <- 0, maxHistorySize <- 0,
    MaxTime <- 0, MaxEvals <- 0, now <- 0, rule <- 0, alert <- 0, notifiers <- 0,
    evals <- 0, sent <- 0

RdStop == INSTANCE Redlock WITH
    Token <- {c1}, MaxReentrancy <- 2, NoEntry <- x0, N <- 3, TTL <- 2, ClockDrift <- 1,
    MaxLag <- 1, MaxStopped <- 1, node <- x1, up <- x2, cli <- x3, acq <- x4, left <- x5
ASSUME RdStop!RedlockAssumption

CN == INSTANCE Schedulers WITH
    Secs <- 2, Mins <- 2, Hours <- 2, Days <- <<4,2>>, Week <- 3, Years <- 2,
    MaxStep <- 3, From <- {0,11,40},
    SmallFields <- {{[type |-> "wildcard", lo |-> 0, hi |-> 0, step |-> 1]}, {[type |-> "single", lo |-> 1, hi |-> 1, step |-> 1]}},
    expr <- x1, from <- x2, candidate <- x3, result <- x4, CronTask <- 0, Loop <- 0,
    CronMaxTime <- 0, DelayTask <- 0, Repeating <- 0, Cron <- 0, DelayMaxTime <- 0,
    cronNow <- 0, cronRunning <- 0, stops <- 0, cronTasks <- 0, cronHeap <- 0,
    cronStatus <- 0, nextRun <- 0, cronLoop <- 0, cronUntil <- 0, cronWoken <- 0,
    stopped <- 0, cronExec <- 0, delayNow <- 0, delayRunning <- 0, stopping <- 0,
    delayTasks <- 0, delayHeap <- 0, delayStatus <- 0, executeAt <- 0, delayLoop <- 0,
    delayUntil <- 0, delayWoken <- 0, delayExec <- 0

CS == INSTANCE Schedulers WITH
    CronTask <- {sb1,sb2}, Loop <- {sc1,sc2}, CronMaxTime <- 2, cronNow <- x1,
    cronRunning <- x2, stops <- x3, cronTasks <- x4, cronHeap <- x5, cronStatus <- x6,
    nextRun <- x7, cronLoop <- x8, cronUntil <- x9, cronWoken <- x10, stopped <- x11,
    cronExec <- x12, Secs <- 0, Mins <- 0, Hours <- 0, Days <- 0, Week <- 0, Years <- 0,
    MaxStep <- 0, From <- 0, SmallFields <- 0, DelayTask <- 0, Repeating <- 0, Cron <- 0,
    DelayMaxTime <- 0, expr <- 0, from <- 0, candidate <- 0, result <- 0, delayNow <- 0,
    delayRunning <- 0, stopping <- 0, delayTasks <- 0, delayHeap <- 0, delayStatus <- 0,
    executeAt <- 0, delayLoop <- 0, delayUntil <- 0, delayWoken <- 0, delayExec <- 0

DL == INSTANCE Deliveries WITH
    Msg <- {sb1,sb2}, LetterMaxRetries <- 1, AlertThreshold <- 2, MaxManual <- 1,
    letterRunning <- x1, stopping <- x2, messages <- x3, letterStatus <- x4,
    retryCount <- x5, letterLoop <- x6, letterWoken <- x7, alertFired <- x8,
    handlers <- x9, used <- x10, attempts <- x11, manual <- x12, Callback <- 0,
    Trigger <- 0, Waiter <- 0, WorkerCount <- 0, HookMaxRetries <- 0, MaxStarts <- 0,
    hookRunning <- 0, starts <- 0, hookLoop <- 0, hookWoken <- 0, hookStatus <- 0,
    of <- 0, job <- 0, attempt <- 0, outcome <- 0, result <- 0, notify <- 0, waiter <- 0,
    waitsFor <- 0

DS == INSTANCE Schedulers WITH
    DelayTask <- {t1,t2}, Repeating <- {t1}, Cron <- {t2}, DelayMaxTime <- 3,
    delayNow <- x1, delayRunning <- x2, stopping <- x3, delayTasks <- x4,
    delayHeap <- x5, delayStatus <- x6, executeAt <- x7, delayLoop <- x8,
    delayUntil <- x9, delayWoken <- x10, delayExec <- x11, Secs <- 0, Mins <- 0,
    Hours <- 0, Days <- 0, Week <- 0, Years <- 0, MaxStep <- 0, From <- 0,
    SmallFields <- 0, CronTask <- 0, Loop <- 0, CronMaxTime <- 0, expr <- 0, from <- 0,
    candidate <- 0, result <- 0, cronNow <- 0, cronRunning <- 0, stops <- 0,
    cronTasks <- 0, cronHeap <- 0, cronStatus <- 0, nextRun <- 0, cronLoop <- 0,
    cronUntil <- 0, cronWoken <- 0, stopped <- 0, cronExec <- 0

Etl == INSTANCE Pipelines WITH
    Stamp <- <<1,2,3,4,5>>, ExtractMode <- "full", BatchSize <- 2, Broken <- {2},
    MaxErrorQueueSize <- 2, MaxRuns <- 3, MaxFaults <- 2, etlStatus <- x1, pc <- x2,
    stopped <- x3, cursor <- x4, currentOffset <- x5, batch <- x6, todo <- x7,
    target <- x8, tErrors <- x9, wErrors <- x10, stats <- x11, etlExcused <- x12,
    late <- x13, behind <- x14, runs <- x15, faults <- x16, Data <- 0, SourceBuffer <- 0,
    BufferSize <- 0, Threshold <- 0, MaxPauses <- 0, Time <- 0, Size <- 0, Slide <- 0,
    Watermark <- 0, ResultBuffer <- 0, MaxRecords <- 0, MaxTime <- 0, MaxSaves <- 0,
    src <- 0, output <- 0, recordCh <- 0, pendingCount <- 0, rdr <- 0, prc <- 0,
    sourcePaused <- 0, relieved <- 0, pipeStatus <- 0, stop <- 0, sink <- 0, gone <- 0,
    pauses <- 0, pipeExcused <- 0, order <- 0, buckets <- 0, results <- 0, now <- 0,
    phase <- 0, saved <- 0, saves <- 0, recs <- 0, out <- 0, dropped <- 0

EtlId == INSTANCE Pipelines WITH
    Stamp <- <<1,2,3,4,5>>, ExtractMode <- "id", BatchSize <- 2, Broken <- {2},
    MaxErrorQueueSize <- 2, MaxRuns <- 3, MaxFaults <- 2, etlStatus <- x1, pc <- x2,
    stopped <- x3, cursor <- x4, currentOffset <- x5, batch <- x6, todo <- x7,
    target <- x8, tErrors <- x9, wErrors <- x10, stats <- x11, etlExcused <- x12,
    late <- x13, behind <- x14, runs <- x15, faults <- x16, Data <- 0, SourceBuffer <- 0,
    BufferSize <- 0, Threshold <- 0, MaxPauses <- 0, Time <- 0, Size <- 0, Slide <- 0,
    Watermark <- 0, ResultBuffer <- 0, MaxRecords <- 0, MaxTime <- 0, MaxSaves <- 0,
    src <- 0, output <- 0, recordCh <- 0, pendingCount <- 0, rdr <- 0, prc <- 0,
    sourcePaused <- 0, relieved <- 0, pipeStatus <- 0, stop <- 0, sink <- 0, gone <- 0,
    pauses <- 0, pipeExcused <- 0, order <- 0, buckets <- 0, results <- 0, now <- 0,
    phase <- 0, saved <- 0, saves <- 0, recs <- 0, out <- 0, dropped <- 0

EtlTs == INSTANCE Pipelines WITH
    Stamp <- <<1,2,2,3,3>>, ExtractMode <- "timestamp", BatchSize <- 2, Broken <- {2},
    MaxErrorQueueSize <- 2, MaxRuns <- 3, MaxFaults <- 2, etlStatus <- x1, pc <- x2,
    stopped <- x3, cursor <- x4, currentOffset <- x5, batch <- x6, todo <- x7,
    target <- x8, tErrors <- x9, wErrors <- x10, stats <- x11, etlExcused <- x12,
    late <- x13, behind <- x14, runs <- x15, faults <- x16, Data <- 0, SourceBuffer <- 0,
    BufferSize <- 0, Threshold <- 0, MaxPauses <- 0, Time <- 0, Size <- 0, Slide <- 0,
    Watermark <- 0, ResultBuffer <- 0, MaxRecords <- 0, MaxTime <- 0, MaxSaves <- 0,
    src <- 0, output <- 0, recordCh <- 0, pendingCount <- 0, rdr <- 0, prc <- 0,
    sourcePaused <- 0, relieved <- 0, pipeStatus <- 0, stop <- 0, sink <- 0, gone <- 0,
    pauses <- 0, pipeExcused <- 0, order <- 0, buckets <- 0, results <- 0, now <- 0,
    phase <- 0, saved <- 0, saves <- 0, recs <- 0, out <- 0, dropped <- 0

Gr == INSTANCE Deadlines WITH
    Req <- {r1}, Caller <- {c1}, Callback <- {sb1,sb2}, state <- x1, phase <- x2,
    accepting <- x3, activeRequests <- x4, order <- x5, listener <- x6, trigger <- x7,
    signal <- x8, shutdownClosed <- x9, req <- x10, caller <- x11, expired <- x12,
    errors <- x13, todo <- x14, ran <- x15, alive <- x16, report <- x17, Conn <- 0,
    Validity <- 0, RenewalBuffer <- 0, CheckInterval <- 0, RetirementTimeout <- 0,
    IssueTime <- 0, CertMaxTime <- 0, MaxCerts <- 0, MaxFails <- 0, Stages <- 0,
    Budgets <- 0, TotalTimeout <- 0, MinThreshold <- 0, ChainMaxTime <- 0, certNow <- 0,
    due <- 0, issued <- 0, notAfter <- 0, activeCert <- 0, pendingCert <- 0,
    renewer <- 0, fails <- 0, retirer <- 0, certDeadline <- 0, connections <- 0,
    conn <- 0, cert <- 0, toClose <- 0, late <- 0, certClosed <- 0, chainNow <- 0,
    began <- 0, budget <- 0, parent <- 0, step <- 0, i <- 0, carryOver <- 0, start <- 0,
    chainDeadline <- 0, status <- 0, reason <- 0, success <- 0, failedStage <- 0,
    idle <- 0

Hb == INSTANCE HttpFront WITH
    Caller <- {sb1,sb2}, Addr <- {sa1,sa2,sa3}, Key <- {"x","y"}, Weights <- {1,2},
    Points <- [a \in {sa1,sa2,sa3} |-> [w \in {1,2} |-> {w}]],
    KeyHash <- [k \in {"x","y"} |-> IF k = "x" THEN 15 ELSE 27],
    Algorithms <- {"round_robin","least_connections"}, MaxServers <- 3, MaxPicks <- 3,
    MaxCounter <- 3, algorithm <- x1, servers <- x2, order <- x3, counter <- x4,
    weighted <- x5, call <- x6, steady <- x7, picks <- x8, Req <- 0, windowSize <- 0,
    failureThreshold <- 0, openDuration <- 0, halfOpenMaxRequests <- 0, Forced <- 0,
    Panics <- 0, CircuitMaxTime <- 0, CircuitMaxRequests <- 0, Client <- 0, Path <- 0,
    Exact <- 0, Wildcards <- 0, Upstream <- 0, ExemptPath <- 0, capacity <- 0, rate <- 0,
    refillRate <- 0, failThreshold <- 0, passThreshold <- 0, GateMaxTime <- 0,
    MaxHandlers <- 0, GateMaxRequests <- 0, MaxChecks <- 0, N <- 0, HasCond <- 0,
    Trig <- 0, Rated <- 0, Err <- 0, Exec <- 0, Mode <- 0, ProbeSuccess <- 0,
    ProbeFailure <- 0, MaxRuns <- 0, MaxForced <- 0, circuitNow <- 0, state <- 0,
    failures <- 0, lastOpenTime <- 0, halfOpenRequests <- 0, halfOpenSuccesses <- 0,
    req <- 0, circuitRequests <- 0, period <- 0, heard <- 0, probed <- 0, strayed <- 0,
    lost <- 0, gateNow <- 0, bucket <- 0, uh <- 0, probe <- 0, answer <- 0, taken <- 0,
    gateRequests <- 0, checks <- 0, currentIndex <- 0, chain <- 0, st <- 0,
    failedOnce <- 0, consecutiveFail <- 0, ex <- 0, rec <- 0, running <- 0, runs <- 0,
    forced <- 0, outrun <- 0

HbWeights == INSTANCE HttpFront WITH
    Caller <- {h1}, Addr <- {sa1,sa2,sa3}, Key <- {"x","y"}, Weights <- {1,2},
    Points <- [a \in {sa1,sa2,sa3} |-> [w \in {1,2} |-> {w}]],
    KeyHash <- [k \in {"x","y"} |-> IF k = "x" THEN 15 ELSE 27],
    Algorithms <- {"weighted_round_robin"}, MaxServers <- 3, MaxPicks <- 4,
    MaxCounter <- 3, algorithm <- x1, servers <- x2, order <- x3, counter <- x4,
    weighted <- x5, call <- x6, steady <- x7, picks <- x8, Req <- 0, windowSize <- 0,
    failureThreshold <- 0, openDuration <- 0, halfOpenMaxRequests <- 0, Forced <- 0,
    Panics <- 0, CircuitMaxTime <- 0, CircuitMaxRequests <- 0, Client <- 0, Path <- 0,
    Exact <- 0, Wildcards <- 0, Upstream <- 0, ExemptPath <- 0, capacity <- 0, rate <- 0,
    refillRate <- 0, failThreshold <- 0, passThreshold <- 0, GateMaxTime <- 0,
    MaxHandlers <- 0, GateMaxRequests <- 0, MaxChecks <- 0, N <- 0, HasCond <- 0,
    Trig <- 0, Rated <- 0, Err <- 0, Exec <- 0, Mode <- 0, ProbeSuccess <- 0,
    ProbeFailure <- 0, MaxRuns <- 0, MaxForced <- 0, circuitNow <- 0, state <- 0,
    failures <- 0, lastOpenTime <- 0, halfOpenRequests <- 0, halfOpenSuccesses <- 0,
    req <- 0, circuitRequests <- 0, period <- 0, heard <- 0, probed <- 0, strayed <- 0,
    lost <- 0, gateNow <- 0, bucket <- 0, uh <- 0, probe <- 0, answer <- 0, taken <- 0,
    gateRequests <- 0, checks <- 0, currentIndex <- 0, chain <- 0, st <- 0,
    failedOnce <- 0, consecutiveFail <- 0, ex <- 0, rec <- 0, running <- 0, runs <- 0,
    forced <- 0, outrun <- 0

HbHash == INSTANCE HttpFront WITH
    Caller <- {h1}, Addr <- {"a","b","c"}, Key <- {"x","y"}, Weights <- {1,2},
    Points <- [a \in {"a","b","c"} |-> [w \in {1,2} |-> {IF a = "a" THEN 10 * i ELSE IF a = "b" THEN 10 * i + 3 ELSE 10 * i + 6 : i \in 1 .. w}]],
    KeyHash <- [k \in {"x","y"} |-> IF k = "x" THEN 15 ELSE 27],
    Algorithms <- {"consistent_hash"}, MaxServers <- 3, MaxPicks <- 3, MaxCounter <- 3,
    algorithm <- x1, servers <- x2, order <- x3, counter <- x4, weighted <- x5,
    call <- x6, steady <- x7, picks <- x8, Req <- 0, windowSize <- 0,
    failureThreshold <- 0, openDuration <- 0, halfOpenMaxRequests <- 0, Forced <- 0,
    Panics <- 0, CircuitMaxTime <- 0, CircuitMaxRequests <- 0, Client <- 0, Path <- 0,
    Exact <- 0, Wildcards <- 0, Upstream <- 0, ExemptPath <- 0, capacity <- 0, rate <- 0,
    refillRate <- 0, failThreshold <- 0, passThreshold <- 0, GateMaxTime <- 0,
    MaxHandlers <- 0, GateMaxRequests <- 0, MaxChecks <- 0, N <- 0, HasCond <- 0,
    Trig <- 0, Rated <- 0, Err <- 0, Exec <- 0, Mode <- 0, ProbeSuccess <- 0,
    ProbeFailure <- 0, MaxRuns <- 0, MaxForced <- 0, circuitNow <- 0, state <- 0,
    failures <- 0, lastOpenTime <- 0, halfOpenRequests <- 0, halfOpenSuccesses <- 0,
    req <- 0, circuitRequests <- 0, period <- 0, heard <- 0, probed <- 0, strayed <- 0,
    lost <- 0, gateNow <- 0, bucket <- 0, uh <- 0, probe <- 0, answer <- 0, taken <- 0,
    gateRequests <- 0, checks <- 0, currentIndex <- 0, chain <- 0, st <- 0,
    failedOnce <- 0, consecutiveFail <- 0, ex <- 0, rec <- 0, running <- 0, runs <- 0,
    forced <- 0, outrun <- 0

JQ == INSTANCE JobQueue WITH
    Job <- {sb1,sb2}, Priority <- [j \in {sb1,sb2} |-> 0], Loop <- {sc1,sc2},
    Waiter <- {}, PoolSize <- 1, MaxRetries <- 1, MaxEnqueues <- 2, running <- x1,
    stopping <- x2, pq <- x3, dq <- x4, jobs <- x5, retryCount <- x6, loop <- x7,
    woken <- x8, worker <- x9, success <- x10, dead <- x11, deadLetters <- x12,
    notify <- x13, waiter <- x14, enqueues <- x15
ASSUME JQ!JobQueueAssumption

JQDrain == INSTANCE JobQueue WITH
    Job <- {j1,j2}, Priority <- [j \in {j1,j2} |-> IF j = j1 THEN 1 ELSE 0],
    Loop <- {l1}, Waiter <- {w1}, PoolSize <- 2, MaxRetries <- 0, MaxEnqueues <- 1,
    running <- x1, stopping <- x2, pq <- x3, dq <- x4, jobs <- x5, retryCount <- x6,
    loop <- x7, woken <- x8, worker <- x9, success <- x10, dead <- x11,
    deadLetters <- x12, notify <- x13, waiter <- x14, enqueues <- x15
ASSUME JQDrain!JobQueueAssumption

Mr == INSTANCE MapReduce WITH
    Input <- {sb1,sb2}, Partition <- {sc1,sc2}, MaxRetries <- 1, Drain <- TRUE,
    MaxRuns <- 1, async <- x1, emits <- x2, status <- x3, run <- x4, returned <- x5,
    cancelled <- x6, map <- x7, mapTry <- x8, mapCh <- x9, received <- x10,
    failedMaps <- x11, reporting <- x12, reports <- x13, parts <- x14, reduce <- x15,
    redTry <- x16, counted <- x17, grouped <- x18, out <- x19, redErrs <- x20,
    errCh <- x21, done <- x22, runs <- x23

Or == INSTANCE Workflows WITH
    Task <- {sa1,sa2,sa3}, MaxAttempts <- 2, DagMaxRuns <- 2, ForwardRefs <- FALSE,
    tasks <- x1, deps <- x2, succ <- x3, dagStatus <- x4, running <- x5, cancelled <- x6,
    loop <- x7, taskSet <- x8, readyCount <- x9, taskCh <- x10, dagCompleted <- x11,
    left <- x12, worker <- x13, attempts <- x14, started <- x15, dagRuns <- x16,
    Leaf <- 0, Serial <- 0, Parallel <- 0, Loop <- 0, Conditional <- 0, Root <- 0,
    Kids <- 0, Iterations <- 0, MaxFailures <- 0, ContinueOnError <- 0, Retries <- 0,
    Reuse <- 0, FlowMaxRuns <- 0, Id <- 0, Exec <- 0, Step <- 0, NoComp <- 0,
    MaxObj <- 0, mode <- 0, node <- 0, flowCompleted <- 0, iters <- 0, internal <- 0,
    flowStatus <- 0, registered <- 0, okRuns <- 0, flowRuns <- 0, sagas <- 0, steps <- 0,
    objs <- 0, runningSagas <- 0, ex <- 0, pending <- 0

Ps == INSTANCE Messaging WITH
    BrokerConsumer <- {c1}, Message <- {sb1,sb2}, MaxRetry <- 1, MaxUnacked <- 1,
    ConsumerBuffer <- 1, MaxLinks <- 6, running <- x1, cons <- x2, sub <- x3,
    published <- x4, dead <- x5, got <- x6, acked <- x7, owed <- x8, sentClosed <- x9,
    links <- x10, TreeConsumer <- 0, Filter <- 0, Topic <- 0, MaxOps <- 0, Client <- 0,
    MaxObjs <- 0, MaxCalls <- 0, Serial <- 0, subs <- 0, nodes <- 0, exact <- 0,
    one <- 0, any <- 0, ops <- 0, clients <- 0, gone <- 0, inRoom <- 0, registered <- 0,
    created <- 0, members <- 0, used <- 0, lock <- 0, leave <- 0, dis <- 0, calls <- 0

Sg == INSTANCE Workflows WITH
    Id <- {i1}, Exec <- {sb1,sb2}, Step <- {s1}, NoComp <- {}, MaxObj <- 2, sagas <- x1,
    steps <- x2, objs <- x3, runningSagas <- x4, ex <- x5, pending <- x6, Task <- 0,
    MaxAttempts <- 0, DagMaxRuns <- 0, ForwardRefs <- 0, Leaf <- 0, Serial <- 0,
    Parallel <- 0, Loop <- 0, Conditional <- 0, Root <- 0, Kids <- 0, Iterations <- 0,
    MaxFailures <- 0, ContinueOnError <- 0, Retries <- 0, Reuse <- 0, FlowMaxRuns <- 0,
    tasks <- 0, deps <- 0, succ <- 0, dagStatus <- 0, running <- 0, cancelled <- 0,
    loop <- 0, taskSet <- 0, readyCount <- 0, taskCh <- 0, dagCompleted <- 0, left <- 0,
    worker <- 0, attempts <- 0, started <- 0, dagRuns <- 0, mode <- 0, node <- 0,
    flowCompleted <- 0, iters <- 0, internal <- 0, flowStatus <- 0, registered <- 0,
    okRuns <- 0, flowRuns <- 0

SgUndo == INSTANCE Workflows WITH
    Id <- {i1}, Exec <- {e1}, Step <- {s1,s2,s3}, NoComp <- {s3}, MaxObj <- 1,
    sagas <- x1, steps <- x2, objs <- x3, runningSagas <- x4, ex <- x5, pending <- x6,
    Task <- 0, MaxAttempts <- 0, DagMaxRuns <- 0, ForwardRefs <- 0, Leaf <- 0,
    Serial <- 0, Parallel <- 0, Loop <- 0, Conditional <- 0, Root <- 0, Kids <- 0,
    Iterations <- 0, MaxFailures <- 0, ContinueOnError <- 0, Retries <- 0, Reuse <- 0,
    FlowMaxRuns <- 0, tasks <- 0, deps <- 0, succ <- 0, dagStatus <- 0, running <- 0,
    cancelled <- 0, loop <- 0, taskSet <- 0, readyCount <- 0, taskCh <- 0,
    dagCompleted <- 0, left <- 0, worker <- 0, attempts <- 0, started <- 0, dagRuns <- 0,
    mode <- 0, node <- 0, flowCompleted <- 0, iters <- 0, internal <- 0, flowStatus <- 0,
    registered <- 0, okRuns <- 0, flowRuns <- 0

Sp == INSTANCE Pipelines WITH
    Data <- 4, SourceBuffer <- 1, BufferSize <- 2, Threshold <- 2, MaxPauses <- 1,
    src <- x1, output <- x2, recordCh <- x3, pendingCount <- x4, rdr <- x5, prc <- x6,
    sourcePaused <- x7, relieved <- x8, pipeStatus <- x9, stop <- x10, sink <- x11,
    gone <- x12, pauses <- x13, pipeExcused <- x14, Time <- 0, Size <- 0, Slide <- 0,
    Watermark <- 0, ResultBuffer <- 0, MaxRecords <- 0, MaxTime <- 0, MaxSaves <- 0,
    Stamp <- 0, ExtractMode <- 0, BatchSize <- 0, Broken <- 0, MaxErrorQueueSize <- 0,
    MaxRuns <- 0, MaxFaults <- 0, order <- 0, buckets <- 0, results <- 0, now <- 0,
    phase <- 0, saved <- 0, saves <- 0, recs <- 0, out <- 0, dropped <- 0,
    etlStatus <- 0, pc <- 0, stopped <- 0, cursor <- 0, currentOffset <- 0, batch <- 0,
    todo <- 0, target <- 0, tErrors <- 0, wErrors <- 0, stats <- 0, etlExcused <- 0,
    late <- 0, behind <- 0, runs <- 0, faults <- 0

SwTime == INSTANCE Pipelines WITH
    Time <- TRUE, Size <- 3, Slide <- 2, Watermark <- 1, ResultBuffer <- 2,
    MaxRecords <- 3, MaxTime <- 4, MaxSaves <- 1, order <- x1, buckets <- x2,
    results <- x3, now <- x4, phase <- x5, saved <- x6, saves <- x7, recs <- x8,
    out <- x9, dropped <- x10, Data <- 0, SourceBuffer <- 0, BufferSize <- 0,
    Threshold <- 0, MaxPauses <- 0, Stamp <- 0, ExtractMode <- 0, BatchSize <- 0,
    Broken <- 0, MaxErrorQueueSize <- 0, MaxRuns <- 0, MaxFaults <- 0, src <- 0,
    output <- 0, recordCh <- 0, pendingCount <- 0, rdr <- 0, prc <- 0, sourcePaused <- 0,
    relieved <- 0, pipeStatus <- 0, stop <- 0, sink <- 0, gone <- 0, pauses <- 0,
    pipeExcused <- 0, etlStatus <- 0, pc <- 0, stopped <- 0, cursor <- 0,
    currentOffset <- 0, batch <- 0, todo <- 0, target <- 0, tErrors <- 0, wErrors <- 0,
    stats <- 0, etlExcused <- 0, late <- 0, behind <- 0, runs <- 0, faults <- 0

SwCount == INSTANCE Pipelines WITH
    Time <- FALSE, Size <- 3, Slide <- 2, Watermark <- 0, ResultBuffer <- 2,
    MaxRecords <- 3, MaxTime <- 4, MaxSaves <- 1, order <- x1, buckets <- x2,
    results <- x3, now <- x4, phase <- x5, saved <- x6, saves <- x7, recs <- x8,
    out <- x9, dropped <- x10, Data <- 0, SourceBuffer <- 0, BufferSize <- 0,
    Threshold <- 0, MaxPauses <- 0, Stamp <- 0, ExtractMode <- 0, BatchSize <- 0,
    Broken <- 0, MaxErrorQueueSize <- 0, MaxRuns <- 0, MaxFaults <- 0, src <- 0,
    output <- 0, recordCh <- 0, pendingCount <- 0, rdr <- 0, prc <- 0, sourcePaused <- 0,
    relieved <- 0, pipeStatus <- 0, stop <- 0, sink <- 0, gone <- 0, pauses <- 0,
    pipeExcused <- 0, etlStatus <- 0, pc <- 0, stopped <- 0, cursor <- 0,
    currentOffset <- 0, batch <- 0, todo <- 0, target <- 0, tErrors <- 0, wErrors <- 0,
    stats <- 0, etlExcused <- 0, late <- 0, behind <- 0, runs <- 0, faults <- 0

SwTumble == INSTANCE Pipelines WITH
    Time <- FALSE, Size <- 2, Slide <- 2, Watermark <- 0, ResultBuffer <- 2,
    MaxRecords <- 3, MaxTime <- 4, MaxSaves <- 1, order <- x1, buckets <- x2,
    results <- x3, now <- x4, phase <- x5, saved <- x6, saves <- x7, recs <- x8,
    out <- x9, dropped <- x10, Data <- 0, SourceBuffer <- 0, BufferSize <- 0,
    Threshold <- 0, MaxPauses <- 0, Stamp <- 0, ExtractMode <- 0, BatchSize <- 0,
    Broken <- 0, MaxErrorQueueSize <- 0, MaxRuns <- 0, MaxFaults <- 0, src <- 0,
    output <- 0, recordCh <- 0, pendingCount <- 0, rdr <- 0, prc <- 0, sourcePaused <- 0,
    relieved <- 0, pipeStatus <- 0, stop <- 0, sink <- 0, gone <- 0, pauses <- 0,
    pipeExcused <- 0, etlStatus <- 0, pc <- 0, stopped <- 0, cursor <- 0,
    currentOffset <- 0, batch <- 0, todo <- 0, target <- 0, tErrors <- 0, wErrors <- 0,
    stats <- 0, etlExcused <- 0, late <- 0, behind <- 0, runs <- 0, faults <- 0

Tt == INSTANCE Messaging WITH
    TreeConsumer <- {sb1,sb2},
    Filter <- {<<"a">>,<<"a","b">>,<<"a","*">>,<<"a","#">>,<<"#">>,<<"*","b">>,<<"*","#">>,<<"a","*","b">>},
    Topic <- {<<"a">>,<<"b">>,<<"a","b">>,<<"b","b">>,<<"a","b","b">>,<<"a","*">>},
    MaxOps <- 5, subs <- x1, nodes <- x2, exact <- x3, one <- x4, any <- x5, ops <- x6,
    BrokerConsumer <- 0, Message <- 0, MaxRetry <- 0, MaxUnacked <- 0,
    ConsumerBuffer <- 0, MaxLinks <- 0, Client <- 0, MaxObjs <- 0, MaxCalls <- 0,
    Serial <- 0, running <- 0, cons <- 0, sub <- 0, published <- 0, dead <- 0, got <- 0,
    acked <- 0, owed <- 0, sentClosed <- 0, links <- 0, clients <- 0, gone <- 0,
    inRoom <- 0, registered <- 0, created <- 0, members <- 0, used <- 0, lock <- 0,
    leave <- 0, dis <- 0, calls <- 0

Wh == INSTANCE Deliveries WITH
    Callback <- {sb1,sb2}, Trigger <- {sc1,sc2}, Waiter <- {w1}, WorkerCount <- 1,
    HookMaxRetries <- 1, MaxStarts <- 2, hookRunning <- x1, starts <- x2, hookLoop <- x3,
    hookWoken <- x4, hookStatus <- x5, of <- x6, job <- x7, attempt <- x8, outcome <- x9,
    result <- x10, notify <- x11, waiter <- x12, waitsFor <- x13, Msg <- 0,
    LetterMaxRetries <- 0, AlertThreshold <- 0, MaxManual <- 0, letterRunning <- 0,
    stopping <- 0, messages <- 0, letterStatus <- 0, retryCount <- 0, letterLoop <- 0,
    letterWoken <- 0, alertFired <- 0, handlers <- 0, used <- 0, attempts <- 0,
    manual <- 0

Wf == INSTANCE Workflows WITH
    Leaf <- {t1,t2,t3,t4}, Serial <- {s1}, Parallel <- {p1}, Loop <- {},
    Conditional <- {}, Root <- s1,
    Kids <- (s1 :> <<t1,p1,t4>>) @@ (p1 :> <<t2,t3>>) @@ [x \in {t1,t2,t3,t4} |-> <<>>],
    Iterations <- 2, MaxFailures <- 0, ContinueOnError <- FALSE,
    Retries <- [x \in {s1,p1,t1,t2,t3,t4} |-> IF x \in {s1,t2} THEN 1 ELSE 0],
    Reuse <- FALSE, FlowMaxRuns <- 3, mode <- x1, node <- x2, flowCompleted <- x3,
    iters <- x4, internal <- x5, flowStatus <- x6, registered <- x7, okRuns <- x8,
    flowRuns <- x9, Task <- 0, MaxAttempts <- 0, DagMaxRuns <- 0, ForwardRefs <- 0,
    Id <- 0, Exec <- 0, Step <- 0, NoComp <- 0, MaxObj <- 0, tasks <- 0, deps <- 0,
    succ <- 0, dagStatus <- 0, running <- 0, cancelled <- 0, loop <- 0, taskSet <- 0,
    readyCount <- 0, taskCh <- 0, dagCompleted <- 0, left <- 0, worker <- 0,
    attempts <- 0, started <- 0, dagRuns <- 0, sagas <- 0, steps <- 0, objs <- 0,
    runningSagas <- 0, ex <- 0, pending <- 0

WfLoop == INSTANCE Workflows WITH
    Leaf <- {t1,t2,t3,t4}, Serial <- {s1}, Parallel <- {}, Loop <- {l1},
    Conditional <- {d1}, Root <- s1,
    Kids <- (s1 :> <<d1,l1>>) @@ (d1 :> <<t1,t2>>) @@ (l1 :> <<t3>>) @@ [x \in {t1,t2,t3,t4} |-> <<>>],
    Iterations <- 2, MaxFailures <- 0, ContinueOnError <- FALSE,
    Retries <- [x \in {s1,d1,l1,t1,t2,t3,t4} |-> IF x = t3 THEN 1 ELSE 0],
    Reuse <- FALSE, FlowMaxRuns <- 3, mode <- x1, node <- x2, flowCompleted <- x3,
    iters <- x4, internal <- x5, flowStatus <- x6, registered <- x7, okRuns <- x8,
    flowRuns <- x9, Task <- 0, MaxAttempts <- 0, DagMaxRuns <- 0, ForwardRefs <- 0,
    Id <- 0, Exec <- 0, Step <- 0, NoComp <- 0, MaxObj <- 0, tasks <- 0, deps <- 0,
    succ <- 0, dagStatus <- 0, running <- 0, cancelled <- 0, loop <- 0, taskSet <- 0,
    readyCount <- 0, taskCh <- 0, dagCompleted <- 0, left <- 0, worker <- 0,
    attempts <- 0, started <- 0, dagRuns <- 0, sagas <- 0, steps <- 0, objs <- 0,
    runningSagas <- 0, ex <- 0, pending <- 0

Ws == INSTANCE Messaging WITH
    Client <- {sb1,sb2}, MaxObjs <- 2, MaxCalls <- 8, Serial <- TRUE, clients <- x1,
    gone <- x2, inRoom <- x3, registered <- x4, created <- x5, members <- x6, used <- x7,
    lock <- x8, leave <- x9, dis <- x10, calls <- x11, BrokerConsumer <- 0, Message <- 0,
    MaxRetry <- 0, MaxUnacked <- 0, ConsumerBuffer <- 0, MaxLinks <- 0,
    TreeConsumer <- 0, Filter <- 0, Topic <- 0, MaxOps <- 0, running <- 0, cons <- 0,
    sub <- 0, published <- 0, dead <- 0, got <- 0, acked <- 0, owed <- 0,
    sentClosed <- 0, links <- 0, subs <- 0, nodes <- 0, exact <- 0, one <- 0, any <- 0,
    ops <- 0

-----------------------------------------------------------------------------
SuiteInit ==
    \/ /\ which = "Al" /\ Al!AlertInit /\ x7 = 0 /\ x8 = 0 /\ x9 = 0 /\ x10 = 0 /\ x11 = 0 /\ x12 = 0 /\ x13 = 0 /\ x14 = 0 /\ x15 = 0 /\ x16 = 0 /\ x17 = 0 /\ x18 = 0 /\ x19 = 0 /\ x20 = 0 /\ x21 = 0 /\ x22 = 0 /\ x23 = 0
    \/ /\ which = "Au" /\ Au!AuditInit /\ x13 = 0 /\ x14 = 0 /\ x15 = 0 /\ x16 = 0 /\ x17 = 0 /\ x18 = 0 /\ x19 = 0 /\ x20 = 0 /\ x21 = 0 /\ x22 = 0 /\ x23 = 0
    \/ /\ which = "RdStop" /\ RdStop!Init /\ x6 = 0 /\ x7 = 0 /\ x8 = 0 /\ x9 = 0 /\ x10 = 0 /\ x11 = 0 /\ x12 = 0 /\ x13 = 0 /\ x14 = 0 /\ x15 = 0 /\ x16 = 0 /\ x17 = 0 /\ x18 = 0 /\ x19 = 0 /\ x20 = 0 /\ x21 = 0 /\ x22 = 0 /\ x23 = 0
    \/ /\ which = "CN" /\ CN!SearchInit /\ x5 = 0 /\ x6 = 0 /\ x7 = 0 /\ x8 = 0 /\ x9 = 0 /\ x10 = 0 /\ x11 = 0 /\ x12 = 0 /\ x13 = 0 /\ x14 = 0 /\ x15 = 0 /\ x16 = 0 /\ x17 = 0 /\ x18 = 0 /\ x19 = 0 /\ x20 = 0 /\ x21 = 0 /\ x22 = 0 /\ x23 = 0
    \/ /\ which = "CS" /\ CS!CronInit /\ x13 = 0 /\ x14 = 0 /\ x15 = 0 /\ x16 = 0 /\ x17 = 0 /\ x18 = 0 /\ x19 = 0 /\ x20 = 0 /\ x21 = 0 /\ x22 = 0 /\ x23 = 0
    \/ /\ which = "DL" /\ DL!LetterInit /\ x13 = 0 /\ x14 = 0 /\ x15 = 0 /\ x16 = 0 /\ x17 = 0 /\ x18 = 0 /\ x19 = 0 /\ x20 = 0 /\ x21 = 0 /\ x22 = 0 /\ x23 = 0
    \/ /\ which = "DS" /\ DS!DelayInit /\ x12 = 0 /\ x13 = 0 /\ x14 = 0 /\ x15 = 0 /\ x16 = 0 /\ x17 = 0 /\ x18 = 0 /\ x19 = 0 /\ x20 = 0 /\ x21 = 0 /\ x22 = 0 /\ x23 = 0
    \/ /\ which = "Etl" /\ Etl!EtlInit /\ x17 = 0 /\ x18 = 0 /\ x19 = 0 /\ x20 = 0 /\ x21 = 0 /\ x22 = 0 /\ x23 = 0
    \/ /\ which = "EtlId" /\ EtlId!EtlInit /\ x17 = 0 /\ x18 = 0 /\ x19 = 0 /\ x20 = 0 /\ x21 = 0 /\ x22 = 0 /\ x23 = 0
    \/ /\ which = "EtlTs" /\ EtlTs!EtlInit /\ x17 = 0 /\ x18 = 0 /\ x19 = 0 /\ x20 = 0 /\ x21 = 0 /\ x22 = 0 /\ x23 = 0
    \/ /\ which = "Gr" /\ Gr!ShutdownInit /\ x18 = 0 /\ x19 = 0 /\ x20 = 0 /\ x21 = 0 /\ x22 = 0 /\ x23 = 0
    \/ /\ which = "Hb" /\ Hb!BalancerInit /\ x9 = 0 /\ x10 = 0 /\ x11 = 0 /\ x12 = 0 /\ x13 = 0 /\ x14 = 0 /\ x15 = 0 /\ x16 = 0 /\ x17 = 0 /\ x18 = 0 /\ x19 = 0 /\ x20 = 0 /\ x21 = 0 /\ x22 = 0 /\ x23 = 0
    \/ /\ which = "HbWeights" /\ HbWeights!BalancerInit /\ x9 = 0 /\ x10 = 0 /\ x11 = 0 /\ x12 = 0 /\ x13 = 0 /\ x14 = 0 /\ x15 = 0 /\ x16 = 0 /\ x17 = 0 /\ x18 = 0 /\ x19 = 0 /\ x20 = 0 /\ x21 = 0 /\ x22 = 0 /\ x23 = 0
    \/ /\ which = "HbHash" /\ HbHash!BalancerInit /\ x9 = 0 /\ x10 = 0 /\ x11 = 0 /\ x12 = 0 /\ x13 = 0 /\ x14 = 0 /\ x15 = 0 /\ x16 = 0 /\ x17 = 0 /\ x18 = 0 /\ x19 = 0 /\ x20 = 0 /\ x21 = 0 /\ x22 = 0 /\ x23 = 0
    \/ /\ which = "JQ" /\ JQ!JobInit /\ x16 = 0 /\ x17 = 0 /\ x18 = 0 /\ x19 = 0 /\ x20 = 0 /\ x21 = 0 /\ x22 = 0 /\ x23 = 0
    \/ /\ which = "JQDrain" /\ JQDrain!JobInit /\ x16 = 0 /\ x17 = 0 /\ x18 = 0 /\ x19 = 0 /\ x20 = 0 /\ x21 = 0 /\ x22 = 0 /\ x23 = 0
    \/ /\ which = "Mr" /\ Mr!Init
    \/ /\ which = "Or" /\ Or!DagInit /\ x17 = 0 /\ x18 = 0 /\ x19 = 0 /\ x20 = 0 /\ x21 = 0 /\ x22 = 0 /\ x23 = 0
    \/ /\ which = "Ps" /\ Ps!BrokerInit /\ x11 = 0 /\ x12 = 0 /\ x13 = 0 /\ x14 = 0 /\ x15 = 0 /\ x16 = 0 /\ x17 = 0 /\ x18 = 0 /\ x19 = 0 /\ x20 = 0 /\ x21 = 0 /\ x22 = 0 /\ x23 = 0
    \/ /\ which = "Sg" /\ Sg!SagaInit /\ x7 = 0 /\ x8 = 0 /\ x9 = 0 /\ x10 = 0 /\ x11 = 0 /\ x12 = 0 /\ x13 = 0 /\ x14 = 0 /\ x15 = 0 /\ x16 = 0 /\ x17 = 0 /\ x18 = 0 /\ x19 = 0 /\ x20 = 0 /\ x21 = 0 /\ x22 = 0 /\ x23 = 0
    \/ /\ which = "SgUndo" /\ SgUndo!SagaInit /\ x7 = 0 /\ x8 = 0 /\ x9 = 0 /\ x10 = 0 /\ x11 = 0 /\ x12 = 0 /\ x13 = 0 /\ x14 = 0 /\ x15 = 0 /\ x16 = 0 /\ x17 = 0 /\ x18 = 0 /\ x19 = 0 /\ x20 = 0 /\ x21 = 0 /\ x22 = 0 /\ x23 = 0
    \/ /\ which = "Sp" /\ Sp!PipeInit /\ x15 = 0 /\ x16 = 0 /\ x17 = 0 /\ x18 = 0 /\ x19 = 0 /\ x20 = 0 /\ x21 = 0 /\ x22 = 0 /\ x23 = 0
    \/ /\ which = "SwTime" /\ SwTime!WindowInit /\ x11 = 0 /\ x12 = 0 /\ x13 = 0 /\ x14 = 0 /\ x15 = 0 /\ x16 = 0 /\ x17 = 0 /\ x18 = 0 /\ x19 = 0 /\ x20 = 0 /\ x21 = 0 /\ x22 = 0 /\ x23 = 0
    \/ /\ which = "SwCount" /\ SwCount!WindowInit /\ x11 = 0 /\ x12 = 0 /\ x13 = 0 /\ x14 = 0 /\ x15 = 0 /\ x16 = 0 /\ x17 = 0 /\ x18 = 0 /\ x19 = 0 /\ x20 = 0 /\ x21 = 0 /\ x22 = 0 /\ x23 = 0
    \/ /\ which = "SwTumble" /\ SwTumble!WindowInit /\ x11 = 0 /\ x12 = 0 /\ x13 = 0 /\ x14 = 0 /\ x15 = 0 /\ x16 = 0 /\ x17 = 0 /\ x18 = 0 /\ x19 = 0 /\ x20 = 0 /\ x21 = 0 /\ x22 = 0 /\ x23 = 0
    \/ /\ which = "Tt" /\ Tt!TreeInit /\ x7 = 0 /\ x8 = 0 /\ x9 = 0 /\ x10 = 0 /\ x11 = 0 /\ x12 = 0 /\ x13 = 0 /\ x14 = 0 /\ x15 = 0 /\ x16 = 0 /\ x17 = 0 /\ x18 = 0 /\ x19 = 0 /\ x20 = 0 /\ x21 = 0 /\ x22 = 0 /\ x23 = 0
    \/ /\ which = "Wh" /\ Wh!HookInit /\ x14 = 0 /\ x15 = 0 /\ x16 = 0 /\ x17 = 0 /\ x18 = 0 /\ x19 = 0 /\ x20 = 0 /\ x21 = 0 /\ x22 = 0 /\ x23 = 0
    \/ /\ which = "Wf" /\ Wf!FlowInit /\ x10 = 0 /\ x11 = 0 /\ x12 = 0 /\ x13 = 0 /\ x14 = 0 /\ x15 = 0 /\ x16 = 0 /\ x17 = 0 /\ x18 = 0 /\ x19 = 0 /\ x20 = 0 /\ x21 = 0 /\ x22 = 0 /\ x23 = 0
    \/ /\ which = "WfLoop" /\ WfLoop!FlowInit /\ x10 = 0 /\ x11 = 0 /\ x12 = 0 /\ x13 = 0 /\ x14 = 0 /\ x15 = 0 /\ x16 = 0 /\ x17 = 0 /\ x18 = 0 /\ x19 = 0 /\ x20 = 0 /\ x21 = 0 /\ x22 = 0 /\ x23 = 0
    \/ /\ which = "Ws" /\ Ws!CenterInit /\ x12 = 0 /\ x13 = 0 /\ x14 = 0 /\ x15 = 0 /\ x16 = 0 /\ x17 = 0 /\ x18 = 0 /\ x19 = 0 /\ x20 = 0 /\ x21 = 0 /\ x22 = 0 /\ x23 = 0

SuiteNext ==
    /\ UNCHANGED which
    /\ \/ /\ which = "Al" /\ Al!AlertNext /\ UNCHANGED <<x7, x8, x9, x10, x11, x12, x13, x14, x15, x16, x17, x18, x19, x20, x21, x22, x23>>
       \/ /\ which = "Au" /\ Au!AuditNext /\ UNCHANGED <<x13, x14, x15, x16, x17, x18, x19, x20, x21, x22, x23>>
       \/ /\ which = "RdStop" /\ RdStop!Next /\ UNCHANGED <<x6, x7, x8, x9, x10, x11, x12, x13, x14, x15, x16, x17, x18, x19, x20, x21, x22, x23>>
       \/ /\ which = "CN" /\ CN!SearchNext /\ UNCHANGED <<x5, x6, x7, x8, x9, x10, x11, x12, x13, x14, x15, x16, x17, x18, x19, x20, x21, x22, x23>>
       \/ /\ which = "CS" /\ CS!CronNext /\ UNCHANGED <<x13, x14, x15, x16, x17, x18, x19, x20, x21, x22, x23>>
       \/ /\ which = "DL" /\ DL!LetterNext /\ UNCHANGED <<x13, x14, x15, x16, x17, x18, x19, x20, x21, x22, x23>>
       \/ /\ which = "DS" /\ DS!DelayNext /\ UNCHANGED <<x12, x13, x14, x15, x16, x17, x18, x19, x20, x21, x22, x23>>
       \/ /\ which = "Etl" /\ Etl!EtlNext /\ UNCHANGED <<x17, x18, x19, x20, x21, x22, x23>>
       \/ /\ which = "EtlId" /\ EtlId!EtlNext /\ UNCHANGED <<x17, x18, x19, x20, x21, x22, x23>>
       \/ /\ which = "EtlTs" /\ EtlTs!EtlNext /\ UNCHANGED <<x17, x18, x19, x20, x21, x22, x23>>
       \/ /\ which = "Gr" /\ Gr!ShutdownNext /\ UNCHANGED <<x18, x19, x20, x21, x22, x23>>
       \/ /\ which = "Hb" /\ Hb!BalancerNext /\ UNCHANGED <<x9, x10, x11, x12, x13, x14, x15, x16, x17, x18, x19, x20, x21, x22, x23>>
       \/ /\ which = "HbWeights" /\ HbWeights!BalancerNext /\ UNCHANGED <<x9, x10, x11, x12, x13, x14, x15, x16, x17, x18, x19, x20, x21, x22, x23>>
       \/ /\ which = "HbHash" /\ HbHash!BalancerNext /\ UNCHANGED <<x9, x10, x11, x12, x13, x14, x15, x16, x17, x18, x19, x20, x21, x22, x23>>
       \/ /\ which = "JQ" /\ JQ!JobNext /\ UNCHANGED <<x16, x17, x18, x19, x20, x21, x22, x23>>
       \/ /\ which = "JQDrain" /\ JQDrain!JobNext /\ UNCHANGED <<x16, x17, x18, x19, x20, x21, x22, x23>>
       \/ /\ which = "Mr" /\ Mr!Next
       \/ /\ which = "Or" /\ Or!DagNext /\ UNCHANGED <<x17, x18, x19, x20, x21, x22, x23>>
       \/ /\ which = "Ps" /\ Ps!BrokerNext /\ UNCHANGED <<x11, x12, x13, x14, x15, x16, x17, x18, x19, x20, x21, x22, x23>>
       \/ /\ which = "Sg" /\ Sg!SagaNext /\ UNCHANGED <<x7, x8, x9, x10, x11, x12, x13, x14, x15, x16, x17, x18, x19, x20, x21, x22, x23>>
       \/ /\ which = "SgUndo" /\ SgUndo!SagaNext /\ UNCHANGED <<x7, x8, x9, x10, x11, x12, x13, x14, x15, x16, x17, x18, x19, x20, x21, x22, x23>>
       \/ /\ which = "Sp" /\ Sp!PipeNext /\ UNCHANGED <<x15, x16, x17, x18, x19, x20, x21, x22, x23>>
       \/ /\ which = "SwTime" /\ SwTime!WindowNext /\ UNCHANGED <<x11, x12, x13, x14, x15, x16, x17, x18, x19, x20, x21, x22, x23>>
       \/ /\ which = "SwCount" /\ SwCount!WindowNext /\ UNCHANGED <<x11, x12, x13, x14, x15, x16, x17, x18, x19, x20, x21, x22, x23>>
       \/ /\ which = "SwTumble" /\ SwTumble!WindowNext /\ UNCHANGED <<x11, x12, x13, x14, x15, x16, x17, x18, x19, x20, x21, x22, x23>>
       \/ /\ which = "Tt" /\ Tt!TreeNext /\ UNCHANGED <<x7, x8, x9, x10, x11, x12, x13, x14, x15, x16, x17, x18, x19, x20, x21, x22, x23>>
       \/ /\ which = "Wh" /\ Wh!HookNext /\ UNCHANGED <<x14, x15, x16, x17, x18, x19, x20, x21, x22, x23>>
       \/ /\ which = "Wf" /\ Wf!FlowNext /\ UNCHANGED <<x10, x11, x12, x13, x14, x15, x16, x17, x18, x19, x20, x21, x22, x23>>
       \/ /\ which = "WfLoop" /\ WfLoop!FlowNext /\ UNCHANGED <<x10, x11, x12, x13, x14, x15, x16, x17, x18, x19, x20, x21, x22, x23>>
       \/ /\ which = "Ws" /\ Ws!CenterNext /\ UNCHANGED <<x12, x13, x14, x15, x16, x17, x18, x19, x20, x21, x22, x23>>

Symmetric == Permutations({sb1, sb2}) \cup Permutations({sc1, sc2}) \cup Permutations({sa1, sa2, sa3})

-----------------------------------------------------------------------------
(* Each component keeps its variables in their types. *)
TypesOK ==
    /\ which = "Al" => Al!AlertTypeOK
    /\ which = "Au" => Au!AuditTypeOK
    /\ which = "RdStop" => RdStop!TypeOK
    /\ which = "CN" => CN!SearchTypeOK
    /\ which = "CS" => CS!CronTypeOK
    /\ which = "DL" => DL!LetterTypeOK
    /\ which = "DS" => DS!DelayTypeOK
    /\ which = "Etl" => Etl!EtlTypeOK
    /\ which = "EtlId" => EtlId!EtlTypeOK
    /\ which = "EtlTs" => EtlTs!EtlTypeOK
    /\ which = "Gr" => Gr!ShutdownTypeOK
    /\ which = "Hb" => Hb!BalancerTypeOK
    /\ which = "HbWeights" => HbWeights!BalancerTypeOK
    /\ which = "HbHash" => HbHash!BalancerTypeOK
    /\ which = "JQ" => JQ!JobTypeOK
    /\ which = "JQDrain" => JQDrain!JobTypeOK
    /\ which = "Mr" => Mr!TypeOK
    /\ which = "Or" => Or!DagTypeOK
    /\ which = "Ps" => Ps!BrokerTypeOK
    /\ which = "Sg" => Sg!SagaTypeOK
    /\ which = "SgUndo" => SgUndo!SagaTypeOK
    /\ which = "Sp" => Sp!PipeTypeOK
    /\ which = "SwTime" => SwTime!WindowTypeOK
    /\ which = "SwCount" => SwCount!WindowTypeOK
    /\ which = "SwTumble" => SwTumble!WindowTypeOK
    /\ which = "Tt" => Tt!TreeTypeOK
    /\ which = "Wh" => Wh!HookTypeOK
    /\ which = "Wf" => Wf!FlowTypeOK
    /\ which = "WfLoop" => WfLoop!FlowTypeOK
    /\ which = "Ws" => Ws!CenterTypeOK

(* Verification raises no false alarm: while nothing was tampered with, it  *)
(* succeeds at any moment, in whatever order workers, callers and           *)
(* goroutines reach the writer, and the strict one succeeds exactly when    *)
(* every log has been written.                                              *)
(* Changed or added logs are reported by either verification, now and after *)
(* any further logging; removed ones by the strict verification.            *)
(* Every log made is in exactly one place on its way, and once Stop has     *)
(* returned each one was written once or given to the handler or refused;   *)
(* nobody sends on the closed buffer.                                       *)
(* An alert fires only on a streak of evaluations as long as the rule's     *)
(* duration asks for, in number or in time, and is not firing once an       *)
(* evaluation has not met the condition.                                    *)
(* Notifications of a rule keep the inhibition between them and none falls  *)
(* into a silent window, also one that passes midnight or is empty.         *)
(* A level above the initial one is earned: the alert has fired without a   *)
(* break for as long as an escalation to that level asks, and an alert that *)
(* fires again starts from the initial level.                               *)
WatchersSeeTrue ==
    /\ which = "Au" => Au!NoFalseAlarm
    /\ which = "Au" => Au!TamperSeen
    /\ which = "Au" => Au!NothingLost
    /\ which = "Al" => Al!FiresOnStreak
    /\ which = "Al" => Al!Quiet
    /\ which = "Al" => Al!LevelEarned

(* Two clients never hold acquisitions valid at the same time; while one is  *)
(* valid every node it names holds the lock for that client and for that     *)
(* long; and a failed attempt or an Unlock leaves no node held.              *)
(* While nothing changes, requests are shared as promised.  Weighted round  *)
(* robin is smooth: after any number of picks each server is less than one  *)
(* pick away from its exact share.  Round robin has counted no server more  *)
(* than once more than another, apart from the picks under way.  Least      *)
(* connections, one caller at a time and with no request done, likewise.    *)
(* A server that was removed serves nobody, where the choice is made under  *)
(* the lock that RemoveServer takes; and always the connections counted are *)
(* those of the requests being served.  (Round robin and least connections  *)
(* may still send a request to a removed server.)                           *)
(* After any subscribing and unsubscribing, the tree finds for every topic *)
(* exactly the consumers one of whose filters matches it.                  *)
(* Pruning leaves no dead branch: every leaf of the tree is subscribed to. *)
(* Disconnect takes a client out of every room it is in before it forgets  *)
(* the client: no room keeps a member that is not connected.               *)
(* A room that its last member has left is gone once the calls that left   *)
(* it have ended.                                                          *)
(* The alert flag always tells whether the threshold is reached, though only *)
(* some of the operations that change the map reconsider it.                 *)
RegistriesAgree ==
    /\ which = "RdStop" => RdStop!MajorityIsHeld
    /\ which = "Hb" => Hb!FairShares
    /\ which = "HbWeights" => HbWeights!FairShares
    /\ which = "Hb" => Hb!RemovedIsIdle
    /\ which = "HbWeights" => HbWeights!RemovedIsIdle
    /\ which = "HbHash" => HbHash!RemovedIsIdle
    /\ which = "Tt" => Tt!TreeAgrees
    /\ which = "Tt" => Tt!TreeIsPruned
    /\ which = "Ws" => Ws!NoGhostMember
    /\ which = "Ws" => Ws!EmptyRoomIsDeleted
    /\ which = "DL" => DL!AlertMatches

(* A task in the map is waiting in the heap or being executed, once: a        *)
(* repetition never overlaps itself, and no cancel or reschedule loses one.   *)
(* A sleeping loop wakes in time: its timer is not later than any task in     *)
(* the heap unless a wake-up is on its way.                                   *)
(* A registered task waits in the heap or is executing, never both, also    *)
(* while two loops run: a task never overlaps itself.                       *)
(* No loop sleeps past the next run of a task unless a wake-up is coming.   *)
(* The search never jumps over a matching time, so what it returns is the   *)
(* first match after from.                                                  *)
(* next returns the least matching value from v on, and Expand lists the    *)
(* matching values of the field, for every value the parser accepts.        *)
TimersFireInTime ==
    /\ which = "DS" => DS!TaskInOnePlace
    /\ which = "DS" => DS!NoOversleep
    /\ which = "CS" => CS!CronTaskInOnePlace
    /\ which = "CS" => CS!CronNoOversleep
    /\ which = "CN" => CN!FirstMatch
    /\ which = "CN" => CN!FieldsAgree

(* A repetition cancelled while it runs does not run again. *)
(* A task cancelled while it runs does not run again. *)
(* Consistent hashing moves only the keys it must: a key goes to another    *)
(* server only if its server is no longer healthy or the other one has just *)
(* become so.                                                               *)
SettledStays ==
    [][ /\ which = "DS" => DS!DelayStaysCancelled
        /\ which = "CS" => CS!CronStaysCancelled
        /\ which = "HbHash" => HbHash!KeysStayStep ]_all



=============================================================================
