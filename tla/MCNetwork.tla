----------------------------- MODULE MCNetwork ------------------------------
(*****************************************************************************)
(* The packages between clients and remote nodes: Redlock, the proxy with    *)
(* its pool, streams and health checks, connections under rotating           *)
(* certificates, the gateway, the fallback chain and the resolver; and       *)
(* what is moved in the background, the batch copies and the log files. A    *)
(* behaviour is about one of the components, the one named by which; its     *)
(* variables are in the slots.                                               *)
(*****************************************************************************)
EXTENDS Redlock, Integers, Sequences, FiniteSets, TLC

CONSTANTS h1, i1, l1, l2, n1, n2, p1, p2, p3, sb1, sb2, x0

VARIABLES
    which,   \* the component this behaviour is about
    x1, x2, x3, x4, x5, x6, x7, x8, x9, x10, x11, x12, x13, x14, x15, x16   \* its variables

slots == <<x1, x2, x3, x4, x5, x6, x7, x8, x9, x10, x11, x12, x13, x14, x15, x16>>
all == <<which, vars, slots>>

ASSUME RedlockAssumption

CrConn == INSTANCE Deadlines WITH
    Conn <- {sb1,sb2}, Validity <- 9, RenewalBuffer <- 3, CheckInterval <- 1,
    RetirementTimeout <- 1, IssueTime <- 1, CertMaxTime <- 3, MaxCerts <- 2,
    MaxFails <- 0, certNow <- x1, due <- x2, issued <- x3, notAfter <- x4,
    activeCert <- x5, pendingCert <- x6, renewer <- x7, fails <- x8, retirer <- x9,
    certDeadline <- x10, connections <- x11, conn <- x12, cert <- x13, toClose <- x14,
    late <- x15, certClosed <- x16, Stages <- 0, Budgets <- 0, TotalTimeout <- 0,
    MinThreshold <- 0, ChainMaxTime <- 0, Req <- 0, Caller <- 0, Callback <- 0,
    chainNow <- 0, began <- 0, budget <- 0, parent <- 0, step <- 0, i <- 0,
    carryOver <- 0, start <- 0, chainDeadline <- 0, status <- 0, reason <- 0,
    success <- 0, failedStage <- 0, idle <- 0, state <- 0, phase <- 0, accepting <- 0,
    activeRequests <- 0, order <- 0, listener <- 0, trigger <- 0, signal <- 0,
    shutdownClosed <- 0, req <- 0, caller <- 0, expired <- 0, errors <- 0, todo <- 0,
    ran <- 0, alive <- 0, report <- 0

Dpipe == INSTANCE Maintenance WITH
    BatchSize <- 2, MaxRetryPerBatch <- 1, EnableCheckpoint <- TRUE, Records <- 3,
    MaxRuns <- 2, PipeMaxFaults <- 2, source <- x1, copies <- x2, checkpoint <- x3,
    cursor <- x4, status <- x5, phase <- x6, batch <- x7, attempt <- x8, stopped <- x9,
    goal <- x10, runs <- x11, pipeFaults <- x12, stops <- x13, Migrator <- 0, Last <- 0,
    NoDown <- 0, LockTimeout <- 0, Prompt <- 0, SchemaMaxTime <- 0, MaxCalls <- 0,
    SchemaMaxFaults <- 0, RotationMode <- 0, MaxFileSize <- 0, Compress <- 0,
    MaxBackups <- 0, TTL <- 0, Busy <- 0, MaxLines <- 0, MaxName <- 0, LogMaxTime <- 0,
    LogMaxFaults <- 0, schemaNow <- 0, applied <- 0, effect <- 0, row <- 0, mig <- 0,
    calls <- 0, schemaFaults <- 0, unsure <- 0, logNow <- 0, lines <- 0, file <- 0,
    date <- 0, orphan <- 0, broken <- 0, plain <- 0, gz <- 0, comp <- 0, removed <- 0,
    logFaults <- 0

Dr == INSTANCE Upstreams WITH
    Caller <- {h1},
    Domain <- {<<"com", "ex", "www">>, <<"com", "ex", "far">>, <<"com", "ex", "l1">>, <<"com", "ex", "long">>, <<"com", "ex", "no">>},
    Zones <- (<<>> :> [ns |-> <<<<"r">>>>, glue |-> TRUE]) @@ (<<"com">> :> [ns |-> <<<<"com", "ns">>>>, glue |-> TRUE]) @@ (<<"net">> :> [ns |-> <<<<"net", "ns">>>>, glue |-> TRUE]) @@ (<<"com", "ex">> :> [ns |-> <<<<"net", "gone">>, <<"net", "n1">>, <<"net", "n2">>>>, glue |-> FALSE]),
    Serves <- [s \in 1 .. 5 |-> IF s = 1 THEN <<>> ELSE IF s = 2 THEN <<"com">> ELSE IF s = 5 THEN <<"net">> ELSE <<"com", "ex">>],
    Records <- LET A(ip, t) == <<[type |-> "A", ip |-> ip, to |-> <<>>, ttl |-> t]>> C(n, t) == <<[type |-> "CNAME", ip |-> 0, to |-> n, ttl |-> t]>> IN (<<"r">> :> A(1, 1)) @@ (<<"com", "ns">> :> A(2, 1)) @@ (<<"net", "ns">> :> A(5, 1)) @@ (<<"net", "n1">> :> A(3, 1)) @@ (<<"net", "n2">> :> A(4, 1)) @@ (<<"net", "cdn">> :> A(20, 0)) @@ (<<"com", "ex", "www">> :> C(<<"com", "ex", "web">>, 2)) @@ (<<"com", "ex", "web">> :> A(10, 1)) @@ (<<"com", "ex", "far">> :> C(<<"net", "cdn">>, 1)) @@ (<<"com", "ex", "l1">> :> C(<<"com", "ex", "l2">>, 1)) @@ (<<"com", "ex", "l2">> :> C(<<"com", "ex", "l1">>, 1)) @@ (<<"com", "ex", "long">> :> C(<<"com", "ex", "far">>, 1)),
    Behind <- {4}, RootServers <- <<1>>, UpstreamServers <- <<>>,
    EnableRecursion <- TRUE, MaxRecursionDepth <- 4, DefaultTTL <- 2, Lossy <- TRUE,
    MaxTime <- 0, DnsWritten <- {}, Texts <- {}, MaxRecords <- 0, cache <- x1,
    dnsCall <- x2, now <- x3, dnsClosed <- x4, dnsLoop <- x5, wire <- x6, dnsSent <- x7,
    MaxStreams <- 0, MaxWrites <- 0, Writers <- 0, Cap <- 0, MayBreak <- 0, Addr <- 0,
    Client <- 0, FailThreshold <- 0, PassThreshold <- 0, MaxObjects <- 0, MaxRounds <- 0,
    MaxCalls <- 0, pipe <- 0, broken <- 0, muxClosed <- 0, muxLoop <- 0, nextStream <- 0,
    st <- 0, muxSent <- 0, got <- 0, made <- 0, upstreams <- 0, healthy <- 0, chk <- 0,
    mapping <- 0, healthCall <- 0, rounds <- 0, streak <- 0, kept <- 0

DrUp == INSTANCE Upstreams WITH
    Caller <- {sb1,sb2}, Domain <- {<<"com", "ex", "www">>, <<"com", "ex", "l1">>},
    Zones <- (<<>> :> [ns |-> <<<<"r">>>>, glue |-> TRUE]) @@ (<<"com">> :> [ns |-> <<<<"com", "ns">>>>, glue |-> TRUE]) @@ (<<"net">> :> [ns |-> <<<<"net", "ns">>>>, glue |-> TRUE]) @@ (<<"com", "ex">> :> [ns |-> <<<<"net", "gone">>, <<"net", "n1">>, <<"net", "n2">>>>, glue |-> FALSE]),
    Serves <- [s \in 1 .. 5 |-> IF s = 1 THEN <<>> ELSE IF s = 2 THEN <<"com">> ELSE IF s = 5 THEN <<"net">> ELSE <<"com", "ex">>],
    Records <- LET A(ip, t) == <<[type |-> "A", ip |-> ip, to |-> <<>>, ttl |-> t]>> C(n, t) == <<[type |-> "CNAME", ip |-> 0, to |-> n, ttl |-> t]>> IN (<<"r">> :> A(1, 1)) @@ (<<"com", "ns">> :> A(2, 1)) @@ (<<"net", "ns">> :> A(5, 1)) @@ (<<"net", "n1">> :> A(3, 1)) @@ (<<"net", "n2">> :> A(4, 1)) @@ (<<"net", "cdn">> :> A(20, 0)) @@ (<<"com", "ex", "www">> :> C(<<"com", "ex", "web">>, 2)) @@ (<<"com", "ex", "web">> :> A(10, 1)) @@ (<<"com", "ex", "far">> :> C(<<"net", "cdn">>, 1)) @@ (<<"com", "ex", "l1">> :> C(<<"com", "ex", "l2">>, 1)) @@ (<<"com", "ex", "l2">> :> C(<<"com", "ex", "l1">>, 1)) @@ (<<"com", "ex", "long">> :> C(<<"com", "ex", "far">>, 1)),
    Behind <- {4}, RootServers <- <<1>>, UpstreamServers <- <<4, 5>>,
    EnableRecursion <- FALSE, MaxRecursionDepth <- 4, DefaultTTL <- 2, Lossy <- TRUE,
    MaxTime <- 3, DnsWritten <- {}, Texts <- {}, MaxRecords <- 0, cache <- x1,
    dnsCall <- x2, now <- x3, dnsClosed <- x4, dnsLoop <- x5, wire <- x6, dnsSent <- x7,
    MaxStreams <- 0, MaxWrites <- 0, Writers <- 0, Cap <- 0, MayBreak <- 0, Addr <- 0,
    Client <- 0, FailThreshold <- 0, PassThreshold <- 0, MaxObjects <- 0, MaxRounds <- 0,
    MaxCalls <- 0, pipe <- 0, broken <- 0, muxClosed <- 0, muxLoop <- 0, nextStream <- 0,
    st <- 0, muxSent <- 0, got <- 0, made <- 0, upstreams <- 0, healthy <- 0, chk <- 0,
    mapping <- 0, healthCall <- 0, rounds <- 0, streak <- 0, kept <- 0

DrWire == INSTANCE Upstreams WITH
    Caller <- {h1}, Domain <- {},
    Zones <- (<<>> :> [ns |-> <<<<"r">>>>, glue |-> TRUE]) @@ (<<"com">> :> [ns |-> <<<<"com", "ns">>>>, glue |-> TRUE]) @@ (<<"net">> :> [ns |-> <<<<"net", "ns">>>>, glue |-> TRUE]) @@ (<<"com", "ex">> :> [ns |-> <<<<"net", "gone">>, <<"net", "n1">>, <<"net", "n2">>>>, glue |-> FALSE]),
    Serves <- [s \in 1 .. 5 |-> IF s = 1 THEN <<>> ELSE IF s = 2 THEN <<"com">> ELSE IF s = 5 THEN <<"net">> ELSE <<"com", "ex">>],
    Records <- LET A(ip, t) == <<[type |-> "A", ip |-> ip, to |-> <<>>, ttl |-> t]>> C(n, t) == <<[type |-> "CNAME", ip |-> 0, to |-> n, ttl |-> t]>> IN (<<"r">> :> A(1, 1)) @@ (<<"com", "ns">> :> A(2, 1)) @@ (<<"net", "ns">> :> A(5, 1)) @@ (<<"net", "n1">> :> A(3, 1)) @@ (<<"net", "n2">> :> A(4, 1)) @@ (<<"net", "cdn">> :> A(20, 0)) @@ (<<"com", "ex", "www">> :> C(<<"com", "ex", "web">>, 2)) @@ (<<"com", "ex", "web">> :> A(10, 1)) @@ (<<"com", "ex", "far">> :> C(<<"net", "cdn">>, 1)) @@ (<<"com", "ex", "l1">> :> C(<<"com", "ex", "l2">>, 1)) @@ (<<"com", "ex", "l2">> :> C(<<"com", "ex", "l1">>, 1)) @@ (<<"com", "ex", "long">> :> C(<<"com", "ex", "far">>, 1)),
    Behind <- {4}, RootServers <- <<1>>, UpstreamServers <- <<>>,
    EnableRecursion <- TRUE, MaxRecursionDepth <- 4, DefaultTTL <- 2, Lossy <- TRUE,
    MaxTime <- 0, DnsWritten <- {<<"w", "e">>, <<"e">>}, Texts <- {"i1"},
    MaxRecords <- 2, cache <- x1, dnsCall <- x2, now <- x3, dnsClosed <- x4,
    dnsLoop <- x5, wire <- x6, dnsSent <- x7, MaxStreams <- 0, MaxWrites <- 0,
    Writers <- 0, Cap <- 0, MayBreak <- 0, Addr <- 0, Client <- 0, FailThreshold <- 0,
    PassThreshold <- 0, MaxObjects <- 0, MaxRounds <- 0, MaxCalls <- 0, pipe <- 0,
    broken <- 0, muxClosed <- 0, muxLoop <- 0, nextStream <- 0, st <- 0, muxSent <- 0,
    got <- 0, made <- 0, upstreams <- 0, healthy <- 0, chk <- 0, mapping <- 0,
    healthCall <- 0, rounds <- 0, streak <- 0, kept <- 0

Fb == INSTANCE HttpFront WITH
    N <- 3, HasCond <- {1,2}, Trig <- [s \in 1 .. 3 |-> IF s = 2 THEN {"a"} ELSE {}],
    Rated <- {}, Err <- {"a"}, Exec <- {sb1,sb2}, Mode <- "active", ProbeSuccess <- 2,
    ProbeFailure <- 1, MaxRuns <- 3, MaxForced <- 0, currentIndex <- x1, chain <- x2,
    st <- x3, failedOnce <- x4, consecutiveFail <- x5, ex <- x6, rec <- x7,
    running <- x8, runs <- x9, forced <- x10, outrun <- x11, Req <- 0, windowSize <- 0,
    failureThreshold <- 0, openDuration <- 0, halfOpenMaxRequests <- 0, Forced <- 0,
    Panics <- 0, CircuitMaxTime <- 0, CircuitMaxRequests <- 0, Client <- 0, Path <- 0,
    Exact <- 0, Wildcards <- 0, Upstream <- 0, ExemptPath <- 0, capacity <- 0, rate <- 0,
    refillRate <- 0, failThreshold <- 0, passThreshold <- 0, GateMaxTime <- 0,
    MaxHandlers <- 0, GateMaxRequests <- 0, MaxChecks <- 0, Caller <- 0, Addr <- 0,
    Key <- 0, Weights <- 0, Points <- 0, KeyHash <- 0, Algorithms <- 0, MaxServers <- 0,
    MaxPicks <- 0, MaxCounter <- 0, circuitNow <- 0, state <- 0, failures <- 0,
    lastOpenTime <- 0, halfOpenRequests <- 0, halfOpenSuccesses <- 0, req <- 0,
    circuitRequests <- 0, period <- 0, heard <- 0, probed <- 0, strayed <- 0, lost <- 0,
    gateNow <- 0, bucket <- 0, uh <- 0, probe <- 0, answer <- 0, taken <- 0,
    gateRequests <- 0, checks <- 0, algorithm <- 0, servers <- 0, order <- 0,
    counter <- 0, weighted <- 0, call <- 0, steady <- 0, picks <- 0

FbForced == INSTANCE HttpFront WITH
    N <- 2, HasCond <- {1,2}, Trig <- [s \in 1 .. 2 |-> {"a"}], Rated <- {},
    Err <- {"a"}, Exec <- {sb1,sb2}, Mode <- "active", ProbeSuccess <- 1,
    ProbeFailure <- 2, MaxRuns <- 2, MaxForced <- 1, currentIndex <- x1, chain <- x2,
    st <- x3, failedOnce <- x4, consecutiveFail <- x5, ex <- x6, rec <- x7,
    running <- x8, runs <- x9, forced <- x10, outrun <- x11, Req <- 0, windowSize <- 0,
    failureThreshold <- 0, openDuration <- 0, halfOpenMaxRequests <- 0, Forced <- 0,
    Panics <- 0, CircuitMaxTime <- 0, CircuitMaxRequests <- 0, Client <- 0, Path <- 0,
    Exact <- 0, Wildcards <- 0, Upstream <- 0, ExemptPath <- 0, capacity <- 0, rate <- 0,
    refillRate <- 0, failThreshold <- 0, passThreshold <- 0, GateMaxTime <- 0,
    MaxHandlers <- 0, GateMaxRequests <- 0, MaxChecks <- 0, Caller <- 0, Addr <- 0,
    Key <- 0, Weights <- 0, Points <- 0, KeyHash <- 0, Algorithms <- 0, MaxServers <- 0,
    MaxPicks <- 0, MaxCounter <- 0, circuitNow <- 0, state <- 0, failures <- 0,
    lastOpenTime <- 0, halfOpenRequests <- 0, halfOpenSuccesses <- 0, req <- 0,
    circuitRequests <- 0, period <- 0, heard <- 0, probed <- 0, strayed <- 0, lost <- 0,
    gateNow <- 0, bucket <- 0, uh <- 0, probe <- 0, answer <- 0, taken <- 0,
    gateRequests <- 0, checks <- 0, algorithm <- 0, servers <- 0, order <- 0,
    counter <- 0, weighted <- 0, call <- 0, steady <- 0, picks <- 0

FbPassive == INSTANCE HttpFront WITH
    N <- 3, HasCond <- 1 .. 3, Trig <- [s \in 1 .. 3 |-> {"a"}], Rated <- {1},
    Err <- {"a","b"}, Exec <- {sb1,sb2}, Mode <- "passive", ProbeSuccess <- 2,
    ProbeFailure <- 1, MaxRuns <- 2, MaxForced <- 0, currentIndex <- x1, chain <- x2,
    st <- x3, failedOnce <- x4, consecutiveFail <- x5, ex <- x6, rec <- x7,
    running <- x8, runs <- x9, forced <- x10, outrun <- x11, Req <- 0, windowSize <- 0,
    failureThreshold <- 0, openDuration <- 0, halfOpenMaxRequests <- 0, Forced <- 0,
    Panics <- 0, CircuitMaxTime <- 0, CircuitMaxRequests <- 0, Client <- 0, Path <- 0,
    Exact <- 0, Wildcards <- 0, Upstream <- 0, ExemptPath <- 0, capacity <- 0, rate <- 0,
    refillRate <- 0, failThreshold <- 0, passThreshold <- 0, GateMaxTime <- 0,
    MaxHandlers <- 0, GateMaxRequests <- 0, MaxChecks <- 0, Caller <- 0, Addr <- 0,
    Key <- 0, Weights <- 0, Points <- 0, KeyHash <- 0, Algorithms <- 0, MaxServers <- 0,
    MaxPicks <- 0, MaxCounter <- 0, circuitNow <- 0, state <- 0, failures <- 0,
    lastOpenTime <- 0, halfOpenRequests <- 0, halfOpenSuccesses <- 0, req <- 0,
    circuitRequests <- 0, period <- 0, heard <- 0, probed <- 0, strayed <- 0, lost <- 0,
    gateNow <- 0, bucket <- 0, uh <- 0, probe <- 0, answer <- 0, taken <- 0,
    gateRequests <- 0, checks <- 0, algorithm <- 0, servers <- 0, order <- 0,
    counter <- 0, weighted <- 0, call <- 0, steady <- 0, picks <- 0

Gc == INSTANCE HttpFront WITH
    Req <- {sb1,sb2}, windowSize <- 1, failureThreshold <- 2, openDuration <- 1,
    halfOpenMaxRequests <- 2, Forced <- FALSE, Panics <- TRUE, CircuitMaxTime <- 4,
    CircuitMaxRequests <- 6, circuitNow <- x1, state <- x2, failures <- x3,
    lastOpenTime <- x4, halfOpenRequests <- x5, halfOpenSuccesses <- x6, req <- x7,
    circuitRequests <- x8, period <- x9, heard <- x10, probed <- x11, strayed <- x12,
    lost <- x13, Client <- 0, Path <- 0, Exact <- 0, Wildcards <- 0, Upstream <- 0,
    ExemptPath <- 0, capacity <- 0, rate <- 0, refillRate <- 0, failThreshold <- 0,
    passThreshold <- 0, GateMaxTime <- 0, MaxHandlers <- 0, GateMaxRequests <- 0,
    MaxChecks <- 0, Caller <- 0, Addr <- 0, Key <- 0, Weights <- 0, Points <- 0,
    KeyHash <- 0, Algorithms <- 0, MaxServers <- 0, MaxPicks <- 0, MaxCounter <- 0,
    N <- 0, HasCond <- 0, Trig <- 0, Rated <- 0, Err <- 0, Exec <- 0, Mode <- 0,
    ProbeSuccess <- 0, ProbeFailure <- 0, MaxRuns <- 0, MaxForced <- 0, gateNow <- 0,
    bucket <- 0, uh <- 0, probe <- 0, answer <- 0, taken <- 0, gateRequests <- 0,
    checks <- 0, algorithm <- 0, servers <- 0, order <- 0, counter <- 0, weighted <- 0,
    call <- 0, steady <- 0, picks <- 0, currentIndex <- 0, chain <- 0, st <- 0,
    failedOnce <- 0, consecutiveFail <- 0, ex <- 0, rec <- 0, running <- 0, runs <- 0,
    forced <- 0, outrun <- 0

GcForced == INSTANCE HttpFront WITH
    Req <- {sb1,sb2}, windowSize <- 1, failureThreshold <- 2, openDuration <- 1,
    halfOpenMaxRequests <- 2, Forced <- TRUE, Panics <- FALSE, CircuitMaxTime <- 2,
    CircuitMaxRequests <- 4, circuitNow <- x1, state <- x2, failures <- x3,
    lastOpenTime <- x4, halfOpenRequests <- x5, halfOpenSuccesses <- x6, req <- x7,
    circuitRequests <- x8, period <- x9, heard <- x10, probed <- x11, strayed <- x12,
    lost <- x13, Client <- 0, Path <- 0, Exact <- 0, Wildcards <- 0, Upstream <- 0,
    ExemptPath <- 0, capacity <- 0, rate <- 0, refillRate <- 0, failThreshold <- 0,
    passThreshold <- 0, GateMaxTime <- 0, MaxHandlers <- 0, GateMaxRequests <- 0,
    MaxChecks <- 0, Caller <- 0, Addr <- 0, Key <- 0, Weights <- 0, Points <- 0,
    KeyHash <- 0, Algorithms <- 0, MaxServers <- 0, MaxPicks <- 0, MaxCounter <- 0,
    N <- 0, HasCond <- 0, Trig <- 0, Rated <- 0, Err <- 0, Exec <- 0, Mode <- 0,
    ProbeSuccess <- 0, ProbeFailure <- 0, MaxRuns <- 0, MaxForced <- 0, gateNow <- 0,
    bucket <- 0, uh <- 0, probe <- 0, answer <- 0, taken <- 0, gateRequests <- 0,
    checks <- 0, algorithm <- 0, servers <- 0, order <- 0, counter <- 0, weighted <- 0,
    call <- 0, steady <- 0, picks <- 0, currentIndex <- 0, chain <- 0, st <- 0,
    failedOnce <- 0, consecutiveFail <- 0, ex <- 0, rec <- 0, running <- 0, runs <- 0,
    forced <- 0, outrun <- 0

GgRate == INSTANCE HttpFront WITH
    Client <- {"c"}, Path <- {<<1>>}, Exact <- [p \in {<<1>>} |-> "u"],
    Wildcards <- <<>>, Upstream <- {}, ExemptPath <- {}, capacity <- 2, rate <- 1,
    refillRate <- 2, failThreshold <- 1, passThreshold <- 1, GateMaxTime <- 7,
    MaxHandlers <- 1, GateMaxRequests <- 7, MaxChecks <- 0, gateNow <- x1, bucket <- x2,
    uh <- x3, probe <- x4, answer <- x5, taken <- x6, gateRequests <- x7, checks <- x8,
    Req <- 0, windowSize <- 0, failureThreshold <- 0, openDuration <- 0,
    halfOpenMaxRequests <- 0, Forced <- 0, Panics <- 0, CircuitMaxTime <- 0,
    CircuitMaxRequests <- 0, Caller <- 0, Addr <- 0, Key <- 0, Weights <- 0, Points <- 0,
    KeyHash <- 0, Algorithms <- 0, MaxServers <- 0, MaxPicks <- 0, MaxCounter <- 0,
    N <- 0, HasCond <- 0, Trig <- 0, Rated <- 0, Err <- 0, Exec <- 0, Mode <- 0,
    ProbeSuccess <- 0, ProbeFailure <- 0, MaxRuns <- 0, MaxForced <- 0, circuitNow <- 0,
    state <- 0, failures <- 0, lastOpenTime <- 0, halfOpenRequests <- 0,
    halfOpenSuccesses <- 0, req <- 0, circuitRequests <- 0, period <- 0, heard <- 0,
    probed <- 0, strayed <- 0, lost <- 0, algorithm <- 0, servers <- 0, order <- 0,
    counter <- 0, weighted <- 0, call <- 0, steady <- 0, picks <- 0, currentIndex <- 0,
    chain <- 0, st <- 0, failedOnce <- 0, consecutiveFail <- 0, ex <- 0, rec <- 0,
    running <- 0, runs <- 0, forced <- 0, outrun <- 0

GgRoute == INSTANCE HttpFront WITH
    Client <- {"c"}, Path <- {<<1,1>>,<<1,2>>,<<2>>}, Exact <- [p \in {<<1,1>>} |-> "u"],
    Wildcards <- <<[prefix |-> <<>>, upstream |-> "v"],[prefix |-> <<1>>, upstream |-> "w"],[prefix |-> <<1>>, upstream |-> "u"]>>,
    Upstream <- {"u","w"}, ExemptPath <- {<<2>>}, capacity <- 2, rate <- 1,
    refillRate <- 2, failThreshold <- 2, passThreshold <- 1, GateMaxTime <- 0,
    MaxHandlers <- 2, GateMaxRequests <- 2, MaxChecks <- 2, gateNow <- x1, bucket <- x2,
    uh <- x3, probe <- x4, answer <- x5, taken <- x6, gateRequests <- x7, checks <- x8,
    Req <- 0, windowSize <- 0, failureThreshold <- 0, openDuration <- 0,
    halfOpenMaxRequests <- 0, Forced <- 0, Panics <- 0, CircuitMaxTime <- 0,
    CircuitMaxRequests <- 0, Caller <- 0, Addr <- 0, Key <- 0, Weights <- 0, Points <- 0,
    KeyHash <- 0, Algorithms <- 0, MaxServers <- 0, MaxPicks <- 0, MaxCounter <- 0,
    N <- 0, HasCond <- 0, Trig <- 0, Rated <- 0, Err <- 0, Exec <- 0, Mode <- 0,
    ProbeSuccess <- 0, ProbeFailure <- 0, MaxRuns <- 0, MaxForced <- 0, circuitNow <- 0,
    state <- 0, failures <- 0, lastOpenTime <- 0, halfOpenRequests <- 0,
    halfOpenSuccesses <- 0, req <- 0, circuitRequests <- 0, period <- 0, heard <- 0,
    probed <- 0, strayed <- 0, lost <- 0, algorithm <- 0, servers <- 0, order <- 0,
    counter <- 0, weighted <- 0, call <- 0, steady <- 0, picks <- 0, currentIndex <- 0,
    chain <- 0, st <- 0, failedOnce <- 0, consecutiveFail <- 0, ex <- 0, rec <- 0,
    running <- 0, runs <- 0, forced <- 0, outrun <- 0

Lr == INSTANCE Maintenance WITH
    RotationMode <- "size", MaxFileSize <- 1, Compress <- TRUE, MaxBackups <- 1,
    TTL <- 0, Busy <- TRUE, MaxLines <- 3, MaxName <- 3, LogMaxTime <- 0,
    LogMaxFaults <- 1, logNow <- x1, lines <- x2, file <- x3, date <- x4, orphan <- x5,
    broken <- x6, plain <- x7, gz <- x8, comp <- x9, removed <- x10, logFaults <- x11,
    Migrator <- 0, Last <- 0, NoDown <- 0, LockTimeout <- 0, Prompt <- 0,
    SchemaMaxTime <- 0, MaxCalls <- 0, SchemaMaxFaults <- 0, BatchSize <- 0,
    MaxRetryPerBatch <- 0, EnableCheckpoint <- 0, Records <- 0, MaxRuns <- 0,
    PipeMaxFaults <- 0, schemaNow <- 0, applied <- 0, effect <- 0, row <- 0, mig <- 0,
    calls <- 0, schemaFaults <- 0, unsure <- 0, source <- 0, copies <- 0,
    checkpoint <- 0, cursor <- 0, status <- 0, phase <- 0, batch <- 0, attempt <- 0,
    stopped <- 0, goal <- 0, runs <- 0, pipeFaults <- 0, stops <- 0

LrPlain == INSTANCE Maintenance WITH
    RotationMode <- "size", MaxFileSize <- 2, Compress <- FALSE, MaxBackups <- 1,
    TTL <- 1, Busy <- TRUE, MaxLines <- 6, MaxName <- 3, LogMaxTime <- 2,
    LogMaxFaults <- 1, logNow <- x1, lines <- x2, file <- x3, date <- x4, orphan <- x5,
    broken <- x6, plain <- x7, gz <- x8, comp <- x9, removed <- x10, logFaults <- x11,
    Migrator <- 0, Last <- 0, NoDown <- 0, LockTimeout <- 0, Prompt <- 0,
    SchemaMaxTime <- 0, MaxCalls <- 0, SchemaMaxFaults <- 0, BatchSize <- 0,
    MaxRetryPerBatch <- 0, EnableCheckpoint <- 0, Records <- 0, MaxRuns <- 0,
    PipeMaxFaults <- 0, schemaNow <- 0, applied <- 0, effect <- 0, row <- 0, mig <- 0,
    calls <- 0, schemaFaults <- 0, unsure <- 0, source <- 0, copies <- 0,
    checkpoint <- 0, cursor <- 0, status <- 0, phase <- 0, batch <- 0, attempt <- 0,
    stopped <- 0, goal <- 0, runs <- 0, pipeFaults <- 0, stops <- 0

LrTime == INSTANCE Maintenance WITH
    RotationMode <- "time", MaxFileSize <- 1, Compress <- TRUE, MaxBackups <- 1,
    TTL <- 1, Busy <- TRUE, MaxLines <- 3, MaxName <- 4, LogMaxTime <- 2,
    LogMaxFaults <- 1, logNow <- x1, lines <- x2, file <- x3, date <- x4, orphan <- x5,
    broken <- x6, plain <- x7, gz <- x8, comp <- x9, removed <- x10, logFaults <- x11,
    Migrator <- 0, Last <- 0, NoDown <- 0, LockTimeout <- 0, Prompt <- 0,
    SchemaMaxTime <- 0, MaxCalls <- 0, SchemaMaxFaults <- 0, BatchSize <- 0,
    MaxRetryPerBatch <- 0, EnableCheckpoint <- 0, Records <- 0, MaxRuns <- 0,
    PipeMaxFaults <- 0, schemaNow <- 0, applied <- 0, effect <- 0, row <- 0, mig <- 0,
    calls <- 0, schemaFaults <- 0, unsure <- 0, source <- 0, copies <- 0,
    checkpoint <- 0, cursor <- 0, status <- 0, phase <- 0, batch <- 0, attempt <- 0,
    stopped <- 0, goal <- 0, runs <- 0, pipeFaults <- 0, stops <- 0

LrIdle == INSTANCE Maintenance WITH
    RotationMode <- "time", MaxFileSize <- 1, Compress <- FALSE, MaxBackups <- 1,
    TTL <- 1, Busy <- FALSE, MaxLines <- 3, MaxName <- 4, LogMaxTime <- 3,
    LogMaxFaults <- 1, logNow <- x1, lines <- x2, file <- x3, date <- x4, orphan <- x5,
    broken <- x6, plain <- x7, gz <- x8, comp <- x9, removed <- x10, logFaults <- x11,
    Migrator <- 0, Last <- 0, NoDown <- 0, LockTimeout <- 0, Prompt <- 0,
    SchemaMaxTime <- 0, MaxCalls <- 0, SchemaMaxFaults <- 0, BatchSize <- 0,
    MaxRetryPerBatch <- 0, EnableCheckpoint <- 0, Records <- 0, MaxRuns <- 0,
    PipeMaxFaults <- 0, schemaNow <- 0, applied <- 0, effect <- 0, row <- 0, mig <- 0,
    calls <- 0, schemaFaults <- 0, unsure <- 0, source <- 0, copies <- 0,
    checkpoint <- 0, cursor <- 0, status <- 0, phase <- 0, batch <- 0, attempt <- 0,
    stopped <- 0, goal <- 0, runs <- 0, pipeFaults <- 0, stops <- 0

LrIdleSize == INSTANCE Maintenance WITH
    RotationMode <- "size", MaxFileSize <- 2, Compress <- FALSE, MaxBackups <- 2,
    TTL <- 1, Busy <- FALSE, MaxLines <- 3, MaxName <- 3, LogMaxTime <- 2,
    LogMaxFaults <- 1, logNow <- x1, lines <- x2, file <- x3, date <- x4, orphan <- x5,
    broken <- x6, plain <- x7, gz <- x8, comp <- x9, removed <- x10, logFaults <- x11,
    Migrator <- 0, Last <- 0, NoDown <- 0, LockTimeout <- 0, Prompt <- 0,
    SchemaMaxTime <- 0, MaxCalls <- 0, SchemaMaxFaults <- 0, BatchSize <- 0,
    MaxRetryPerBatch <- 0, EnableCheckpoint <- 0, Records <- 0, MaxRuns <- 0,
    PipeMaxFaults <- 0, schemaNow <- 0, applied <- 0, effect <- 0, row <- 0, mig <- 0,
    calls <- 0, schemaFaults <- 0, unsure <- 0, source <- 0, copies <- 0,
    checkpoint <- 0, cursor <- 0, status <- 0, phase <- 0, batch <- 0, attempt <- 0,
    stopped <- 0, goal <- 0, runs <- 0, pipeFaults <- 0, stops <- 0

Ph == INSTANCE Upstreams WITH
    Addr <- {"a","b"}, Client <- {p1}, FailThreshold <- 2, PassThreshold <- 1,
    MaxObjects <- 1, MaxRounds <- 3, MaxCalls <- 2, made <- x1, upstreams <- x2,
    healthy <- x3, chk <- x4, mapping <- x5, healthCall <- x6, rounds <- x7,
    streak <- x8, kept <- x9, MaxStreams <- 0, MaxWrites <- 0, Writers <- 0, Cap <- 0,
    MayBreak <- 0, Caller <- 0, Domain <- 0, Zones <- 0, Serves <- 0, Records <- 0,
    Behind <- 0, RootServers <- 0, UpstreamServers <- 0, EnableRecursion <- 0,
    MaxRecursionDepth <- 0, DefaultTTL <- 0, Lossy <- 0, DnsWritten <- 0, Texts <- 0,
    MaxTime <- 0, MaxRecords <- 0, pipe <- 0, broken <- 0, muxClosed <- 0, muxLoop <- 0,
    nextStream <- 0, st <- 0, muxSent <- 0, got <- 0, cache <- 0, dnsCall <- 0, now <- 0,
    dnsClosed <- 0, dnsLoop <- 0, wire <- 0, dnsSent <- 0

PhObj == INSTANCE Upstreams WITH
    Addr <- {"a"}, Client <- {p1}, FailThreshold <- 2, PassThreshold <- 1,
    MaxObjects <- 2, MaxRounds <- 4, MaxCalls <- 2, made <- x1, upstreams <- x2,
    healthy <- x3, chk <- x4, mapping <- x5, healthCall <- x6, rounds <- x7,
    streak <- x8, kept <- x9, MaxStreams <- 0, MaxWrites <- 0, Writers <- 0, Cap <- 0,
    MayBreak <- 0, Caller <- 0, Domain <- 0, Zones <- 0, Serves <- 0, Records <- 0,
    Behind <- 0, RootServers <- 0, UpstreamServers <- 0, EnableRecursion <- 0,
    MaxRecursionDepth <- 0, DefaultTTL <- 0, Lossy <- 0, DnsWritten <- 0, Texts <- 0,
    MaxTime <- 0, MaxRecords <- 0, pipe <- 0, broken <- 0, muxClosed <- 0, muxLoop <- 0,
    nextStream <- 0, st <- 0, muxSent <- 0, got <- 0, cache <- 0, dnsCall <- 0, now <- 0,
    dnsClosed <- 0, dnsLoop <- 0, wire <- 0, dnsSent <- 0

Pm1 == INSTANCE Upstreams WITH
    MaxStreams <- 1, MaxWrites <- 2, Cap <- 1, Writers <- {"c","s"}, MayBreak <- TRUE,
    pipe <- x1, broken <- x2, muxClosed <- x3, muxLoop <- x4, nextStream <- x5, st <- x6,
    muxSent <- x7, got <- x8, Addr <- 0, Client <- 0, FailThreshold <- 0,
    PassThreshold <- 0, MaxObjects <- 0, MaxRounds <- 0, MaxCalls <- 0, Caller <- 0,
    Domain <- 0, Zones <- 0, Serves <- 0, Records <- 0, Behind <- 0, RootServers <- 0,
    UpstreamServers <- 0, EnableRecursion <- 0, MaxRecursionDepth <- 0, DefaultTTL <- 0,
    Lossy <- 0, DnsWritten <- 0, Texts <- 0, MaxTime <- 0, MaxRecords <- 0, made <- 0,
    upstreams <- 0, healthy <- 0, chk <- 0, mapping <- 0, healthCall <- 0, rounds <- 0,
    streak <- 0, kept <- 0, cache <- 0, dnsCall <- 0, now <- 0, dnsClosed <- 0,
    dnsLoop <- 0, wire <- 0, dnsSent <- 0

Pm2 == INSTANCE Upstreams WITH
    MaxStreams <- 2, MaxWrites <- 1, Cap <- 1, Writers <- {"c"}, MayBreak <- FALSE,
    pipe <- x1, broken <- x2, muxClosed <- x3, muxLoop <- x4, nextStream <- x5, st <- x6,
    muxSent <- x7, got <- x8, Addr <- 0, Client <- 0, FailThreshold <- 0,
    PassThreshold <- 0, MaxObjects <- 0, MaxRounds <- 0, MaxCalls <- 0, Caller <- 0,
    Domain <- 0, Zones <- 0, Serves <- 0, Records <- 0, Behind <- 0, RootServers <- 0,
    UpstreamServers <- 0, EnableRecursion <- 0, MaxRecursionDepth <- 0, DefaultTTL <- 0,
    Lossy <- 0, DnsWritten <- 0, Texts <- 0, MaxTime <- 0, MaxRecords <- 0, made <- 0,
    upstreams <- 0, healthy <- 0, chk <- 0, mapping <- 0, healthCall <- 0, rounds <- 0,
    streak <- 0, kept <- 0, cache <- 0, dnsCall <- 0, now <- 0, dnsClosed <- 0,
    dnsLoop <- 0, wire <- 0, dnsSent <- 0

Pp1 == INSTANCE ProxyPool WITH
    Borrowers <- {p1,p2,p3}, MaxConns <- 1, Waits <- TRUE, MaxDials <- 2, idleList <- x1,
    activeCount <- x2, closed <- x3, conns <- x4, b <- x5, armed <- x6, due <- x7,
    waiters <- x8, shuffled <- x9, unarmed <- x10

Pp2 == INSTANCE ProxyPool WITH
    Borrowers <- {p1,p2,p3}, MaxConns <- 2, Waits <- FALSE, MaxDials <- 3,
    idleList <- x1, activeCount <- x2, closed <- x3, conns <- x4, b <- x5, armed <- x6,
    due <- x7, waiters <- x8, shuffled <- x9, unarmed <- x10

-----------------------------------------------------------------------------
SuiteInit ==
    \/ /\ which = "Rd" /\ Init /\ x1 = 0 /\ x2 = 0 /\ x3 = 0 /\ x4 = 0 /\ x5 = 0 /\ x6 = 0 /\ x7 = 0 /\ x8 = 0 /\ x9 = 0 /\ x10 = 0 /\ x11 = 0 /\ x12 = 0 /\ x13 = 0 /\ x14 = 0 /\ x15 = 0 /\ x16 = 0
    \/ /\ which = "CrConn" /\ CrConn!CertInit /\ Init
    \/ /\ which = "Dpipe" /\ Dpipe!PipeInit /\ Init /\ x14 = 0 /\ x15 = 0 /\ x16 = 0
    \/ /\ which = "Dr" /\ Dr!DnsInit /\ Init /\ x8 = 0 /\ x9 = 0 /\ x10 = 0 /\ x11 = 0 /\ x12 = 0 /\ x13 = 0 /\ x14 = 0 /\ x15 = 0 /\ x16 = 0
    \/ /\ which = "DrUp" /\ DrUp!DnsInit /\ Init /\ x8 = 0 /\ x9 = 0 /\ x10 = 0 /\ x11 = 0 /\ x12 = 0 /\ x13 = 0 /\ x14 = 0 /\ x15 = 0 /\ x16 = 0
    \/ /\ which = "DrWire" /\ DrWire!DnsInit /\ Init /\ x8 = 0 /\ x9 = 0 /\ x10 = 0 /\ x11 = 0 /\ x12 = 0 /\ x13 = 0 /\ x14 = 0 /\ x15 = 0 /\ x16 = 0
    \/ /\ which = "Fb" /\ Fb!ChainInit /\ Init /\ x12 = 0 /\ x13 = 0 /\ x14 = 0 /\ x15 = 0 /\ x16 = 0
    \/ /\ which = "FbForced" /\ FbForced!ChainInit /\ Init /\ x12 = 0 /\ x13 = 0 /\ x14 = 0 /\ x15 = 0 /\ x16 = 0
    \/ /\ which = "FbPassive" /\ FbPassive!ChainInit /\ Init /\ x12 = 0 /\ x13 = 0 /\ x14 = 0 /\ x15 = 0 /\ x16 = 0
    \/ /\ which = "Gc" /\ Gc!CircuitInit /\ Init /\ x14 = 0 /\ x15 = 0 /\ x16 = 0
    \/ /\ which = "GcForced" /\ GcForced!CircuitInit /\ Init /\ x14 = 0 /\ x15 = 0 /\ x16 = 0
    \/ /\ which = "GgRate" /\ GgRate!GateInit /\ Init /\ x9 = 0 /\ x10 = 0 /\ x11 = 0 /\ x12 = 0 /\ x13 = 0 /\ x14 = 0 /\ x15 = 0 /\ x16 = 0
    \/ /\ which = "GgRoute" /\ GgRoute!GateInit /\ Init /\ x9 = 0 /\ x10 = 0 /\ x11 = 0 /\ x12 = 0 /\ x13 = 0 /\ x14 = 0 /\ x15 = 0 /\ x16 = 0
    \/ /\ which = "Lr" /\ Lr!LogInit /\ Init /\ x12 = 0 /\ x13 = 0 /\ x14 = 0 /\ x15 = 0 /\ x16 = 0
    \/ /\ which = "LrPlain" /\ LrPlain!LogInit /\ Init /\ x12 = 0 /\ x13 = 0 /\ x14 = 0 /\ x15 = 0 /\ x16 = 0
    \/ /\ which = "LrTime" /\ LrTime!LogInit /\ Init /\ x12 = 0 /\ x13 = 0 /\ x14 = 0 /\ x15 = 0 /\ x16 = 0
    \/ /\ which = "LrIdle" /\ LrIdle!LogInit /\ Init /\ x12 = 0 /\ x13 = 0 /\ x14 = 0 /\ x15 = 0 /\ x16 = 0
    \/ /\ which = "LrIdleSize" /\ LrIdleSize!LogInit /\ Init /\ x12 = 0 /\ x13 = 0 /\ x14 = 0 /\ x15 = 0 /\ x16 = 0
    \/ /\ which = "Ph" /\ Ph!HealthInit /\ Init /\ x10 = 0 /\ x11 = 0 /\ x12 = 0 /\ x13 = 0 /\ x14 = 0 /\ x15 = 0 /\ x16 = 0
    \/ /\ which = "PhObj" /\ PhObj!HealthInit /\ Init /\ x10 = 0 /\ x11 = 0 /\ x12 = 0 /\ x13 = 0 /\ x14 = 0 /\ x15 = 0 /\ x16 = 0
    \/ /\ which = "Pm1" /\ Pm1!MuxInit /\ Init /\ x9 = 0 /\ x10 = 0 /\ x11 = 0 /\ x12 = 0 /\ x13 = 0 /\ x14 = 0 /\ x15 = 0 /\ x16 = 0
    \/ /\ which = "Pm2" /\ Pm2!MuxInit /\ Init /\ x9 = 0 /\ x10 = 0 /\ x11 = 0 /\ x12 = 0 /\ x13 = 0 /\ x14 = 0 /\ x15 = 0 /\ x16 = 0
    \/ /\ which = "Pp1" /\ Pp1!Init /\ Init /\ x11 = 0 /\ x12 = 0 /\ x13 = 0 /\ x14 = 0 /\ x15 = 0 /\ x16 = 0
    \/ /\ which = "Pp2" /\ Pp2!Init /\ Init /\ x11 = 0 /\ x12 = 0 /\ x13 = 0 /\ x14 = 0 /\ x15 = 0 /\ x16 = 0

SuiteNext ==
    /\ UNCHANGED which
    /\ \/ /\ which = "Rd" /\ Next /\ UNCHANGED <<slots>>
       \/ /\ which = "CrConn" /\ CrConn!CertNext /\ UNCHANGED <<vars>>
       \/ /\ which = "Dpipe" /\ Dpipe!PipeNext /\ UNCHANGED <<vars, x14, x15, x16>>
       \/ /\ which = "Dr" /\ Dr!DnsNext /\ UNCHANGED <<vars, x8, x9, x10, x11, x12, x13, x14, x15, x16>>
       \/ /\ which = "DrUp" /\ DrUp!DnsNext /\ UNCHANGED <<vars, x8, x9, x10, x11, x12, x13, x14, x15, x16>>
       \/ /\ which = "DrWire" /\ DrWire!DnsNext /\ UNCHANGED <<vars, x8, x9, x10, x11, x12, x13, x14, x15, x16>>
       \/ /\ which = "Fb" /\ Fb!ChainNext /\ UNCHANGED <<vars, x12, x13, x14, x15, x16>>
       \/ /\ which = "FbForced" /\ FbForced!ChainNext /\ UNCHANGED <<vars, x12, x13, x14, x15, x16>>
       \/ /\ which = "FbPassive" /\ FbPassive!ChainNext /\ UNCHANGED <<vars, x12, x13, x14, x15, x16>>
       \/ /\ which = "Gc" /\ Gc!CircuitNext /\ UNCHANGED <<vars, x14, x15, x16>>
       \/ /\ which = "GcForced" /\ GcForced!CircuitNext /\ UNCHANGED <<vars, x14, x15, x16>>
       \/ /\ which = "GgRate" /\ GgRate!GateNext /\ UNCHANGED <<vars, x9, x10, x11, x12, x13, x14, x15, x16>>
       \/ /\ which = "GgRoute" /\ GgRoute!GateNext /\ UNCHANGED <<vars, x9, x10, x11, x12, x13, x14, x15, x16>>
       \/ /\ which = "Lr" /\ Lr!LogNext /\ UNCHANGED <<vars, x12, x13, x14, x15, x16>>
       \/ /\ which = "LrPlain" /\ LrPlain!LogNext /\ UNCHANGED <<vars, x12, x13, x14, x15, x16>>
       \/ /\ which = "LrTime" /\ LrTime!LogNext /\ UNCHANGED <<vars, x12, x13, x14, x15, x16>>
       \/ /\ which = "LrIdle" /\ LrIdle!LogNext /\ UNCHANGED <<vars, x12, x13, x14, x15, x16>>
       \/ /\ which = "LrIdleSize" /\ LrIdleSize!LogNext /\ UNCHANGED <<vars, x12, x13, x14, x15, x16>>
       \/ /\ which = "Ph" /\ Ph!HealthNext /\ UNCHANGED <<vars, x10, x11, x12, x13, x14, x15, x16>>
       \/ /\ which = "PhObj" /\ PhObj!HealthNext /\ UNCHANGED <<vars, x10, x11, x12, x13, x14, x15, x16>>
       \/ /\ which = "Pm1" /\ Pm1!MuxNext /\ UNCHANGED <<vars, x9, x10, x11, x12, x13, x14, x15, x16>>
       \/ /\ which = "Pm2" /\ Pm2!MuxNext /\ UNCHANGED <<vars, x9, x10, x11, x12, x13, x14, x15, x16>>
       \/ /\ which = "Pp1" /\ Pp1!Next /\ UNCHANGED <<vars, x11, x12, x13, x14, x15, x16>>
       \/ /\ which = "Pp2" /\ Pp2!Next /\ UNCHANGED <<vars, x11, x12, x13, x14, x15, x16>>

Symmetric == Permutations({sb1, sb2})

-----------------------------------------------------------------------------
(* Each component keeps its variables in their types. *)
TypesOK ==
    /\ which = "Rd" => TypeOK
    /\ which = "CrConn" => CrConn!CertTypeOK
    /\ which = "Dpipe" => Dpipe!PipeTypeOK
    /\ which = "Dr" => Dr!DnsTypeOK
    /\ which = "DrUp" => DrUp!DnsTypeOK
    /\ which = "DrWire" => DrWire!DnsTypeOK
    /\ which = "Fb" => Fb!ChainTypeOK
    /\ which = "FbForced" => FbForced!ChainTypeOK
    /\ which = "FbPassive" => FbPassive!ChainTypeOK
    /\ which = "Gc" => Gc!CircuitTypeOK
    /\ which = "GcForced" => GcForced!CircuitTypeOK
    /\ which = "GgRate" => GgRate!GateTypeOK
    /\ which = "GgRoute" => GgRoute!GateTypeOK
    /\ which = "Lr" => Lr!LogTypeOK
    /\ which = "LrPlain" => LrPlain!LogTypeOK
    /\ which = "LrTime" => LrTime!LogTypeOK
    /\ which = "LrIdle" => LrIdle!LogTypeOK
    /\ which = "LrIdleSize" => LrIdleSize!LogTypeOK
    /\ which = "Ph" => Ph!HealthTypeOK
    /\ which = "PhObj" => PhObj!HealthTypeOK
    /\ which = "Pm1" => Pm1!MuxTypeOK
    /\ which = "Pm2" => Pm2!MuxTypeOK
    /\ which = "Pp1" => Pp1!TypeOK
    /\ which = "Pp2" => Pp2!TypeOK

(* As long as no Get looked through two idle connections: each connection   *)
(* has one borrower or a place in the list, activeCount counts the          *)
(* borrowers, the limit covers the idle connections too, and a closed pool  *)
(* has no open connection left once the borrowers are gone.                 *)
(* docs/tcpproxy.md, 6.1.7: nobody sleeps while there is a place unless     *)
(* somebody else is on the way to it or a timer is about to wake all, and   *)
(* nobody sleeps without a timer.  The clock is read twice: a deadline that *)
(* passes in between leaves a sleeper without one.                          *)
(* The rotator cuts a connection only in Close, or when its certificate has  *)
(* been retiring for longer than the timeout; a connection it has not cut    *)
(* and that was tracked in time is still found under its certificate, so     *)
(* that none is left open when Close returns.                                *)
(* An owner reads what the other owner wrote, in its order, and once it is  *)
(* told the end, by a FIN it did not ask for with its own Close, it has all. *)
(* When readLoop has ended nobody is left waiting: every stream has been    *)
(* closed, unless its SYNC was being handled while Close cleared the map.   *)
(* A stream that both owners have closed is not closed on one end only.     *)
ConnectionsAccounted ==
    /\ which = "Pp1" => Pp1!PoolAccounts
    /\ which = "Pp2" => Pp2!PoolAccounts
    /\ which = "Pp1" => Pp1!NoLostWakeup
    /\ which = "Pp2" => Pp2!NoLostWakeup
    /\ which = "CrConn" => CrConn!OpenIsTracked
    /\ which = "Pm1" => Pm1!StreamDelivers
    /\ which = "Pm2" => Pm2!StreamDelivers
    /\ which = "Pm1" => Pm1!NoOrphanReader
    /\ which = "Pm2" => Pm2!NoOrphanReader
    /\ which = "Pm1" => Pm1!ClosedOnBothEnds
    /\ which = "Pm2" => Pm2!ClosedOnBothEnds


(* Whatever fails, stops or crashes, the checkpoint is never ahead of the    *)
(* target, and a run that reports completion leaves every record that was in *)
(* the source when it began in the target.                                   *)
(* With checkpoints, records arrive once, over any number of runs, unless a  *)
(* call failed or a run was stopped or cut off.                              *)
(* Every line that was logged is in a file, or was in one that the limits on *)
(* number and age removed, while backups are compressed and dropped, calls   *)
(* fail and the process dies at any moment.                                  *)
(* Without compression, what the limits removed is older than what they left.*)
(* When no compression is under way, was cut off or failed, there are at     *)
(* most MaxBackups backups, if they do not expire as well.                   *)
CopiesComplete ==
    /\ which = "Dpipe" => Dpipe!NothingSkipped
    /\ which = "Dpipe" => Dpipe!RepeatsHaveCause
    /\ which = "Lr" => Lr!LinesKept
    /\ which = "LrPlain" => LrPlain!LinesKept
    /\ which = "LrTime" => LrTime!LinesKept
    /\ which = "Lr" => Lr!NewestKept
    /\ which = "LrPlain" => LrPlain!NewestKept
    /\ which = "LrTime" => LrTime!NewestKept
    /\ which = "LrIdle" => LrIdle!NewestKept
    /\ which = "LrIdleSize" => LrIdleSize!NewestKept
    /\ which = "Lr" => Lr!BackupsBounded
    /\ which = "LrPlain" => LrPlain!BackupsBounded
    /\ which = "LrTime" => LrTime!BackupsBounded

(* Whatever queries are lost, by whichever servers and aliases a name is    *)
(* resolved, and whether it comes from the cache: the addresses returned    *)
(* are those at the end of its chain of aliases, never none and never those *)
(* of another name.                                                         *)
(* Where no query is lost, every name that exists resolves, if its chain of *)
(* aliases leaves a level for the address of a name server; a server that   *)
(* has no records yet and a name server without an address do not prevent   *)
(* it, and a circle of aliases fails.                                       *)
(* A response that servers write with whatever compression is read back as  *)
(* the same records, and one cut anywhere by the 512 byte buffer is refused.*)
(* Between any two moments a client gets at most a full bucket and the      *)
(* refills that fall between them.                                          *)
(* A request goes to a healthy upstream: that of its path, or else, when    *)
(* the path has none, to the wildcard that fits it most closely.            *)
(* A breaker that is half-open lets a request in or waits for one: it does  *)
(* not refuse for good, unless a probe panicked.                            *)
(* docs/fallback.md: the active mode brings the chain back.  While no call  *)
(* and no recovery is under way, a chain that has left its main strategy    *)
(* has marked it degraded, which the probe loop looks for, unless it left   *)
(* for the error rate or a call from before the last switch came in late.   *)
(* A call reports that every strategy has failed only after the last one,   *)
(* the default of the chain, was run or passed over for its error rate: no  *)
(* jump of the trigger conditions leads past it.                            *)
RequestsServed ==
    /\ which = "Dr" => Dr!RightAddresses
    /\ which = "DrUp" => DrUp!RightAddresses
    /\ which = "Dr" => Dr!NothingMissed
    /\ which = "DrUp" => DrUp!NothingMissed
    /\ which = "DrWire" => DrWire!ReadsBack
    /\ which = "GgRate" => GgRate!RateBounded
    /\ which = "GgRoute" => GgRoute!RateBounded
    /\ which = "GgRate" => GgRate!RoutedRight
    /\ which = "GgRoute" => GgRoute!RoutedRight
    /\ which = "Gc" => Gc!NotStuckHalfOpen
    /\ which = "GcForced" => GcForced!NotStuckHalfOpen
    /\ which = "Fb" => Fb!NotStranded
    /\ which = "FbForced" => FbForced!NotStranded
    /\ which = "FbPassive" => FbPassive!NotStranded
    /\ which = "Fb" => Fb!LastResortTried
    /\ which = "FbForced" => FbForced!LastResortTried
    /\ which = "FbPassive" => FbPassive!LastResortTried
=============================================================================
