------------------------------- MODULE MCLive -------------------------------
(*****************************************************************************)
(* What must happen eventually, in small instances of the components that    *)
(* make such a promise, without symmetry. A behaviour is about one of        *)
(* them, the one named by which; the others stay in their initial states.    *)
(* The elector, the job queue, the raft election, the semaphore and the      *)
(* read-write lock keep their own variables, and what is proved of them      *)
(* for all constants is checked here as well; the others use the slots.      *)
(*****************************************************************************)
EXTENDS LeaderElector, RaftElection, JobQueue, RWLocker, Semaphore, Integers, Sequences, FiniteSets, TLC

CONSTANTS b1, c1, e1, e2, j1, j2, k1, l1, m1, m2, n1, n2, p1, p2, p3, p4, r1, t1, t2, w1, x0

VARIABLES
    which,   \* the component this behaviour is about
    x1, x2, x3, x4, x5, x6, x7, x8, x9, x10, x11, x12, x13, x14, x15, x16, x17, x18, x19, x20, x21, x22, x23   \* its variables

slots == <<x1, x2, x3, x4, x5, x6, x7, x8, x9, x10, x11, x12, x13, x14, x15, x16, x17, x18, x19, x20, x21, x22, x23>>
all == <<which, vars, raftVars, jobVars, rwVars, semVars, slots>>

JQLivePriority == [j \in {j1,j2} |-> 0]

LmLive == INSTANCE LockManager WITH
    Token <- {t1,t2}, Key <- {k1}, TTL <- {1,2}, MaxReentrancy <- 2, NoEntry <- x0,
    locks <- x1, running <- x2, stopped <- x3, stopCh <- x4, starter <- x5,
    cleaner <- x6, stopper <- x7, lease <- x8, depth <- x9, crashed <- x10
ASSUME ConfigAssumption

ElStale == INSTANCE LeaderElector WITH
    Token <- {e1,e2}, MaxReentrancy <- 2, NoEntry <- x0, LeaseDuration <- 3,
    HeartbeatInterval <- 1, CheckInterval <- 2, Prompt <- FALSE, Events <- {},
    entry <- x1, backend <- x2, el <- x3
ASSUME RaftElectionAssumption

GrLive == INSTANCE Deadlines WITH
    Req <- {r1}, Caller <- {c1}, Callback <- {b1}, state <- x1, phase <- x2,
    accepting <- x3, activeRequests <- x4, order <- x5, listener <- x6, trigger <- x7,
    signal <- x8, shutdownClosed <- x9, req <- x10, caller <- x11, expired <- x12,
    errors <- x13, todo <- x14, ran <- x15, alive <- x16, report <- x17, Conn <- 0,
    Validity <- 0, RenewalBuffer <- 0, CheckInterval <- 0, RetirementTimeout <- 0,
    IssueTime <- 0, CertMaxTime <- 0, MaxCerts <- 0, MaxFails <- 0, Stages <- 0,
    Budgets <- 0, TotalTimeout <- 0, MinThreshold <- 0, ChainMaxTime <- 0, certNow <- 0,
    due <- 0, issued <- 0, notAfter <- 0, activeCert <- 0, pendingCert <- 0,
    renewer <- 0, fails <- 0, retirer <- 0, certDeadline <- 0, connections <- 0,
    conn <- 0, cert <- 0, toClose <- 0, late <- 0, certClosed <- 0, chainNow <- 0,
    began <- 0, budget <- 0, parent <- 0, step <- 0, i <- 0, carryOver <- 0, start <- 0,
    chainDeadline <- 0, status <- 0, reason <- 0, success <- 0, failedStage <- 0,
    idle <- 0

HcLive == INSTANCE HotConfig WITH
    Contents <- {"a","b","c","bad"}, Alike <- {"a","c"}, Unparsable <- {"bad"},
    FailOnError <- FALSE, DebounceTicks <- 0, Timers <- {"t"}, MaxWrites <- 3,
    MaxCalls <- 2, MaxCallbacks <- 0, file <- x1, snapshot <- x2, lastModTime <- x3,
    running <- x4, events <- x5, timer <- x6, act <- x7, callbacks <- x8,
    callbackIDs <- x9, nextCBID <- x10, calls <- x11, outrun <- x12
ASSUME JobQueueAssumption

MrLive == INSTANCE MapReduce WITH
    Input <- {m1,m2}, Partition <- {p1}, MaxRetries <- 0, Drain <- FALSE, MaxRuns <- 2,
    async <- x1, emits <- x2, status <- x3, run <- x4, returned <- x5, cancelled <- x6,
    map <- x7, mapTry <- x8, mapCh <- x9, received <- x10, failedMaps <- x11,
    reporting <- x12, reports <- x13, parts <- x14, reduce <- x15, redTry <- x16,
    counted <- x17, grouped <- x18, out <- x19, redErrs <- x20, errCh <- x21,
    done <- x22, runs <- x23

OrLive == INSTANCE Workflows WITH
    Task <- {t1,t2}, MaxAttempts <- 1, DagMaxRuns <- 2, ForwardRefs <- FALSE,
    tasks <- x1, deps <- x2, succ <- x3, dagStatus <- x4, running <- x5, cancelled <- x6,
    loop <- x7, taskSet <- x8, readyCount <- x9, taskCh <- x10, dagCompleted <- x11,
    left <- x12, worker <- x13, attempts <- x14, started <- x15, dagRuns <- x16,
    Leaf <- 0, Serial <- 0, Parallel <- 0, Loop <- 0, Conditional <- 0, Root <- 0,
    Kids <- 0, Iterations <- 0, MaxFailures <- 0, ContinueOnError <- 0, Retries <- 0,
    Reuse <- 0, FlowMaxRuns <- 0, Id <- 0, Exec <- 0, Step <- 0, NoComp <- 0,
    MaxObj <- 0, mode <- 0, node <- 0, flowCompleted <- 0, iters <- 0, internal <- 0,
    flowStatus <- 0, registered <- 0, okRuns <- 0, flowRuns <- 0, sagas <- 0, steps <- 0,
    objs <- 0, runningSagas <- 0, ex <- 0, pending <- 0

RWLive == INSTANCE RWLocker WITH
    Goroutine <- {p1,p2,p3}, Upgrader <- {p1}, Writer <- {p2}, MaxReads <- 1,
    MaxHelpers <- 0, readerCount <- x1, writerWaiting <- x2, writerActive <- x3,
    at <- x4, reads <- x5, registry <- x6, mine <- x7, asleep <- x8, helpers <- x9
ASSUME RWLive!RWLockerAssumption
ASSUME RWLockerAssumption
ASSUME SemaphoreAssumption

WhLive == INSTANCE Deliveries WITH
    Callback <- {c1}, Trigger <- {t1,t2}, Waiter <- {}, WorkerCount <- 1,
    HookMaxRetries <- 1, MaxStarts <- 1, hookRunning <- x1, starts <- x2, hookLoop <- x3,
    hookWoken <- x4, hookStatus <- x5, of <- x6, job <- x7, attempt <- x8, outcome <- x9,
    result <- x10, notify <- x11, waiter <- x12, waitsFor <- x13, Msg <- 0,
    LetterMaxRetries <- 0, AlertThreshold <- 0, MaxManual <- 0, letterRunning <- 0,
    stopping <- 0, messages <- 0, letterStatus <- 0, retryCount <- 0, letterLoop <- 0,
    letterWoken <- 0, alertFired <- 0, handlers <- 0, used <- 0, attempts <- 0,
    manual <- 0

-----------------------------------------------------------------------------
SuiteInit ==
    \/ /\ which = "LmLive" /\ LmLive!Init /\ Init /\ RaftInit /\ JobInit /\ RWInit /\ SemInit /\ totalPermits = 0 /\ x11 = 0 /\ x12 = 0 /\ x13 = 0 /\ x14 = 0 /\ x15 = 0 /\ x16 = 0 /\ x17 = 0 /\ x18 = 0 /\ x19 = 0 /\ x20 = 0 /\ x21 = 0 /\ x22 = 0 /\ x23 = 0
    \/ /\ which = "ElLive" /\ Init /\ RaftInit /\ JobInit /\ RWInit /\ SemInit /\ totalPermits = 0 /\ x1 = 0 /\ x2 = 0 /\ x3 = 0 /\ x4 = 0 /\ x5 = 0 /\ x6 = 0 /\ x7 = 0 /\ x8 = 0 /\ x9 = 0 /\ x10 = 0 /\ x11 = 0 /\ x12 = 0 /\ x13 = 0 /\ x14 = 0 /\ x15 = 0 /\ x16 = 0 /\ x17 = 0 /\ x18 = 0 /\ x19 = 0 /\ x20 = 0 /\ x21 = 0 /\ x22 = 0 /\ x23 = 0
    \/ /\ which = "ElStale" /\ ElStale!Init /\ Init /\ RaftInit /\ JobInit /\ RWInit /\ SemInit /\ totalPermits = 0 /\ x4 = 0 /\ x5 = 0 /\ x6 = 0 /\ x7 = 0 /\ x8 = 0 /\ x9 = 0 /\ x10 = 0 /\ x11 = 0 /\ x12 = 0 /\ x13 = 0 /\ x14 = 0 /\ x15 = 0 /\ x16 = 0 /\ x17 = 0 /\ x18 = 0 /\ x19 = 0 /\ x20 = 0 /\ x21 = 0 /\ x22 = 0 /\ x23 = 0
    \/ /\ which = "ReLive" /\ Init /\ RaftInit /\ JobInit /\ RWInit /\ SemInit /\ totalPermits = 0 /\ x1 = 0 /\ x2 = 0 /\ x3 = 0 /\ x4 = 0 /\ x5 = 0 /\ x6 = 0 /\ x7 = 0 /\ x8 = 0 /\ x9 = 0 /\ x10 = 0 /\ x11 = 0 /\ x12 = 0 /\ x13 = 0 /\ x14 = 0 /\ x15 = 0 /\ x16 = 0 /\ x17 = 0 /\ x18 = 0 /\ x19 = 0 /\ x20 = 0 /\ x21 = 0 /\ x22 = 0 /\ x23 = 0
    \/ /\ which = "GrLive" /\ GrLive!ShutdownInit /\ Init /\ RaftInit /\ JobInit /\ RWInit /\ SemInit /\ totalPermits = 0 /\ x18 = 0 /\ x19 = 0 /\ x20 = 0 /\ x21 = 0 /\ x22 = 0 /\ x23 = 0
    \/ /\ which = "HcLive" /\ HcLive!Init /\ Init /\ RaftInit /\ JobInit /\ RWInit /\ SemInit /\ totalPermits = 0 /\ x13 = 0 /\ x14 = 0 /\ x15 = 0 /\ x16 = 0 /\ x17 = 0 /\ x18 = 0 /\ x19 = 0 /\ x20 = 0 /\ x21 = 0 /\ x22 = 0 /\ x23 = 0
    \/ /\ which = "JQLive" /\ Init /\ RaftInit /\ JobInit /\ RWInit /\ SemInit /\ totalPermits = 0 /\ x1 = 0 /\ x2 = 0 /\ x3 = 0 /\ x4 = 0 /\ x5 = 0 /\ x6 = 0 /\ x7 = 0 /\ x8 = 0 /\ x9 = 0 /\ x10 = 0 /\ x11 = 0 /\ x12 = 0 /\ x13 = 0 /\ x14 = 0 /\ x15 = 0 /\ x16 = 0 /\ x17 = 0 /\ x18 = 0 /\ x19 = 0 /\ x20 = 0 /\ x21 = 0 /\ x22 = 0 /\ x23 = 0
    \/ /\ which = "MrLive" /\ MrLive!Init /\ Init /\ RaftInit /\ JobInit /\ RWInit /\ SemInit /\ totalPermits = 0
    \/ /\ which = "OrLive" /\ OrLive!DagInit /\ Init /\ RaftInit /\ JobInit /\ RWInit /\ SemInit /\ totalPermits = 0 /\ x17 = 0 /\ x18 = 0 /\ x19 = 0 /\ x20 = 0 /\ x21 = 0 /\ x22 = 0 /\ x23 = 0
    \/ /\ which = "RWLive" /\ RWLive!RWInit /\ Init /\ RaftInit /\ JobInit /\ RWInit /\ SemInit /\ totalPermits = 0 /\ x10 = 0 /\ x11 = 0 /\ x12 = 0 /\ x13 = 0 /\ x14 = 0 /\ x15 = 0 /\ x16 = 0 /\ x17 = 0 /\ x18 = 0 /\ x19 = 0 /\ x20 = 0 /\ x21 = 0 /\ x22 = 0 /\ x23 = 0
    \/ /\ which = "RWAll" /\ Init /\ RaftInit /\ JobInit /\ RWInit /\ SemInit /\ totalPermits = 0 /\ x1 = 0 /\ x2 = 0 /\ x3 = 0 /\ x4 = 0 /\ x5 = 0 /\ x6 = 0 /\ x7 = 0 /\ x8 = 0 /\ x9 = 0 /\ x10 = 0 /\ x11 = 0 /\ x12 = 0 /\ x13 = 0 /\ x14 = 0 /\ x15 = 0 /\ x16 = 0 /\ x17 = 0 /\ x18 = 0 /\ x19 = 0 /\ x20 = 0 /\ x21 = 0 /\ x22 = 0 /\ x23 = 0
    \/ /\ which = "SemLive" /\ Init /\ RaftInit /\ JobInit /\ RWInit /\ SemInit /\ x1 = 0 /\ x2 = 0 /\ x3 = 0 /\ x4 = 0 /\ x5 = 0 /\ x6 = 0 /\ x7 = 0 /\ x8 = 0 /\ x9 = 0 /\ x10 = 0 /\ x11 = 0 /\ x12 = 0 /\ x13 = 0 /\ x14 = 0 /\ x15 = 0 /\ x16 = 0 /\ x17 = 0 /\ x18 = 0 /\ x19 = 0 /\ x20 = 0 /\ x21 = 0 /\ x22 = 0 /\ x23 = 0
    \/ /\ which = "WhLive" /\ WhLive!HookInit /\ Init /\ RaftInit /\ JobInit /\ RWInit /\ SemInit /\ totalPermits = 0 /\ x14 = 0 /\ x15 = 0 /\ x16 = 0 /\ x17 = 0 /\ x18 = 0 /\ x19 = 0 /\ x20 = 0 /\ x21 = 0 /\ x22 = 0 /\ x23 = 0

(* A step of this component, and of no other. *)
LmLiveOnly == which = "LmLive" /\ UNCHANGED <<which, vars, raftVars, jobVars, rwVars, semVars, x11, x12, x13, x14, x15, x16, x17, x18, x19, x20, x21, x22, x23>>
ElLiveOnly == which = "ElLive" /\ UNCHANGED <<which, raftVars, jobVars, rwVars, semVars, x1, x2, x3, x4, x5, x6, x7, x8, x9, x10, x11, x12, x13, x14, x15, x16, x17, x18, x19, x20, x21, x22, x23>>
ElStaleOnly == which = "ElStale" /\ UNCHANGED <<which, vars, raftVars, jobVars, rwVars, semVars, x4, x5, x6, x7, x8, x9, x10, x11, x12, x13, x14, x15, x16, x17, x18, x19, x20, x21, x22, x23>>
ReLiveOnly == which = "ReLive" /\ UNCHANGED <<which, vars, jobVars, rwVars, semVars, x1, x2, x3, x4, x5, x6, x7, x8, x9, x10, x11, x12, x13, x14, x15, x16, x17, x18, x19, x20, x21, x22, x23>>
GrLiveOnly == which = "GrLive" /\ UNCHANGED <<which, vars, raftVars, jobVars, rwVars, semVars, x18, x19, x20, x21, x22, x23>>
HcLiveOnly == which = "HcLive" /\ UNCHANGED <<which, vars, raftVars, jobVars, rwVars, semVars, x13, x14, x15, x16, x17, x18, x19, x20, x21, x22, x23>>
JQLiveOnly == which = "JQLive" /\ UNCHANGED <<which, vars, raftVars, rwVars, semVars, x1, x2, x3, x4, x5, x6, x7, x8, x9, x10, x11, x12, x13, x14, x15, x16, x17, x18, x19, x20, x21, x22, x23>>
MrLiveOnly == which = "MrLive" /\ UNCHANGED <<which, vars, raftVars, jobVars, rwVars, semVars>>
OrLiveOnly == which = "OrLive" /\ UNCHANGED <<which, vars, raftVars, jobVars, rwVars, semVars, x17, x18, x19, x20, x21, x22, x23>>
RWLiveOnly == which = "RWLive" /\ UNCHANGED <<which, vars, raftVars, jobVars, rwVars, semVars, x10, x11, x12, x13, x14, x15, x16, x17, x18, x19, x20, x21, x22, x23>>
RWAllOnly == which = "RWAll" /\ UNCHANGED <<which, vars, raftVars, jobVars, semVars, x1, x2, x3, x4, x5, x6, x7, x8, x9, x10, x11, x12, x13, x14, x15, x16, x17, x18, x19, x20, x21, x22, x23>>
SemLiveOnly == which = "SemLive" /\ UNCHANGED <<which, vars, raftVars, jobVars, rwVars, x1, x2, x3, x4, x5, x6, x7, x8, x9, x10, x11, x12, x13, x14, x15, x16, x17, x18, x19, x20, x21, x22, x23>>
WhLiveOnly == which = "WhLive" /\ UNCHANGED <<which, vars, raftVars, jobVars, rwVars, semVars, x14, x15, x16, x17, x18, x19, x20, x21, x22, x23>>

SuiteNext ==
    \/ LmLiveOnly /\ LmLive!Next
    \/ ElLiveOnly /\ Next
    \/ ElStaleOnly /\ ElStale!Next
    \/ ReLiveOnly /\ RaftNext
    \/ GrLiveOnly /\ GrLive!ShutdownNext
    \/ HcLiveOnly /\ HcLive!Next
    \/ JQLiveOnly /\ NextUnstopped
    \/ MrLiveOnly /\ MrLive!Next
    \/ OrLiveOnly /\ OrLive!DagNext
    \/ RWLiveOnly /\ RWLive!RWNext
    \/ RWAllOnly /\ RWNext
    \/ SemLiveOnly /\ SemNext
    \/ WhLiveOnly /\ WhLive!HookNext

(* The fairness of each component.  Since which never changes, one condition *)
(* on a disjunction stands for a condition of each component it names.       *)
SuiteFairness ==
    /\ SF_all(
          \/ ElLiveOnly /\ SelectHeartbeat(e1)
          \/ ElStaleOnly /\ ElStale!SelectHeartbeat(e1)
          \/ JQLiveOnly /\ Spawn(l1)
          \/ RWLiveOnly /\ RWLive!RLocked(p1)
          \/ WhLiveOnly /\ WhLive!Acquire(t1))
    /\ SF_all(
          \/ ElLiveOnly /\ SelectCheck(e1)
          \/ ElStaleOnly /\ ElStale!SelectCheck(e1)
          \/ JQLiveOnly /\ DispatchesAll(l1)
          \/ RWLiveOnly /\ RWLive!RLocked(p2)
          \/ WhLiveOnly /\ WhLive!Acquire(t2))
    /\ SF_all(
          \/ ElLiveOnly /\ SelectHeartbeat(e2)
          \/ ElStaleOnly /\ ElStale!SelectHeartbeat(e2)
          \/ RWLiveOnly /\ RWLive!RLocked(p3))
    /\ SF_all(
          \/ ElLiveOnly /\ SelectCheck(e2)
          \/ ElStaleOnly /\ ElStale!SelectCheck(e2))
    /\ WF_all(
          \/ LmLiveOnly /\ LmLive!Tick
          \/ ElLiveOnly /\ Tick
          \/ ElStaleOnly /\ ElStale!Tick
          \/ GrLiveOnly /\ GrLive!Phases
          \/ HcLiveOnly /\ HcLive!PollTick
          \/ JQLiveOnly /\ LoopStep(l1)
          \/ MrLiveOnly /\ MrLive!ShuffleStep
          \/ OrLiveOnly /\ OrLive!Scheduler
          \/ RWLiveOnly /\ RWLive!Progress(p1)
          \/ WhLiveOnly /\ WhLive!LoopStep)
    /\ WF_all(
          \/ LmLiveOnly /\ LmLive!StartSpawn
          \/ ElLiveOnly /\ RunLoop(e1)
          \/ ElStaleOnly /\ ElStale!RunLoop(e1)
          \/ GrLiveOnly /\ GrLive!OnceFirst
          \/ HcLiveOnly /\ HcLive!Debounce
          \/ JQLiveOnly /\ WorkerStep(j1)
          \/ MrLiveOnly /\ MrLive!MapStep(m1)
          \/ OrLiveOnly /\ OrLive!Worker(t1)
          \/ RWLiveOnly /\ RWLive!Progress(p2)
          \/ WhLiveOnly /\ WhLive!WorkerStep(t1))
    /\ WF_all(
          \/ LmLiveOnly /\ LmLive!CleanTick
          \/ ElLiveOnly /\ StartSpawn(e1)
          \/ ElStaleOnly /\ ElStale!StartSpawn(e1)
          \/ GrLiveOnly /\ GrLive!ListenerWakes
          \/ HcLiveOnly /\ HcLive!LoadStep(HcLive!Caller)
          \/ JQLiveOnly /\ WorkerStep(j2)
          \/ MrLiveOnly /\ MrLive!MapStep(m2)
          \/ OrLiveOnly /\ OrLive!Worker(t2)
          \/ RWLiveOnly /\ RWLive!Progress(p3)
          \/ WhLiveOnly /\ WhLive!BecomesDue(t1))
    /\ WF_all(
          \/ LmLiveOnly /\ LmLive!CleanExit
          \/ ElLiveOnly /\ RunLoop(e2)
          \/ ElStaleOnly /\ ElStale!RunLoop(e2)
          \/ GrLiveOnly /\ GrLive!OnceReturns
          \/ HcLiveOnly /\ HcLive!TimerFires("t")
          \/ JQLiveOnly /\ WaiterStep(w1)
          \/ MrLiveOnly /\ MrLive!ReduceStep(p1)
          \/ WhLiveOnly /\ WhLive!WorkerStep(t2))
    /\ WF_all(
          \/ LmLiveOnly /\ LmLive!StopReturn
          \/ ElLiveOnly /\ StartSpawn(e2)
          \/ ElStaleOnly /\ ElStale!StartSpawn(e2)
          \/ GrLiveOnly /\ GrLive!PushTrigger(c1)
          \/ HcLiveOnly /\ HcLive!LoadStep("t")
          \/ WhLiveOnly /\ WhLive!BecomesDue(t2))

SuiteSpec == SuiteInit /\ [][SuiteNext]_all /\ SuiteFairness

-----------------------------------------------------------------------------

(* A crashed caller does not hold a lock for ever: its lease ends by itself. *)
(* Stop returns, and however it raced with Start the cleaner ends for good. *)
(* While some elector keeps running on a working backend, there is a leader  *)
(* again and again, whoever crashes, stops or resigns.                       *)
(* An elector whose lease was lost while it was delayed does not stay leader *)
(* for good: it steps down or wins the lock again.                           *)
(* A blocking upgrade does not sleep for good: the last reader wakes it.     *)
(* It holds with one upgrader at a time.                                     *)
LocksRecover ==
    /\ \A k \in {k1} : []<>(which = "LmLive" => LmLive!FreeOfCrashed(k))
    /\ <>[](which = "LmLive" => LmLive!Quiet)
    /\ []<>(which = "ElLive" => SomeLeader) \/ <>[](which = "ElLive" => NobodyRuns) \/ []<>(which = "ElLive" => SomeResign)
    /\ \A e \in {e1,e2} : []<>(which = "ElStale" => ElStale!LeadsByLease(e))
    /\ \A p \in {p1,p2,p3} : []<>(which = "RWLive" => RWLive!Awake(p))

=============================================================================
