------------------------------- MODULE Pools --------------------------------
(*****************************************************************************)
(* What callers share in one process: the connections of connpool, the       *)
(* workers of bulkhead and the responses of idempotent. The parts share no   *)
(* state; each has its own specification.                                    *)
(*****************************************************************************)
EXTENDS Integers, Sequences, FiniteSets, SequencesExt, Naturals

(***************************************************************************)
(* connpool: a bounded pool of connections.  The mutex is released to      *)
(* create, ping and close connections, so each such call is a step of its  *)
(* own; what happens between two of them is one action.                    *)
(***************************************************************************)

CONSTANTS
    ConnCaller, InitialCap, MaxCap, MaxIdle,
    ConnWait,               \* WaitTimeout > 0
    Ping,               \* whether connections are pinged, by Get and by heartbeats
    Expiry,             \* whether connections may grow too old or be idle too long
    Failures,           \* whether Factory and Ping may fail
    MaxConns            \* bound: connections made

VARIABLES
    idle,       \* idleList
    active,     \* connections borrowed
    count, connClosed,
    conns,      \* the connections made: how often each was closed
    connCall,       \* per caller: its step, the connection in hand, its deadline
    waiters,    \* callers in cond.Wait, in order
    stale,      \* the time-out goroutine of a Get that is over has yet to broadcast
    hb,         \* checkHeartbeats: what it has to ping, what was good and bad
    closing     \* what Close has yet to close

connVars == <<idle, active, count, connClosed, conns, connCall, waiters, stale, hb, closing>>

ConnAt(step, conn) == [step |-> step, conn |-> conn, deadline |-> "none"]     \* none, ahead, passed, or over: passed and broadcast
NoBeat == [on |-> FALSE, todo |-> <<>>, good |-> <<>>, bad |-> {}]
NewPool ==
    /\ conns = [i \in 1 .. InitialCap |-> 0] /\ idle = [i \in 1 .. InitialCap |-> i] /\ count = InitialCap
    /\ active = {} /\ connClosed = FALSE
ConnInit ==
    /\ NewPool /\ connCall = [c \in ConnCaller |-> ConnAt("idle", 0)] /\ waiters = <<>> /\ stale = FALSE
    /\ hb = NoBeat /\ closing = {}

ConnGoto(c, step, conn) == connCall' = [connCall EXCEPT ![c].step = step, ![c].conn = conn] /\ UNCHANGED stale
(* Get returns; its goroutine stays until the deadline *)
ConnReturn(c, step, conn) ==
    connCall' = [connCall EXCEPT ![c] = ConnAt(step, conn)] /\ stale' = (stale \/ connCall[c].deadline \in {"ahead", "passed"})
CloseConns(S) == conns' = [i \in DOMAIN conns |-> IF i \in S THEN conns[i] + 1 ELSE conns[i]]
Woken(S) == [c \in ConnCaller |-> IF c \in S THEN [connCall[c] EXCEPT !.step = "woken"] ELSE connCall[c]]
(* cond.Signal at the end of Put, and cond.Broadcast *)
ConnSignal(c) ==
    /\ connCall' = [Woken(IF waiters = <<>> THEN {} ELSE {waiters[1]}) EXCEPT ![c] = ConnAt("idle", 0)]
    /\ waiters' = IF waiters = <<>> THEN <<>> ELSE Tail(waiters)
    /\ UNCHANGED stale
ConnBroadcast == connCall' = Woken(ToSet(waiters)) /\ waiters' = <<>>

Late(c) == connCall[c].deadline \in {"passed", "over"}
Waits(c) == ConnGoto(c, "waiting", 0) /\ waiters' = Append(waiters, c)
(* getIdle, and what Get does when there is no idle connection *)
Take(c) ==
    \/ /\ idle # <<>> /\ idle' = Tail(idle) /\ UNCHANGED waiters
       /\ \/ Expiry /\ count' = count - 1 /\ ConnGoto(c, "drop", idle[1]) /\ UNCHANGED active
          \/ Ping /\ ConnGoto(c, "ping", idle[1]) /\ UNCHANGED <<active, count>>
          \/ ~ Ping /\ active' = active \cup {idle[1]} /\ ConnReturn(c, "has", idle[1]) /\ UNCHANGED count
    \/ /\ idle = <<>> /\ count < MaxCap /\ Len(conns) + Cardinality({d \in ConnCaller : connCall[d].step = "make"}) < MaxConns
       /\ count' = count + 1 /\ ConnGoto(c, "make", 0) /\ UNCHANGED <<idle, active, waiters>>
    \/ /\ idle = <<>> /\ count >= MaxCap
       /\ IF ~ ConnWait \/ connClosed \/ Late(c) THEN ConnReturn(c, "idle", 0) /\ UNCHANGED waiters
          ELSE /\ connCall' = [connCall EXCEPT ![c] = [step |-> "waiting", conn |-> 0, deadline |-> "ahead"]]
               /\ waiters' = Append(waiters, c) /\ UNCHANGED stale
       /\ UNCHANGED <<idle, active, count>>

ConnGet(c) ==
    /\ connCall[c].step \in {"idle", "again"}
    /\ IF connClosed THEN ConnReturn(c, "idle", 0) /\ UNCHANGED <<idle, active, count, waiters>> ELSE Take(c)
    /\ UNCHANGED <<connClosed, conns, hb, closing>>
PingDone(c) ==
    /\ connCall[c].step = "ping"
    /\ \/ active' = active \cup {connCall[c].conn} /\ ConnReturn(c, "has", connCall[c].conn) /\ UNCHANGED count
       \/ Failures /\ count' = count - 1 /\ ConnGoto(c, "drop", connCall[c].conn) /\ UNCHANGED active
    /\ UNCHANGED <<idle, connClosed, conns, waiters, hb, closing>>
(* the connection is closed, and getIdle goes on without a look at closed *)
Drop(c) ==
    /\ connCall[c].step = "drop" /\ CloseConns({connCall[c].conn}) /\ ConnGoto(c, "dropped", 0)
    /\ UNCHANGED <<idle, active, count, connClosed, waiters, hb, closing>>
GoOn(c) == connCall[c].step = "dropped" /\ Take(c) /\ UNCHANGED <<connClosed, conns, hb, closing>>
MadeTooLate == connClosed
Make(c) ==
    /\ connCall[c].step = "make"
    /\ \/ /\ conns' = Append(conns, IF MadeTooLate THEN 1 ELSE 0) /\ UNCHANGED count
          /\ IF MadeTooLate THEN ConnReturn(c, "idle", 0) /\ UNCHANGED active
             ELSE active' = active \cup {Len(conns) + 1} /\ ConnReturn(c, "has", Len(conns) + 1)
       \/ Failures /\ count' = count - 1 /\ ConnReturn(c, "idle", 0) /\ UNCHANGED <<active, conns>>
    /\ UNCHANGED <<idle, connClosed, waiters, hb, closing>>

(* the deadline of a Get passes, and later its goroutine broadcasts *)
Deadline(c) ==
    /\ connCall[c].deadline = "ahead" /\ connCall' = [connCall EXCEPT ![c].deadline = "passed"]
    /\ UNCHANGED <<idle, active, count, connClosed, conns, waiters, stale, hb, closing>>
TimerFires(c) ==
    /\ connCall[c].deadline = "passed" /\ ~ connClosed
    /\ connCall' = [Woken(ToSet(waiters)) EXCEPT ![c].deadline = "over"] /\ waiters' = <<>>
    /\ UNCHANGED <<idle, active, count, connClosed, conns, stale, hb, closing>>
StaleTimerFires ==
    /\ stale /\ stale' \in BOOLEAN /\ IF connClosed THEN UNCHANGED <<connCall, waiters>> ELSE ConnBroadcast
    /\ UNCHANGED <<idle, active, count, connClosed, conns, hb, closing>>
Wake(c) ==
    /\ connCall[c].step = "woken"
    /\ IF connClosed \/ Late(c) THEN ConnReturn(c, "idle", 0) /\ UNCHANGED waiters
       ELSE IF idle # <<>> \/ count < MaxCap THEN ConnGoto(c, "again", 0) /\ UNCHANGED waiters
       ELSE Waits(c)
    /\ UNCHANGED <<idle, active, count, connClosed, conns, hb, closing>>

PutLoop(c, list) ==     \* evicts from the back while there are too many, then signals
    IF Len(list) > MaxIdle
    THEN idle' = SubSeq(list, 1, Len(list) - 1) /\ count' = count - 1 /\ ConnGoto(c, "evict", list[Len(list)]) /\ UNCHANGED waiters
    ELSE idle' = list /\ ConnSignal(c) /\ UNCHANGED count
Put(c) ==
    /\ connCall[c].step = "has"
    /\ IF connClosed \/ connCall[c].conn \notin active
       THEN ConnGoto(c, "idle", 0) /\ UNCHANGED <<idle, active, count, conns, waiters>>
       ELSE /\ active' = active \ {connCall[c].conn}
            /\ \/ Expiry /\ count' = count - 1 /\ ConnSignal(c) /\ CloseConns({connCall[c].conn}) /\ UNCHANGED idle
               \/ PutLoop(c, <<connCall[c].conn>> \o idle) /\ UNCHANGED conns
    /\ UNCHANGED <<connClosed, hb, closing>>
PutGoesOn(c) ==
    /\ connCall[c].step = "evict" /\ CloseConns({connCall[c].conn}) /\ PutLoop(c, idle)
    /\ UNCHANGED <<active, connClosed, hb, closing>>

ConnClose ==
    /\ ~ connClosed /\ connClosed' = TRUE /\ ConnBroadcast /\ closing' = ToSet(idle) \cup active
    /\ idle' = <<>> /\ active' = {} /\ count' = 0 /\ UNCHANGED <<conns, stale, hb>>
CloseAll ==
    /\ closing # {} /\ CloseConns(closing) /\ closing' = {}
    /\ UNCHANGED <<idle, active, count, connClosed, connCall, waiters, stale, hb>>

checkHeartbeats ==
    /\ Ping /\ ~ hb.on /\ ~ connClosed /\ idle # <<>>
    /\ hb' = [NoBeat EXCEPT !.on = TRUE, !.todo = idle] /\ idle' = <<>>
    /\ UNCHANGED <<active, count, connClosed, conns, connCall, waiters, stale, closing>>
BeatPing ==
    /\ hb.on /\ hb.todo # <<>>
    /\ \/ hb' = [hb EXCEPT !.todo = Tail(@), !.good = Append(@, hb.todo[1])] /\ UNCHANGED count
       \/ Failures /\ hb' = [hb EXCEPT !.todo = Tail(@), !.bad = @ \cup {hb.todo[1]}] /\ count' = count - 1
    /\ UNCHANGED <<idle, active, connClosed, conns, connCall, waiters, stale, closing>>
GivenBack == idle' = idle \o SelectSeq(hb.good, LAMBDA x : x \notin active)
BeatDone ==
    /\ hb.on /\ hb.todo = <<>> /\ hb' = NoBeat
    /\ IF connClosed THEN UNCHANGED <<idle, connCall, waiters>> ELSE GivenBack /\ ConnBroadcast
    /\ CloseConns(hb.bad \cup IF connClosed THEN ToSet(hb.good) ELSE {})
    /\ UNCHANGED <<active, count, connClosed, stale, closing>>
reclaimIdleTimeout ==
    /\ Expiry /\ ~ connClosed
    /\ \E S \in SUBSET ToSet(idle) \ {{}} :
         idle' = SelectSeq(idle, LAMBDA x : x \notin S) /\ count' = count - Cardinality(S) /\ CloseConns(S)
    /\ ConnBroadcast /\ UNCHANGED <<active, connClosed, stale, hb, closing>>

ConnNext ==
    \/ \E c \in ConnCaller : \/ ConnGet(c) \/ PingDone(c) \/ Drop(c) \/ GoOn(c) \/ Make(c) \/ Deadline(c) \/ TimerFires(c) \/ Wake(c)
                         \/ Put(c) \/ PutGoesOn(c)
    \/ StaleTimerFires \/ ConnClose \/ CloseAll \/ checkHeartbeats \/ BeatPing \/ BeatDone \/ reclaimIdleTimeout

ConnTypeOK ==
    /\ idle \in Seq(DOMAIN conns) /\ active \subseteq DOMAIN conns /\ waiters \in Seq(ConnCaller) /\ stale \in BOOLEAN
    /\ connClosed \in BOOLEAN /\ count \in Int

-----------------------------------------------------------------------------
In(steps) == {c \in ConnCaller : connCall[c].step \in steps}

(* While the pool is open, count is exactly the connections idle, borrowed, *)
(* under way and under check, and never above MaxCap; no connection is in   *)
(* two of these places and none is closed twice.                            *)
ConnsCounted ==
    /\ ~ connClosed => /\ count = Len(idle) + Cardinality(active) + Cardinality(In({"ping", "make"})) + Len(hb.todo) + Len(hb.good)
                   /\ count <= MaxCap
                   /\ LET out == {connCall[c].conn : c \in In({"has"})}
                          held == {connCall[c].conn : c \in In({"ping"})}
                          away == ToSet(idle) \cup held \cup ToSet(hb.todo \o hb.good)
                      IN /\ active = out /\ Cardinality(out) = Cardinality(In({"has"})) /\ active \cap away = {}
                         /\ Cardinality(away) = Len(idle) + Cardinality(In({"ping"})) + Len(hb.todo) + Len(hb.good)
    /\ \A i \in DOMAIN conns : conns[i] <= 1

(* Nobody waits for what is there: when all that run have come to rest, no  *)
(* Get waits while a connection is idle or may be made, even if a Get that  *)
(* was signalled has timed out instead (without failing calls).             *)
NoGetStranded ==
    /\ ~ Failures /\ ~ stale /\ ~ hb.on
    /\ \A c \in ConnCaller : connCall[c].step \in {"idle", "has", "waiting"} /\ connCall[c].deadline # "passed"
    => waiters = <<>> \/ (idle = <<>> /\ count >= MaxCap)

(* Without pings, once Close and the calls under way are over every         *)
(* connection ever made has been closed.                                    *)
AllClosed ==
    ~ Ping /\ connClosed /\ closing = {} /\ In({"idle", "has"}) = ConnCaller => \A i \in DOMAIN conns : conns[i] = 1

-----------------------------------------------------------------------------
(***************************************************************************)
(* bulkhead: workers, waiting submitters and waiting Acquires share one    *)
(* condition variable.  Signal wakes whoever has waited longest.           *)
(***************************************************************************)

CONSTANTS
    Worker,             \* goroutines there may ever be
    BulkheadCaller,
    Sizes, QueueSizes,  \* the limits Resize may set
    BulkheadWait,               \* whether Submit waits (waitTimeout > 0)
    MaxTasks, MaxResizes        \* bounds

VARIABLES
    worker,     \* per goroutine: none, new, sleep, woken, run or gone
    waiting,    \* goroutines and callers in cond.Wait, in order
    bulkheadCall,       \* per caller: idle, or what it waits for, whether woken, whether late
    queue,      \* taskQueue
    task,       \* the task each worker runs
    ran,        \* tasks that have run
    accepted,   \* tasks Submit and TrySubmit took
    semHolders, idleWorkers, workerCnt, shrinkCnt, maxConcurrency, maxQueueSize,
    resizes, bulkheadClosed, returned   \* whether Close has returned

tasks == <<queue, task, ran, accepted>>
limits == <<maxConcurrency, maxQueueSize, resizes>>
counts == <<idleWorkers, workerCnt, shrinkCnt>>
bulkheadVars == <<worker, waiting, bulkheadCall, tasks, semHolders, counts, limits, bulkheadClosed, returned>>

Live == {w \in Worker : worker[w] \notin {"none", "gone"}}
Running == {w \in Worker : worker[w] = "run"}
workerActive == Cardinality(Running)
activeCount == workerActive + semHolders
NoCall == [for |-> "idle", woken |-> FALSE, late |-> FALSE]

(* NewBulkhead returns once every worker has been idle; the last to become so woke the others *)
NewBulkhead ==
    \E S \in SUBSET Worker, n \in Sizes, q \in QueueSizes : \E last \in S :
        /\ Cardinality(S) = n /\ maxConcurrency = n /\ maxQueueSize = q /\ workerCnt = n /\ idleWorkers = n
        /\ worker = [w \in Worker |-> IF w = last THEN "sleep" ELSE IF w \in S THEN "woken" ELSE "none"]
        /\ waiting = <<last>>
BulkheadInit ==
    /\ NewBulkhead /\ bulkheadCall = [c \in BulkheadCaller |-> NoCall] /\ queue = <<>> /\ task = [w \in Worker |-> 0]
    /\ ran = {} /\ accepted = 0 /\ semHolders = 0 /\ shrinkCnt = 0 /\ resizes = 0
    /\ bulkheadClosed = FALSE /\ returned = FALSE

(* cond.Signal and cond.Broadcast, given what the step itself does to worker and call *)
WakeUp(S, ws, cs, rest) ==
    /\ worker' = [w \in Worker |-> IF w \in S THEN "woken" ELSE ws[w]]
    /\ bulkheadCall' = [c \in BulkheadCaller |-> IF c \in S THEN [cs[c] EXCEPT !.woken = TRUE] ELSE cs[c]]
    /\ waiting' = rest
BulkheadSignal(cs) ==
    IF waiting = <<>> THEN WakeUp({}, worker, cs, <<>>) ELSE WakeUp({waiting[1]}, worker, cs, Tail(waiting))
BulkheadBroadcast(ws, cs) == WakeUp(ToSet(waiting), ws, cs, <<>>)

Exits(blocked) == blocked /\ (bulkheadClosed \/ shrinkCnt > 0)
(* from the moment a worker holds the mutex until it lets go of it: the end *)
(* of its task or of its wait, then the loop up to a task, a wait or its end *)
Turn(w) ==
    LET after == IF worker[w] = "run" THEN workerActive - 1 ELSE workerActive
        awake == IF worker[w] = "woken" THEN idleWorkers - 1 ELSE idleWorkers
        blocked == queue = <<>> \/ after >= workerCnt
        told == worker[w] = "run"       \* its task is over: Broadcast
    IN
    /\ worker[w] \in {"new", "woken", "run"}
    /\ ran' = IF worker[w] = "run" THEN ran \cup {task[w]} ELSE ran
    /\ CASE Exits(blocked) ->
              /\ workerCnt' = workerCnt - 1 /\ idleWorkers' = awake
              /\ shrinkCnt' = IF bulkheadClosed THEN shrinkCnt ELSE shrinkCnt - 1
              /\ task' = [task EXCEPT ![w] = 0] /\ UNCHANGED queue
              /\ IF told THEN BulkheadBroadcast([worker EXCEPT ![w] = "gone"], bulkheadCall)
                 ELSE WakeUp({}, [worker EXCEPT ![w] = "gone"], bulkheadCall, waiting)
         [] blocked /\ ~ Exits(blocked) ->
              /\ idleWorkers' = awake + 1 /\ task' = [task EXCEPT ![w] = 0] /\ UNCHANGED <<queue, workerCnt, shrinkCnt>>
              /\ WakeUp(ToSet(waiting), [worker EXCEPT ![w] = "sleep"], bulkheadCall, <<w>>)
         [] OTHER ->
              /\ queue' = Tail(queue) /\ task' = [task EXCEPT ![w] = queue[1]]
              /\ idleWorkers' = awake /\ UNCHANGED <<workerCnt, shrinkCnt>>
              /\ BulkheadBroadcast([worker EXCEPT ![w] = "run"], bulkheadCall)
    /\ UNCHANGED <<accepted, semHolders, limits, bulkheadClosed, returned>>

canSubmit ==
    IF maxQueueSize = 0 THEN idleWorkers > 0 /\ workerActive < workerCnt ELSE Len(queue) < maxQueueSize
Accept(c) ==
    /\ accepted' = accepted + 1 /\ queue' = Append(queue, accepted + 1)
    /\ BulkheadSignal([bulkheadCall EXCEPT ![c] = NoCall]) /\ UNCHANGED <<task, ran>>
Sleep(c, what) ==
    /\ bulkheadCall' = [bulkheadCall EXCEPT ![c].for = what, ![c].woken = FALSE] /\ waiting' = Append(waiting, c)
    /\ UNCHANGED worker
(* Submit, and TrySubmit, which never waits *)
Submit(c) ==
    /\ bulkheadCall[c].for = "idle" /\ ~ bulkheadClosed /\ accepted + Cardinality({d \in BulkheadCaller : bulkheadCall[d].for = "submit"}) < MaxTasks
    /\ IF canSubmit THEN Accept(c) ELSE BulkheadWait /\ Sleep(c, "submit") /\ UNCHANGED tasks
    /\ UNCHANGED <<semHolders, counts, limits, bulkheadClosed, returned>>
GiveUp(c) == bulkheadCall' = [bulkheadCall EXCEPT ![c] = NoCall] /\ UNCHANGED <<worker, waiting>>
SubmitAgain(c) ==
    /\ bulkheadCall[c].for = "submit" /\ bulkheadCall[c].woken
    /\ IF canSubmit THEN Accept(c)
       ELSE UNCHANGED tasks /\ IF bulkheadClosed \/ bulkheadCall[c].late THEN GiveUp(c) ELSE Sleep(c, "submit")
    /\ UNCHANGED <<semHolders, counts, limits, bulkheadClosed, returned>>

Hold(c) == semHolders' = semHolders + 1 /\ BulkheadBroadcast(worker, [bulkheadCall EXCEPT ![c] = NoCall])
Acquire(c) ==
    /\ bulkheadCall[c].for = "idle" /\ ~ bulkheadClosed
    /\ IF activeCount < maxConcurrency THEN Hold(c) ELSE Sleep(c, "acquire") /\ UNCHANGED semHolders
    /\ UNCHANGED <<tasks, counts, limits, bulkheadClosed, returned>>
AcquireAgain(c) ==
    /\ bulkheadCall[c].for = "acquire" /\ bulkheadCall[c].woken
    /\ IF activeCount < maxConcurrency THEN Hold(c)
       ELSE UNCHANGED semHolders /\ IF bulkheadClosed \/ bulkheadCall[c].late THEN GiveUp(c) ELSE Sleep(c, "acquire")
    /\ UNCHANGED <<tasks, counts, limits, bulkheadClosed, returned>>
Timer(c) ==     \* the deadline of a waiting call: time.AfterFunc broadcasts
    /\ bulkheadCall[c].for # "idle" /\ ~ bulkheadCall[c].late /\ BulkheadBroadcast(worker, [bulkheadCall EXCEPT ![c].late = TRUE])
    /\ UNCHANGED <<tasks, semHolders, counts, limits, bulkheadClosed, returned>>
Released == BulkheadBroadcast(worker, bulkheadCall)
Release ==
    /\ semHolders > 0 /\ semHolders' = semHolders - 1 /\ Released
    /\ UNCHANGED <<tasks, counts, limits, bulkheadClosed, returned>>

Shrink(n) == shrinkCnt + (maxConcurrency - n)
resizeConcurrency(n, q) ==
    IF n > maxConcurrency
    THEN \E S \in SUBSET {w \in Worker : worker[w] = "none"} :
            /\ Cardinality(S) = n - maxConcurrency /\ workerCnt' = workerCnt + Cardinality(S) /\ UNCHANGED shrinkCnt
            /\ BulkheadBroadcast([w \in Worker |-> IF w \in S THEN "new" ELSE worker[w]], bulkheadCall)
    ELSE /\ shrinkCnt' = Shrink(n) /\ UNCHANGED workerCnt
         /\ IF n < maxConcurrency \/ (q # maxQueueSize /\ q > 0) THEN BulkheadBroadcast(worker, bulkheadCall)
            ELSE UNCHANGED <<worker, bulkheadCall, waiting>>
Resize(n, q) ==
    /\ ~ bulkheadClosed /\ resizes < MaxResizes /\ resizes' = resizes + 1
    /\ resizeConcurrency(n, q) /\ maxConcurrency' = n /\ maxQueueSize' = q
    /\ UNCHANGED <<tasks, semHolders, idleWorkers, bulkheadClosed, returned>>
BulkheadClose ==
    /\ ~ bulkheadClosed /\ bulkheadClosed' = TRUE /\ BulkheadBroadcast(worker, bulkheadCall)
    /\ UNCHANGED <<tasks, semHolders, counts, limits, returned>>
CloseReturns ==
    /\ bulkheadClosed /\ ~ returned /\ Live = {} /\ returned' = TRUE
    /\ UNCHANGED <<worker, waiting, bulkheadCall, tasks, semHolders, counts, limits, bulkheadClosed>>

BulkheadNext ==
    \/ \E w \in Worker : Turn(w)
    \/ \E c \in BulkheadCaller : Submit(c) \/ SubmitAgain(c) \/ Acquire(c) \/ AcquireAgain(c) \/ Timer(c)
    \/ \E n \in Sizes, q \in QueueSizes : Resize(n, q)
    \/ Release \/ BulkheadClose \/ CloseReturns

BulkheadTypeOK == waiting \in Seq(Worker \cup BulkheadCaller) /\ queue \in Seq(1 .. MaxTasks) /\ ran \subseteq 1 .. MaxTasks

-----------------------------------------------------------------------------
(* The counters fit the goroutines however often the limits change: once    *)
(* the excess workers are gone there are as many as the limit says.         *)
WorkersFit ==
    /\ workerCnt = Cardinality(Live) /\ workerActive <= workerCnt
    /\ idleWorkers = Cardinality({w \in Worker : worker[w] \in {"sleep", "woken"}})
    /\ ~ bulkheadClosed => workerCnt - shrinkCnt = maxConcurrency

(* Every task taken is queued, running or has run, and in one of the three  *)
(* only; where Submit does not wait, all have run when Close returns.       *)
TasksRun ==
    /\ \A t \in 1 .. accepted : 1 = (IF t \in ran THEN 1 ELSE 0) + Cardinality({w \in Running : task[w] = t})
                                       + Cardinality({i \in DOMAIN queue : queue[i] = t})
    /\ returned /\ ~ BulkheadWait => ran = 1 .. accepted

(* Where only workers, or only Acquires, wait: when nothing is awake, no    *)
(* worker sleeps over a queued task and no Acquire over a free slot.        *)
NoneSleepsOverWork ==
    /\ \A w \in Worker : worker[w] \notin {"new", "woken"}
    /\ \A c \in BulkheadCaller : ~ bulkheadCall[c].woken
    => \A p \in ToSet(waiting) :
          IF p \in Worker THEN queue = <<>> \/ \E c \in BulkheadCaller : bulkheadCall[c].for # "idle"
          ELSE (bulkheadClosed \/ activeCount < maxConcurrency) => bulkheadCall[p].for = "submit"

-----------------------------------------------------------------------------
(***************************************************************************)
(* idempotent: the first call of a key runs its handler outside the mutex, *)
(* calls that come meanwhile wait for it, later ones get its response back *)
(* until it expires.  An execution is a number and stands for its response.*)
(***************************************************************************)

CONSTANTS
    IdemCaller, Key, TTL,
    Manual,             \* whether Set, Delete and Clear are called
    MaxTime, MaxRuns    \* bounds: the clock, executions and Sets

VARIABLES
    now, cache, pending,
    runs,       \* executions begun: key, closes of done, whether Stop ended it
    idemCall,       \* per caller: step, key, execution
    running, stopped,
    cleaners,   \* cleanLoop goroutines alive
    replay      \* history: per key the last response stored and until when it stands

idemVars == <<now, cache, pending, runs, idemCall, running, stopped, cleaners, replay>>

None == [run |-> 0, exp |-> 0]
IdemAt(step, k, r) == [step |-> step, key |-> k, run |-> r]
IdemInit ==
    /\ now = 0 /\ cache = [k \in Key |-> None] /\ pending = [k \in Key |-> 0] /\ runs = <<>>
    /\ idemCall = [c \in IdemCaller |-> IdemAt("idle", "none", 0)]
    /\ running = FALSE /\ stopped = FALSE /\ cleaners = 0 /\ replay = [k \in Key |-> None]

IdemGoto(c, step, k, r) == idemCall' = [idemCall EXCEPT ![c] = IdemAt(step, k, r)]
Valid(k) == cache[k] # None /\ now < cache[k].exp       \* Before, as Execute has it
Gone(k) == cache[k] # None /\ now > cache[k].exp        \* After, as Get, Contains and cleaning have it
Joins(k) == pending[k] # 0
Execute(c, k) ==
    /\ idemCall[c].step = "idle"
    /\ CASE stopped -> IdemGoto(c, "refused", k, 0) /\ UNCHANGED <<cache, pending, runs>>
         [] ~ stopped /\ Valid(k) -> IdemGoto(c, "hit", k, cache[k].run) /\ UNCHANGED <<cache, pending, runs>>
         [] ~ stopped /\ ~ Valid(k) /\ Joins(k) ->
              cache' = [cache EXCEPT ![k] = None] /\ IdemGoto(c, "wait", k, pending[k]) /\ UNCHANGED <<pending, runs>>
         [] OTHER ->
              /\ Len(runs) < MaxRuns
              /\ cache' = [cache EXCEPT ![k] = None] /\ pending' = [pending EXCEPT ![k] = Len(runs) + 1]
              /\ runs' = Append(runs, [key |-> k, done |-> 0, err |-> FALSE])
              /\ IdemGoto(c, "handler", k, Len(runs) + 1)
    /\ UNCHANGED <<now, running, stopped, cleaners, replay>>
stillPending(k) == pending[k] # 0
Stored(k, r) == [run |-> r, exp |-> now + TTL]
HandlerReturns(c) ==
    LET k == idemCall[c].key  r == idemCall[c].run IN
    /\ idemCall[c].step = "handler"
    /\ IF ~ stillPending(k) THEN IdemGoto(c, "refused", k, r) /\ UNCHANGED <<cache, pending, runs, replay>>
       ELSE /\ pending' = [pending EXCEPT ![k] = 0]
            /\ runs' = [runs EXCEPT ![r].done = @ + 1, ![r].err = stopped]
            /\ IF stopped THEN IdemGoto(c, "refused", k, r) /\ UNCHANGED <<cache, replay>>
               ELSE /\ cache' = [cache EXCEPT ![k] = Stored(k, r)] /\ replay' = [replay EXCEPT ![k] = Stored(k, r)]
                    /\ IdemGoto(c, "miss", k, r)
    /\ UNCHANGED <<now, running, stopped, cleaners>>
Failed(r) == runs[r].err
WaitOver(c) ==
    LET r == idemCall[c].run IN
    /\ idemCall[c].step = "wait" /\ runs[r].done > 0
    /\ IdemGoto(c, IF Failed(r) THEN "refused" ELSE "hit", idemCall[c].key, r)
    /\ UNCHANGED <<now, cache, pending, runs, running, stopped, cleaners, replay>>
IdemReturn(c) ==
    /\ idemCall[c].step \in {"hit", "miss", "refused"} /\ IdemGoto(c, "idle", "none", 0)
    /\ UNCHANGED <<now, cache, pending, runs, running, stopped, cleaners, replay>>

Ended(r) == \E k \in Key : pending[k] = r
Stop ==
    /\ ~ stopped /\ stopped' = TRUE /\ running' = FALSE
    /\ runs' = [r \in DOMAIN runs |-> IF Ended(r) THEN [runs[r] EXCEPT !.err = TRUE, !.done = @ + 1] ELSE runs[r]]
    /\ pending' = [k \in Key |-> 0]
    /\ UNCHANGED <<now, cache, idemCall, cleaners, replay>>
Start ==
    /\ ~ stopped /\ ~ running /\ running' = TRUE /\ cleaners' = cleaners + 1
    /\ UNCHANGED <<now, cache, pending, runs, idemCall, stopped, replay>>
cleanLoop ==
    /\ cleaners > 0 /\ stopped /\ cleaners' = cleaners - 1
    /\ UNCHANGED <<now, cache, pending, runs, idemCall, running, stopped, replay>>
(* CleanExpired, called or by the loop *)
cleanExpiredLocked ==
    /\ ~ stopped /\ \E k \in Key : Gone(k)
    /\ cache' = [k \in Key |-> IF Gone(k) THEN None ELSE cache[k]]
    /\ UNCHANGED <<now, pending, runs, idemCall, running, stopped, cleaners, replay>>
(* Get and Contains drop an entry past its time *)
IdemGet(k) ==
    /\ ~ stopped /\ Gone(k) /\ cache' = [cache EXCEPT ![k] = None]
    /\ UNCHANGED <<now, pending, runs, idemCall, running, stopped, cleaners, replay>>
(* what is given to Set counts as an execution that has already ended *)
Set(k) ==
    /\ Manual /\ ~ stopped /\ Len(runs) < MaxRuns /\ runs' = Append(runs, [key |-> k, done |-> 1, err |-> FALSE])
    /\ cache' = [cache EXCEPT ![k] = Stored(k, Len(runs) + 1)] /\ replay' = [replay EXCEPT ![k] = Stored(k, Len(runs) + 1)]
    /\ UNCHANGED <<now, pending, idemCall, running, stopped, cleaners>>
Delete(k) ==
    /\ Manual /\ ~ stopped /\ cache' = [cache EXCEPT ![k] = None] /\ replay' = [replay EXCEPT ![k] = None]
    /\ UNCHANGED <<now, pending, runs, idemCall, running, stopped, cleaners>>
Clear ==
    /\ Manual /\ ~ stopped /\ cache' = [k \in Key |-> None] /\ replay' = [k \in Key |-> None]
    /\ UNCHANGED <<now, pending, runs, idemCall, running, stopped, cleaners>>
Tick ==
    /\ now < MaxTime /\ now' = now + 1
    /\ UNCHANGED <<cache, pending, runs, idemCall, running, stopped, cleaners, replay>>

IdemNext ==
    \/ \E c \in IdemCaller : (\E k \in Key : Execute(c, k)) \/ HandlerReturns(c) \/ WaitOver(c) \/ IdemReturn(c)
    \/ \E k \in Key : IdemGet(k) \/ Set(k) \/ Delete(k)
    \/ Clear \/ Start \/ Stop \/ cleanLoop \/ cleanExpiredLocked \/ Tick

IdemTypeOK == pending \in [Key -> 0 .. MaxRuns] /\ cleaners \in 0 .. 1 /\ replay \in [Key -> [run : 0 .. MaxRuns, exp : 0 .. MaxTime + TTL]]

-----------------------------------------------------------------------------
(* Nobody waits for an execution that will not end: it is still under way   *)
(* and registered, or its done channel is closed, and closed once only,     *)
(* whatever Stop does while handlers run.                                   *)
WaitersAreReleased ==
    /\ \A c \in IdemCaller : idemCall[c].step = "wait" =>
         \/ runs[idemCall[c].run].done = 1
         \/ pending[idemCall[c].key] = idemCall[c].run /\ \E d \in IdemCaller : idemCall[d].step = "handler" /\ idemCall[d].run = idemCall[c].run
    /\ \A r \in DOMAIN runs : runs[r].done <= 1

(* At any time at most one handler of a key runs unless Stop has given up   *)
(* on it, and what is stored stands in the cache until it expires or is     *)
(* deleted: a call gets it and does not run its handler again.              *)
OneHandlerPerKey ==
    /\ ~ stopped => \A c, d \in IdemCaller : idemCall[c].step = "handler" /\ idemCall[d].step = "handler" /\ idemCall[c].key = idemCall[d].key => c = d
    /\ \A k \in Key : now < replay[k].exp => cache[k] = replay[k]

(* A call that reports success got the response of an execution of its own  *)
(* key that ended well, and none is answered from one Stop has ended.       *)
AnswersAreOfTheKey ==
    \A c \in IdemCaller : idemCall[c].step \in {"hit", "miss"} =>
        runs[idemCall[c].run].key = idemCall[c].key /\ runs[idemCall[c].run].done > 0 /\ ~ runs[idemCall[c].run].err
=============================================================================
