------------------------------ MODULE JobQueue ------------------------------
(***************************************************************************)
(* jobqueue.JobQueue: a priority queue and a delay queue of jobs under     *)
(* jq.mu, a dispatch loop that hands jobs to at most PoolSize workers,     *)
(* retries with backoff, dead letters, results, and callers that wait for  *)
(* a result.                                                               *)
(*                                                                         *)
(* A delay or a backoff is over at any moment after it was set.  A job in  *)
(* pq is pending or failed, so the loop's test for a finished job there is *)
(* left out.  Start and Stop are called one after the other; a Stop that   *)
(* gives up waiting leaves its loop running beside the next Start's.       *)
(***************************************************************************)
EXTENDS Integers, FiniteSets

CONSTANTS
    Job,
    Priority,    \* [Job -> Int]
    Loop,        \* the dispatch loops, one per Start
    Waiter,      \* callers of WaitForResult
    PoolSize, MaxRetries,
    MaxEnqueues  \* bound on how often a job id is accepted

JobQueueAssumption ==
    /\ Priority \in [Job -> Int]
    /\ PoolSize \in Nat \ {0} /\ MaxRetries \in Nat /\ MaxEnqueues \in Nat

VARIABLES
    running,
    stopping,    \* a Stop is waiting for the wait group
    pq, dq,      \* the jobs in the two heaps
    jobs,        \* ids in the jobs map
    retryCount,
    loop,        \* loop[l]: [at, job, drain]
    woken,       \* loops whose captured stopCh or wakeCh has been closed
    worker,      \* worker[j]: "none", "spawned" or "running"
    success, dead, deadLetters,
    notify,      \* ids with a channel in notifyChan
    waiter,      \* waiter[w]: [at, job]
    enqueues

queues == <<pq, dq, jobs, retryCount>>
results == <<success, dead, deadLetters>>
waits == <<notify, waiter>>
jobVars == <<running, stopping, queues, loop, woken, worker, results, waits, enqueues>>

At(l, a) == [loop EXCEPT ![l].at = a]

JobInit ==
    /\ running = FALSE /\ stopping = FALSE
    /\ pq = {} /\ dq = {} /\ jobs = {}
    /\ retryCount = [j \in Job |-> 0]
    /\ loop = [l \in Loop |-> [at |-> "new", job |-> {}, drain |-> FALSE]]
    /\ woken = {}
    /\ worker = [j \in Job |-> "none"]
    /\ success = {} /\ dead = {} /\ deadLetters = {}
    /\ notify = {}
    /\ waiter = [w \in Waiter |-> [at |-> "idle", job |-> {}]]
    /\ enqueues = [j \in Job |-> 0]

Active == {j \in Job : worker[j] # "none"}

Quiet == (\A l \in Loop : loop[l].at \in {"new", "done"}) /\ Active = {}

(* wake closes the channel every parked loop has captured. *)
Wake == woken' = Loop

-----------------------------------------------------------------------------
JobStart(l) ==
    /\ ~ running /\ ~ stopping
    /\ loop[l].at = "new"
    /\ running' = TRUE
    /\ loop' = At(l, "top")
    /\ UNCHANGED <<stopping, queues, woken, worker, results, waits, enqueues>>

JobStop ==
    /\ running
    /\ running' = FALSE /\ stopping' = TRUE
    /\ Wake
    /\ UNCHANGED <<queues, loop, worker, results, waits, enqueues>>

(* Stop returns: everything is quiet, or the shutdown timeout has passed. *)
StopReturns ==
    /\ stopping
    /\ stopping' = FALSE
    /\ UNCHANGED <<running, queues, loop, woken, worker, results, waits, enqueues>>

(* enqueueInternal: an id that is still in the map is accepted without effect. *)
Enqueue(j, delay) ==
    /\ running
    /\ j \notin jobs
    /\ enqueues[j] < MaxEnqueues
    /\ jobs' = jobs \cup {j}
    /\ retryCount' = [retryCount EXCEPT ![j] = 0]
    /\ IF delay THEN dq' = dq \cup {j} /\ UNCHANGED pq
                ELSE pq' = pq \cup {j} /\ UNCHANGED dq
    /\ Wake
    /\ enqueues' = [enqueues EXCEPT ![j] = @ + 1]
    /\ UNCHANGED <<running, stopping, loop, worker, results, waits>>

-----------------------------------------------------------------------------
Best(S) == {j \in S : \A k \in S : Priority[j] >= Priority[k]}

WaitingDispatch == \E l \in Loop : loop[l].at = "acquire"

(* One pass of dispatchLoop under jq.mu; the jobs in R have become ready. *)
Dispatch(l) ==
    /\ loop[l].at = "top"
    /\ \E R \in SUBSET dq :
          /\ dq' = dq \ R
          /\ \/ /\ ~ running /\ pq \cup R = {} /\ dq' = {} /\ ~ WaitingDispatch
                /\ loop' = At(l, "done")
                /\ pq' = {}
             \/ /\ pq \cup R = {} /\ (running \/ dq' # {} \/ WaitingDispatch)
                /\ loop' = At(l, "sleep")
                /\ pq' = {}
             \/ \E j \in Best(pq \cup R) :
                /\ loop' = [loop EXCEPT ![l] =
                               [at |-> "acquire", job |-> {j}, drain |-> ~ running]]
                /\ pq' = (pq \cup R) \ {j}
    /\ woken' = woken \ {l}
    /\ UNCHANGED <<running, stopping, jobs, retryCount, worker, results, waits, enqueues>>

(* The loop stops sleeping: woken, the head of dq is due, or it polls.  *)
LoopWakes(l) ==
    /\ loop[l].at = "sleep"
    /\ l \in woken \/ dq # {} \/ ~ running
    /\ loop' = At(l, "top")
    /\ UNCHANGED <<running, stopping, queues, woken, worker, results, waits, enqueues>>

Spawn(l) ==
    /\ loop[l].at = "acquire"
    /\ Cardinality(Active) < PoolSize
    /\ worker' = [j \in Job |-> IF j \in loop[l].job THEN "spawned" ELSE worker[j]]
    /\ loop' = [loop EXCEPT ![l] = [at |-> "top", job |-> {}, drain |-> FALSE]]
    /\ UNCHANGED <<running, stopping, queues, woken, results, waits, enqueues>>

(* Slip: the popped job is dropped when a wake-up interrupts the wait. *)
PutBackSlip(l) ==
    /\ loop[l].at = "acquire" /\ ~ loop[l].drain /\ l \in woken
    /\ Wake
    /\ loop' = [loop EXCEPT ![l] = [at |-> "top", job |-> {}, drain |-> FALSE]]
    /\ UNCHANGED <<running, stopping, queues, worker, results, waits, enqueues>>

(* Woken while it waited for a slot: the job goes back to pq. *)
PutBack(l) ==
    /\ loop[l].at = "acquire" /\ ~ loop[l].drain /\ l \in woken
    /\ pq' = pq \cup loop[l].job
    /\ Wake
    /\ loop' = [loop EXCEPT ![l] = [at |-> "top", job |-> {}, drain |-> FALSE]]
    /\ UNCHANGED <<running, stopping, dq, jobs, retryCount, worker, results, waits, enqueues>>

-----------------------------------------------------------------------------
Run(j) ==
    /\ worker[j] = "spawned"
    /\ worker' = [worker EXCEPT ![j] = "running"]
    /\ UNCHANGED <<running, stopping, queues, loop, woken, results, waits, enqueues>>

(* notifyJobComplete: everyone parked on j's channel is released. *)
Notified(j) ==
    /\ notify' = notify \ {j}
    /\ waiter' = [w \in Waiter |->
          IF waiter[w].at = "parked" /\ waiter[w].job = {j}
          THEN [waiter[w] EXCEPT !.at = "read"] ELSE waiter[w]]

(* executeJob after the handler has returned. *)
Succeed(j) ==
    /\ worker[j] = "running"
    /\ worker' = [worker EXCEPT ![j] = "none"]
    /\ success' = success \cup {j}
    /\ jobs' = jobs \ {j}
    /\ Notified(j)
    /\ UNCHANGED <<running, stopping, pq, dq, retryCount, loop, woken, dead, deadLetters, enqueues>>

(* Slip: one retry too many. *)
ExhaustedSlip(n) == n > MaxRetries + 1

Exhausted(n) == n > MaxRetries

(* The handler failed or panicked: a dead letter, or a retry after backoff. *)
Fail(j) ==
    /\ worker[j] = "running"
    /\ worker' = [worker EXCEPT ![j] = "none"]
    /\ retryCount' = [retryCount EXCEPT ![j] = @ + 1]
    /\ \/ /\ Exhausted(retryCount[j] + 1)
          /\ dead' = dead \cup {j} /\ deadLetters' = deadLetters \cup {j}
          /\ jobs' = jobs \ {j}
          /\ Notified(j)
          /\ UNCHANGED <<dq, woken>>
       \/ /\ ~ Exhausted(retryCount[j] + 1)
          /\ dq' = dq \cup {j}
          /\ Wake
          /\ UNCHANGED <<jobs, dead, deadLetters, notify, waiter>>
    /\ UNCHANGED <<running, stopping, pq, loop, success, enqueues>>

ClearDeadLetters ==
    /\ deadLetters # {}
    /\ deadLetters' = {}
    /\ UNCHANGED <<running, stopping, queues, loop, woken, worker, success, dead, waits, enqueues>>

-----------------------------------------------------------------------------
(* WaitForResult: look, register, look again if the channel is new, park, read. *)
HasResult(j) == j \in success \cup dead

Move(w, a, j) == waiter' = [waiter EXCEPT ![w] = [at |-> a, job |-> {j}]]

WaitForResult(w, j) ==
    /\ waiter[w].at = "idle"
    /\ IF HasResult(j) THEN Move(w, "got", j) ELSE Move(w, "register", j)
    /\ UNCHANGED <<running, stopping, queues, loop, woken, worker, results, notify, enqueues>>

RegisterWait(w) ==
    /\ waiter[w].at = "register"
    /\ \E j \in waiter[w].job :
       /\ notify' = notify \cup {j}
       /\ Move(w, IF j \in notify THEN "parked" ELSE "recheck", j)
    /\ UNCHANGED <<running, stopping, queues, loop, woken, worker, results, enqueues>>

(* The channel may be closed before the caller reaches its select, *)
(* in which case it does not block.                                *)
Recheck(w) ==
    /\ waiter[w].at = "recheck"
    /\ \E j \in waiter[w].job :
       Move(w, IF HasResult(j) THEN "got" ELSE IF j \in notify THEN "parked" ELSE "read", j)
    /\ UNCHANGED <<running, stopping, queues, loop, woken, worker, results, notify, enqueues>>

ReadResult(w) ==
    /\ waiter[w].at = "read"
    /\ \E j \in waiter[w].job : Move(w, IF HasResult(j) THEN "got" ELSE "notFound", j)
    /\ UNCHANGED <<running, stopping, queues, loop, woken, worker, results, notify, enqueues>>

-----------------------------------------------------------------------------
LoopStep(l) == Dispatch(l) \/ LoopWakes(l) \/ Spawn(l) \/ PutBack(l)

WorkerStep(j) == Run(j) \/ Succeed(j) \/ Fail(j)

WaiterStep(w) == RegisterWait(w) \/ Recheck(w) \/ ReadResult(w)

JobNext ==
    \/ \E l \in Loop : JobStart(l) \/ LoopStep(l)
    \/ JobStop \/ StopReturns \/ ClearDeadLetters
    \/ \E j \in Job : WorkerStep(j) \/ \E d \in BOOLEAN : Enqueue(j, d)
    \/ \E w \in Waiter : WaiterStep(w) \/ \E j \in Job : WaitForResult(w, j)

JobSpec == JobInit /\ [][JobNext]_jobVars

DispatchesAll(l) == Dispatch(l) /\ dq' = {}

NextUnstopped == JobNext /\ ~ JobStop

(* Goroutines run and handlers return; a free slot or a due delay is not      *)
(* passed over for ever.                                                      *)
JobFairSpec ==
    /\ JobInit /\ [][NextUnstopped]_jobVars
    /\ \A l \in Loop : WF_jobVars(LoopStep(l)) /\ SF_jobVars(Spawn(l))
          /\ SF_jobVars(DispatchesAll(l))
    /\ \A j \in Job : WF_jobVars(WorkerStep(j))
    /\ \A w \in Waiter : WF_jobVars(WaiterStep(w))

-----------------------------------------------------------------------------
JobTypeOK ==
    /\ running \in BOOLEAN /\ stopping \in BOOLEAN
    /\ pq \subseteq Job /\ dq \subseteq Job /\ jobs \subseteq Job
    /\ retryCount \in [Job -> 0 .. MaxRetries + 1]
    /\ loop \in [Loop -> [at : {"new", "top", "sleep", "acquire", "done"},
                          job : SUBSET Job, drain : BOOLEAN]]
    /\ woken \subseteq Loop
    /\ worker \in [Job -> {"none", "spawned", "running"}]
    /\ success \subseteq Job /\ dead \subseteq Job /\ deadLetters \subseteq Job
    /\ notify \subseteq Job
    /\ waiter \in [Waiter -> [at : {"idle", "register", "recheck", "parked", "read", "got", "notFound"},
                              job : SUBSET Job]]
    /\ enqueues \in [Job -> 0 .. MaxEnqueues]

Places(j) ==
    Cardinality({l \in Loop : j \in loop[l].job})
      + Cardinality({S \in {<<"pq", pq>>, <<"dq", dq>>, <<"worker", Active>>} : j \in S[2]})

(* A job that was accepted is in exactly one place (a queue, a loop's hand,  *)
(* a worker) until it has its result: it is never lost and never run by two  *)
(* workers at once, whatever wake-ups, retries, stops and restarts do.       *)
JobInOnePlace == \A j \in Job : Places(j) = (IF j \in jobs THEN 1 ELSE 0)

(* A job leaves the map only with a result, so a caller never gets           *)
(* ErrJobNotFound for a job it knows was accepted.                           *)
EndedHasResult ==
    /\ \A j \in Job : enqueues[j] > 0 /\ j \notin jobs => HasResult(j)
    /\ \A w \in Waiter : waiter[w].at # "notFound"

(* A Stop that was waited for leaves no accepted job behind (MaxRetries = 0: *)
(* a retry that is scheduled after the loop has left stays in the queue).    *)
StopDrains == (~ running /\ Quiet) => jobs = {}

(* An accepted job is in exactly one place (a queue, a loop's hand, a        *)
(* worker) until it has its result, whatever wake-ups, retries, stops and    *)
(* restarts do; a job leaves the map only with a result, so no waiting       *)
(* caller gets ErrJobNotFound for it; and without retries a Stop that was    *)
(* waited for leaves no job behind.                                          *)
AcceptedWorkIsKept == JobInOnePlace /\ EndedHasResult /\ (MaxRetries = 0 => StopDrains)

(* Every accepted job gets a result while the queue is running. *)
Ended(j) == j \notin jobs

JobEnds == \A j \in Job : []<>Ended(j)

(* A caller that waits for an accepted job gets its answer. *)
ParkedFor(w, j) == waiter[w].at = "parked" /\ waiter[w].job = {j} /\ enqueues[j] > 0
Answered(w) == \A j \in Job : ~ ParkedFor(w, j)

WaiterReturns == \A w \in Waiter : []<>Answered(w)
=============================================================================
