----------------------------- MODULE Workflows ------------------------------
(*****************************************************************************)
(* Work in a given order: the executor of orchestrator, the engine of        *)
(* workflow and the coordinator of saga. The parts share no state; each      *)
(* has its own specification.                                                *)
(*****************************************************************************)
EXTENDS Integers, FiniteSets, Sequences, SequencesExt

(***************************************************************************)
(* orchestrator.Orchestrator: runs a graph of tasks, each once all its     *)
(* dependencies are over, and skips what depends on a failure. The         *)
(* scheduler loop, the task goroutines and Stop interleave.                *)
(***************************************************************************)

CONSTANTS
    Task,
    MaxAttempts,   \* largest 1 + MaxRetry
    DagMaxRuns,       \* bound on Run and RetryTask calls
    ForwardRefs    \* may AddTask name a dependency that is added later?

VARIABLES
    tasks, deps,
    succ,          \* succ[t]: the Successors AddTask has linked to t
    dagStatus, running, cancelled,
    loop,          \* "off", "select" or "wait" (for the task goroutines)
    taskSet, readyCount, taskCh, dagCompleted, left,
    worker,        \* worker[t]: "none", "spawned", "run"
    attempts,      \* attempts left to the goroutine of t
    started,       \* tasks whose Func was called in this run
    dagRuns

graph == <<tasks, deps, succ>>
sched == <<loop, taskSet, readyCount, taskCh, dagCompleted, left>>
dagVars == <<graph, dagStatus, running, cancelled, sched, worker, attempts, started, dagRuns>>

DagInit ==
    /\ tasks = {} /\ deps = [t \in Task |-> {}] /\ succ = [t \in Task |-> {}]
    /\ dagStatus = [t \in Task |-> "Pending"]
    /\ running = FALSE /\ cancelled = FALSE
    /\ loop = "off" /\ taskSet = {} /\ readyCount = [t \in Task |-> 0]
    /\ taskCh = {} /\ dagCompleted = {} /\ left = 0
    /\ worker = [t \in Task |-> "none"] /\ attempts = [t \in Task |-> 0]
    /\ started = {} /\ dagRuns = 0

(* Only dependencies that exist already learn of their new successor. *)
AddTask(t, D) ==
    /\ ~ running /\ t \notin tasks /\ t \notin D
    /\ ForwardRefs \/ D \subseteq tasks
    /\ tasks' = tasks \cup {t}
    /\ deps' = [deps EXCEPT ![t] = D]
    /\ succ' = [d \in Task |-> IF d \in D \cap tasks THEN succ[d] \cup {t} ELSE succ[d]]
    /\ dagStatus' = [dagStatus EXCEPT ![t] = "Pending"]
    /\ UNCHANGED <<running, cancelled, sched, worker, attempts, started, dagRuns>>

(* hasCycle walks Successors: a set in which everyone has a successor. *)
HasCycle(next) == \E X \in SUBSET tasks : X # {} /\ \A x \in X : next[x] \cap X # {}

ValidateDAG == ~ HasCycle(succ) /\ \A t \in tasks : deps[t] \subseteq tasks

(* collectDownstreamLocked: the least set around t closed under Successors. *)
Downstream(t) ==
    {x \in tasks : \A X \in SUBSET tasks :
        t \in X /\ (\A y \in X : succ[y] \subseteq X) => x \in X}

ShouldSkip(t, st) == \E d \in deps[t] : st[d] \in {"Failed", "Timeout", "Skipped"}

(* The scheduler hands over the tasks of Ready: skipped ones are completed  *)
(* at once, the others go to taskCh. st is the status before.               *)
HandOver(Ready, st, C) ==
    LET skip == {t \in Ready : ShouldSkip(t, st)}
    IN /\ dagStatus' = [t \in Task |-> IF t \in skip THEN "Skipped" ELSE st[t]]
       /\ dagCompleted' = C \cup skip
       /\ taskCh' = taskCh \cup (Ready \ skip)

Schedule(S, st) ==
    /\ running' = TRUE /\ cancelled' = FALSE
    /\ loop' = "select" /\ taskSet' = S /\ left' = Cardinality(S)
    /\ readyCount' = [t \in Task |-> Cardinality(deps[t] \cap S)]
    /\ HandOver({t \in S : deps[t] \cap S = {}}, st, {})
    /\ started' = {} /\ dagRuns' = dagRuns + 1
    /\ UNCHANGED <<graph, worker, attempts>>

Run ==
    /\ ~ running /\ dagRuns < DagMaxRuns /\ ValidateDAG
    /\ Schedule(tasks, [t \in Task |-> "Pending"])

RetryTask(t) ==
    /\ ~ running /\ dagRuns < DagMaxRuns
    /\ t \in tasks /\ dagStatus[t] \in {"Failed", "Timeout", "Skipped"}
    /\ Schedule(Downstream(t), [x \in Task |-> IF x \in Downstream(t) THEN "Pending" ELSE dagStatus[x]])

(* Stop, or the caller's context. *)
Stop ==
    /\ running /\ ~ cancelled
    /\ cancelled' = TRUE
    /\ UNCHANGED <<graph, dagStatus, running, sched, worker, attempts, started, dagRuns>>

-----------------------------------------------------------------------------
(* The select of runScheduler. *)
Spawn(t) ==
    /\ loop = "select" /\ left > 0 /\ t \in taskCh
    /\ taskCh' = taskCh \ {t}
    /\ worker' = [worker EXCEPT ![t] = "spawned"]
    /\ UNCHANGED <<graph, dagStatus, running, cancelled, loop, taskSet, readyCount, dagCompleted, left, attempts, started, dagRuns>>

Complete(t) ==
    /\ loop = "select" /\ left > 0 /\ t \in dagCompleted
    /\ left' = left - 1
    /\ readyCount' = [x \in Task |-> readyCount[x] - IF x \in succ[t] \cap taskSet THEN 1 ELSE 0]
    /\ HandOver({x \in succ[t] \cap taskSet : readyCount[x] = 1}, dagStatus, dagCompleted \ {t})
    /\ UNCHANGED <<graph, running, cancelled, loop, taskSet, worker, attempts, started, dagRuns>>

CancelSeen ==
    /\ loop = "select" /\ left > 0 /\ cancelled
    /\ loop' = "wait"
    /\ dagStatus' = [t \in Task |-> IF t \in taskSet /\ dagStatus[t] \in {"Pending", "Running"} THEN "Skipped" ELSE dagStatus[t]]
    /\ UNCHANGED <<graph, running, cancelled, taskSet, readyCount, taskCh, dagCompleted, left, worker, attempts, started, dagRuns>>

AllCompleted ==
    /\ loop = "select" /\ left = 0
    /\ loop' = "wait"
    /\ UNCHANGED <<graph, dagStatus, running, cancelled, taskSet, readyCount, taskCh, dagCompleted, left, worker, attempts, started, dagRuns>>

(* wg.Wait, then running = false and the report. *)
DagFinish ==
    /\ loop = "wait" /\ \A t \in Task : worker[t] = "none"
    /\ running' = FALSE /\ loop' = "off"
    /\ taskCh' = {} /\ dagCompleted' = {}
    /\ UNCHANGED <<graph, dagStatus, cancelled, taskSet, readyCount, left, worker, attempts, started, dagRuns>>

(* executeTask: n = 1 + MaxRetry as SetTaskRetry has left it. *)
TaskBegins(t, n) ==
    /\ worker[t] = "spawned"
    /\ worker' = [worker EXCEPT ![t] = "run"]
    /\ attempts' = [attempts EXCEPT ![t] = n]
    /\ dagStatus' = [dagStatus EXCEPT ![t] = "Running"]
    /\ started' = started \cup {t}
    /\ UNCHANGED <<graph, running, cancelled, sched, dagRuns>>

(* An attempt ends: success, an error or panic, its timeout, or (an error   *)
(* too) the cancelled context. With attempts left it is tried again.        *)
AttemptEnds(t, outcome) ==
    /\ worker[t] = "run"
    /\ attempts' = [attempts EXCEPT ![t] = @ - 1]
    /\ IF outcome # "Success" /\ ~ cancelled /\ attempts[t] > 1
       THEN UNCHANGED <<dagStatus, worker, dagCompleted>>
       ELSE /\ dagStatus' = [dagStatus EXCEPT ![t] = outcome]
            /\ worker' = [worker EXCEPT ![t] = "none"]
            /\ dagCompleted' = dagCompleted \cup {t}
    /\ UNCHANGED <<graph, running, cancelled, loop, taskSet, readyCount, taskCh, left, started, dagRuns>>

Scheduler == (\E t \in Task : Spawn(t) \/ Complete(t)) \/ CancelSeen \/ AllCompleted \/ DagFinish

Worker(t) ==
    \/ \E n \in 1 .. MaxAttempts : TaskBegins(t, n)
    \/ \E outcome \in {"Success", "Failed", "Timeout"} : AttemptEnds(t, outcome)

DagNext ==
    \/ Run \/ Stop \/ Scheduler
    \/ \E t \in Task : RetryTask(t) \/ Worker(t) \/ \E D \in SUBSET Task : AddTask(t, D)

DagSpec == DagInit /\ [][DagNext]_dagVars

(* The loop's goroutine runs, and every Func returns or times out. *)
DagFairSpec == DagSpec /\ WF_dagVars(Scheduler) /\ \A t \in Task : WF_dagVars(Worker(t))

-----------------------------------------------------------------------------
DagTypeOK ==
    /\ tasks \subseteq Task /\ taskSet \subseteq Task /\ taskCh \subseteq Task /\ dagCompleted \subseteq Task
    /\ deps \in [Task -> SUBSET Task] /\ succ \in [Task -> SUBSET Task]
    /\ dagStatus \in [Task -> {"Pending", "Running", "Success", "Failed", "Skipped", "Timeout"}]
    /\ loop \in {"off", "select", "wait"} /\ running \in BOOLEAN /\ cancelled \in BOOLEAN
    /\ left \in 0 .. Cardinality(Task)
    /\ \A t \in Task : readyCount[t] \in -1 .. Cardinality(Task)

(* A task's function is called only when those of its dependencies that are *)
(* part of the run have succeeded; a dependency that a RetryTask leaves out *)
(* has at least not failed or been skipped.                                 *)
DependenciesFirst ==
    running => \A t \in started : \A d \in deps[t] :
        dagStatus[d] = "Success" \/ (d \notin taskSet /\ dagStatus[d] = "Pending")

(* When a run that was not cancelled ends, every task of it has an outcome, *)
(* and a task was skipped exactly when a dependency did not succeed.        *)
OutcomeFollowsGraph ==
    ~ running /\ ~ cancelled => \A t \in taskSet :
        /\ dagStatus[t] \notin {"Pending", "Running"}
        /\ (dagStatus[t] = "Skipped") = (\E d \in deps[t] : dagStatus[d] \in {"Failed", "Timeout", "Skipped"})

(* Run and RetryTask return. *)
DagReturned == ~ running

RunEnds == []<>DagReturned

(* A graph that validation lets through has no cycle of dependencies. *)
AcceptedIsAcyclic == running => ~ HasCycle(deps)

-----------------------------------------------------------------------------
(***************************************************************************)
(* workflow.WorkflowEngine: runs a tree of sequential, parallel, loop,     *)
(* conditional and task nodes, either plainly or while recording in a      *)
(* WorkflowState what is completed, so that a failed run can be resumed.   *)
(* The node objects belong to the definition: the position they remember   *)
(* outlives the run that moved it. A node is a frame that its parent calls *)
(* and whose outcome the parent collects; children of a parallel node run  *)
(* concurrently.                                                           *)
(***************************************************************************)

CONSTANTS
    Leaf, Serial, Parallel, Loop, Conditional,   \* the nodes, by type
    Root,
    Kids,            \* Kids[n]: the children of a composite node, in order
    Iterations, MaxFailures, ContinueOnError,
    Retries,         \* Retries[n]: MaxRetries of a node
    Reuse,           \* may a definition be executed again after a recorded run?
    FlowMaxRuns          \* bound on calls of Execute and Resume

FlowNode == Leaf \cup Serial \cup Parallel \cup Loop \cup Conditional
KidsOf(n) == {Kids[n][i] : i \in DOMAIN Kids[n]}

VARIABLES
    mode,            \* "none", "plain" or "state": the kind of the current or last run
    node,            \* node[n]: the node object and the frame of its current call
    flowCompleted, iters, internal,   \* NodeStates: Completed, the iteration keys, InternalState
    flowStatus,          \* Status of the WorkflowState, or of the plain result
    registered,      \* is the WorkflowState among the engine's instances?
    okRuns,          \* successful handler calls since the last Execute
    flowRuns

recorded == <<flowCompleted, iters, internal>>
flowVars == <<mode, node, recorded, flowStatus, registered, okRuns, flowRuns>>

(* frame and tries: the call; index: currentIndex or currentIteration;     *)
(* done: completedNodes; selected: selectedNodeID, as a set; results:      *)
(* children that a parallel attempt has collected; failures: failureCount, *)
(* or the errors of a loop.                                                *)
FlowFresh == [frame |-> "idle", tries |-> 0, index |-> 0, done |-> {}, selected |-> {},
          results |-> {}, failures |-> 0]
Blank == [n \in FlowNode |-> {}]
Zero == [n \in FlowNode |-> 0]

FlowInit ==
    /\ mode = "none" /\ node = [n \in FlowNode |-> FlowFresh]
    /\ flowCompleted = {} /\ iters = {} /\ internal = Blank
    /\ flowStatus = "none" /\ registered = FALSE /\ okRuns = Zero /\ flowRuns = 0

Idle(n) == node[n].frame = "idle"
MayStart(m) == Idle(Root) /\ flowRuns < FlowMaxRuns /\ (Reuse \/ mode = "none" \/ (mode = m /\ m = "plain"))
NewState == flowCompleted' = {} /\ iters' = {} /\ internal' = Blank /\ okRuns' = Zero

Execute(m) ==
    /\ MayStart(m) /\ mode' = m /\ flowStatus' = "running" /\ flowRuns' = flowRuns + 1
    /\ node' = [node EXCEPT ![Root].frame = "called"]
    /\ NewState /\ registered' = FALSE

ExecuteWorkflow == Execute("plain")
ExecuteWorkflowWithState == Execute("state")

(* A created instance is running but executed by nobody until it is paused *)
(* or cancelled and then resumed.                                          *)
CreateInstance ==
    /\ MayStart("state") /\ mode' = "state" /\ flowStatus' = "running"
    /\ NewState /\ registered' = TRUE
    /\ UNCHANGED <<node, flowRuns>>

PauseWorkflow ==
    /\ registered /\ flowStatus = "running" /\ flowStatus' = "paused"
    /\ UNCHANGED <<mode, node, recorded, registered, okRuns, flowRuns>>

CancelWorkflow ==
    /\ registered /\ flowStatus' = "failed"
    /\ UNCHANGED <<mode, node, recorded, registered, okRuns, flowRuns>>

(* RestoreState of every node with an InternalState. A parallel node reads *)
(* completed_nodes only in the form that JSON decodes it to.               *)
RestoreState(n, json) ==
    IF internal[n] = {} \/ (n \in Parallel /\ ~ json) THEN node[n]
    ELSE LET s == CHOOSE x \in internal[n] : TRUE IN
         [node[n] EXCEPT !.index = s.index, !.done = s.done, !.selected = s.selected]

ResumeWorkflow(json) ==
    /\ Idle(Root) /\ mode = "state" /\ flowStatus \in {"paused", "failed"} /\ flowRuns < FlowMaxRuns
    /\ node' = [n \in FlowNode |-> IF n = Root THEN [RestoreState(n, json) EXCEPT !.frame = "called"]
                               ELSE RestoreState(n, json)]
    /\ flowStatus' = "running" /\ flowRuns' = flowRuns + 1
    /\ registered' = (registered /\ ~ json)
    /\ UNCHANGED <<mode, recorded, okRuns>>

-----------------------------------------------------------------------------
State == mode = "state"
IsCompleted(n) == State /\ n \in flowCompleted

(* One attempt of node n starts: without a WorkflowState its memory is     *)
(* reset; a parallel node starts a goroutine for each child still to run.  *)
Attempt(N, n) ==
    LET over == (IF State THEN N[n].done ELSE {}) \cup {k \in KidsOf(n) : IsCompleted(k)}
        me == [N[n] EXCEPT !.frame = "run", !.results = {}, !.failures = 0,
                           !.index = IF State THEN @ ELSE 0,
                           !.selected = IF State THEN @ ELSE {},
                           !.done = IF n \in Parallel THEN over ELSE {}]
    IN  [k \in FlowNode |-> CASE k = n -> me
                          [] n \in Parallel /\ k \in KidsOf(n) \ over -> [N[k] EXCEPT !.frame = "called"]
                          [] OTHER -> N[k]]

Retried(N, n, r) == r = "failed" /\ N[n].tries < Retries[n]

NowCompleted(n, r) == IF r = "ok" THEN flowCompleted \cup {n} ELSE flowCompleted \ {n}

(* An attempt of n ends with outcome r, the nodes being N: executeWithRetry *)
(* tries again, or the node returns and executeNodeWithState records it.   *)
EndAttempt(N, n, r) ==
    /\ node' = IF Retried(N, n, r) THEN Attempt([N EXCEPT ![n].tries = @ + 1], n)
               ELSE [N EXCEPT ![n].frame = r]
    /\ IF State /\ ~ Retried(N, n, r)
       THEN /\ flowCompleted' = NowCompleted(n, r)
            /\ internal' = [internal EXCEPT ![n] =
                    IF n \in Leaf THEN {}
                    ELSE {[index |-> N[n].index, done |-> N[n].done, selected |-> N[n].selected]}]
       ELSE UNCHANGED <<flowCompleted, internal>>

Terminated(n) == \E p \in Parallel : n \in KidsOf(p) /\ node[p].failures > MaxFailures

(* The call of a node: skipped in a terminated parallel group, answered    *)
(* from the recorded state, or executed.                                   *)
Enter(n) ==
    /\ node[n].frame = "called"
    /\ \/ /\ Terminated(n)
          /\ node' = [node EXCEPT ![n].frame = "skipped"]
          /\ UNCHANGED internal
       \/ /\ ~ Terminated(n) /\ IsCompleted(n)
          /\ node' = [node EXCEPT ![n].frame = "ok"]
          /\ UNCHANGED internal
       \/ /\ ~ Terminated(n) /\ ~ IsCompleted(n)
          /\ node' = Attempt([node EXCEPT ![n].tries = 0], n)
          /\ internal' = [internal EXCEPT ![n] = {}]
    /\ UNCHANGED <<mode, flowCompleted, iters, flowStatus, registered, okRuns, flowRuns>>

TaskEnds(n, r) ==
    /\ n \in Leaf /\ node[n].frame = "run"
    /\ okRuns' = [okRuns EXCEPT ![n] = IF r = "ok" THEN @ + 1 ELSE @]
    /\ EndAttempt(node, n, r)
    /\ UNCHANGED <<mode, iters, flowStatus, registered, flowRuns>>

Running(n) == node[n].frame = "run"
FlowReturned(k) == node[k].frame \in {"ok", "failed", "skipped"}
Freed(k) == [node EXCEPT ![k].frame = "idle"]

(* SequentialNode: the next child, answered from the state if completed.   *)
SequentialStep(n) ==
    /\ n \in Serial /\ Running(n)
    /\ IF node[n].index = Len(Kids[n]) THEN EndAttempt(node, n, "ok")
       ELSE LET k == Kids[n][node[n].index + 1] IN
            \/ /\ Idle(k)
               /\ node' = IF IsCompleted(k) THEN [node EXCEPT ![n].index = @ + 1]
                          ELSE [node EXCEPT ![k].frame = "called"]
               /\ UNCHANGED <<flowCompleted, internal>>
            \/ /\ node[k].frame = "ok" /\ node' = [Freed(k) EXCEPT ![n].index = @ + 1]
               /\ UNCHANGED <<flowCompleted, internal>>
            \/ node[k].frame = "failed" /\ EndAttempt(Freed(k), n, "failed")
    /\ UNCHANGED <<mode, iters, flowStatus, registered, okRuns, flowRuns>>

(* A goroutine of a parallel node has the outcome of its child.            *)
ParallelCollect(n, k) ==
    /\ n \in Parallel /\ Running(n) /\ k \in KidsOf(n) /\ FlowReturned(k)
    /\ node' = [Freed(k) EXCEPT ![n].results = @ \cup {k},
                                ![n].failures = IF node[k].frame = "failed" THEN @ + 1 ELSE @]
    /\ UNCHANGED <<mode, recorded, flowStatus, registered, okRuns, flowRuns>>

TooMany(f) == f > MaxFailures

ParallelEnds(n) ==
    /\ n \in Parallel /\ Running(n) /\ \A k \in KidsOf(n) : Idle(k)
    /\ IF TooMany(node[n].failures) THEN EndAttempt(node, n, "failed")
       ELSE EndAttempt([node EXCEPT ![n].done = @ \cup node[n].results], n, "ok")
    /\ UNCHANGED <<mode, iters, flowStatus, registered, okRuns, flowRuns>>

(* LoopNode: one iteration after the other, each recorded under its own    *)
(* key; the body's own NodeState is consulted when it is called.           *)
LoopStep(n) ==
    /\ n \in Loop /\ Running(n)
    /\ LET k == Kids[n][1]  i == node[n].index  key == <<n, i>> IN
       IF i = Iterations
       THEN /\ EndAttempt(node, n, IF node[n].failures > 0 THEN "failed" ELSE "ok")
            /\ UNCHANGED iters
       ELSE \/ /\ Idle(k)
               /\ node' = IF State /\ key \in iters THEN [node EXCEPT ![n].index = @ + 1]
                          ELSE [node EXCEPT ![k].frame = "called"]
               /\ UNCHANGED recorded
            \/ /\ node[k].frame = "ok" /\ node' = [Freed(k) EXCEPT ![n].index = @ + 1]
               /\ iters' = IF State THEN iters \cup {key} ELSE iters
               /\ UNCHANGED <<flowCompleted, internal>>
            \/ /\ node[k].frame = "failed" /\ ~ ContinueOnError
               /\ EndAttempt(Freed(k), n, "failed") /\ UNCHANGED iters
            \/ /\ node[k].frame = "failed" /\ ContinueOnError
               /\ node' = [Freed(k) EXCEPT ![n].index = @ + 1, ![n].failures = @ + 1]
               /\ UNCHANGED recorded
    /\ UNCHANGED <<mode, flowStatus, registered, okRuns, flowRuns>>

(* ConditionalNode: a remembered branch, or the first that matches the     *)
(* context (any of them), or none.                                         *)
ConditionalSelect(n) ==
    /\ n \in Conditional /\ Running(n) /\ \A k \in KidsOf(n) : Idle(k)
    /\ \/ \E k \in IF node[n].selected # {} THEN node[n].selected ELSE KidsOf(n) :
            LET N == [node EXCEPT ![n].selected = {k}] IN
            IF IsCompleted(k) THEN EndAttempt(N, n, "ok")
            ELSE node' = [N EXCEPT ![k].frame = "called"] /\ UNCHANGED <<flowCompleted, internal>>
       \/ node[n].selected = {} /\ EndAttempt(node, n, "failed")
    /\ UNCHANGED <<mode, iters, flowStatus, registered, okRuns, flowRuns>>

ConditionalEnds(n) ==
    /\ n \in Conditional /\ Running(n)
    /\ \E k \in KidsOf(n) : FlowReturned(k) /\ EndAttempt(Freed(k), n, node[k].frame)
    /\ UNCHANGED <<mode, iters, flowStatus, registered, okRuns, flowRuns>>

(* The root has returned: the status overwrites one that Pause or Cancel   *)
(* has set meanwhile.                                                      *)
FlowFinish ==
    /\ FlowReturned(Root)
    /\ node' = Freed(Root)
    /\ flowStatus' = IF node[Root].frame = "ok" THEN "completed" ELSE "failed"
    /\ registered' = State
    /\ UNCHANGED <<mode, recorded, okRuns, flowRuns>>

FlowNext ==
    \/ ExecuteWorkflow \/ ExecuteWorkflowWithState \/ CreateInstance
    \/ PauseWorkflow \/ CancelWorkflow \/ \E json \in BOOLEAN : ResumeWorkflow(json)
    \/ \E n \in FlowNode :
        \/ Enter(n) \/ SequentialStep(n) \/ ParallelEnds(n) \/ LoopStep(n)
        \/ ConditionalSelect(n) \/ ConditionalEnds(n)
        \/ \E r \in {"ok", "failed"} : TaskEnds(n, r)
        \/ \E k \in FlowNode : ParallelCollect(n, k)
    \/ FlowFinish

FlowSpec == FlowInit /\ [][FlowNext]_flowVars

-----------------------------------------------------------------------------
FlowTypeOK ==
    /\ mode \in {"none", "plain", "state"}
    /\ node \in [FlowNode -> [frame : {"idle", "called", "run", "ok", "failed", "skipped"},
                              tries : Nat, index : Nat, done : SUBSET FlowNode, selected : SUBSET FlowNode,
                              results : SUBSET FlowNode, failures : Nat]]
    /\ flowCompleted \subseteq FlowNode /\ iters \subseteq (Loop \X (0..Iterations))
    /\ flowStatus \in {"none", "running", "paused", "failed", "completed"}
    /\ registered \in BOOLEAN /\ flowRuns \in 0..FlowMaxRuns

(* What it takes for the work under a node to have been done since the     *)
(* last Execute: a recorded loop calls its body at least once, a plain one *)
(* every time.                                                             *)
Worked[n \in FlowNode] ==
    CASE n \in Leaf -> okRuns[n] > 0
      [] n \in Serial -> \A k \in KidsOf(n) : Worked[k]
      [] n \in Parallel -> Cardinality({k \in KidsOf(n) : ~ Worked[k]}) <= MaxFailures
      [] n \in Loop -> /\ Iterations > 0 => Worked[Kids[n][1]]
                       /\ ~ State /\ Kids[n][1] \in Leaf => okRuns[Kids[n][1]] >= Iterations
      [] n \in Conditional -> \E k \in KidsOf(n) : Worked[k]

(* A workflow reported completed, directly or after any number of resumes, *)
(* has really done the work of every node the definition requires.         *)
CompletedDidItsWork == flowStatus = "completed" /\ Idle(Root) => Worked[Root]

(* A node of a sequence is called only after the ones before it worked,    *)
(* also when a resumed run starts in the middle.                           *)
InSequence ==
    \A n \in Serial : \A i, j \in 1..Len(Kids[n]) :
        i < j /\ ~ Idle(Kids[n][j]) => Worked[Kids[n][i]]

(* TestResumeWorkflow_CompletedNodesNotReexecuted: no resume, retry or     *)
(* restored position calls again a handler that has succeeded.             *)
NotReexecuted == State => \A n \in Leaf : okRuns[n] <= 1

(* docs/workflow.md: a loop executes its node for each iteration.          *)
EachIterationRuns ==
    flowStatus = "completed" /\ Idle(Root) =>
        \A n \in Loop : Kids[n][1] \in Leaf => okRuns[Kids[n][1]] >= Iterations

-----------------------------------------------------------------------------
(***************************************************************************)
(* saga.Coordinator: forward steps in order, compensation of the steps     *)
(* that succeeded in reverse order, and the list of failed compensations   *)
(* that wait for a person. Execute holds c.mu only for single accesses, so *)
(* executions, registrations and resolutions interleave.                   *)
(***************************************************************************)

CONSTANTS
    Id,           \* saga ids
    Exec,         \* executions, each started at most once
    Step,         \* step ids
    NoComp,       \* the steps registered without a CompensateFunc
    MaxObj        \* bound on NewSaga calls

VARIABLES
    sagas,        \* sagas[i]: the Saga object registered under i, 0 if none
    steps,        \* steps[o]: Saga.Steps of object o
    objs,         \* objects created so far
    runningSagas,
    ex,           \* ex[e]: the SagaExecution of e with Execute's locals
    pending       \* pendingInterventions: <<e, step, resolved>>

sagaVars == <<sagas, steps, objs, runningSagas, ex, pending>>

SagaFresh == [pc |-> "idle", id |-> "none", obj |-> 0, todo |-> <<>>, ok |-> <<>>,
          comp |-> <<>>, failed |-> {}, notes |-> {}, needs |-> FALSE, status |-> "pending"]

SagaInit ==
    /\ sagas = [i \in Id |-> 0]
    /\ steps = [o \in 1 .. MaxObj |-> <<>>]
    /\ objs = 0
    /\ runningSagas = {}
    /\ ex = [e \in Exec |-> SagaFresh]
    /\ pending = {}

NewSaga(i) ==
    /\ sagas[i] = 0 /\ objs < MaxObj
    /\ objs' = objs + 1
    /\ sagas' = [sagas EXCEPT ![i] = objs + 1]
    /\ UNCHANGED <<steps, runningSagas, ex, pending>>

(* AddStep works on the object the caller holds, registered or not. *)
AddStep(o, s) ==
    /\ o <= objs /\ s \notin ToSet(steps[o])
    /\ steps' = [steps EXCEPT ![o] = Append(@, s)]
    /\ UNCHANGED <<sagas, objs, runningSagas, ex, pending>>

RemoveSaga(i) ==
    /\ sagas[i] # 0
    /\ sagas' = [sagas EXCEPT ![i] = 0]
    /\ UNCHANGED <<steps, objs, runningSagas, ex, pending>>

(* Execute, up to the first unlock. *)
Begin(e, i) ==
    /\ ex[e].pc = "idle"
    /\ sagas[i] # 0 /\ steps[sagas[i]] # <<>> /\ i \notin runningSagas
    /\ runningSagas' = runningSagas \cup {i}
    /\ ex' = [ex EXCEPT ![e] = [@ EXCEPT !.pc = "range", !.id = i, !.obj = sagas[i], !.status = "running"]]
    /\ UNCHANGED <<sagas, steps, objs, pending>>

(* The for loop reads saga.Steps once, after the unlock. *)
Range1(e) ==
    /\ ex[e].pc = "range"
    /\ ex' = [ex EXCEPT ![e] = [@ EXCEPT !.pc = "forward", !.todo = steps[ex[e].obj]]]
    /\ UNCHANGED <<sagas, steps, objs, runningSagas, pending>>

(* One iteration: executeForward succeeds, or it fails or panics. *)
Forward(e, ok) ==
    /\ ex[e].pc = "forward" /\ ex[e].todo # <<>>
    /\ ex' = [ex EXCEPT ![e] =
                 IF ok THEN [@ EXCEPT !.todo = Tail(@), !.ok = Append(@, Head(ex[e].todo))]
                 ELSE [@ EXCEPT !.pc = "fail", !.failed = {Head(ex[e].todo)}]]
    /\ UNCHANGED <<sagas, steps, objs, runningSagas, pending>>

(* ctx is found done at the top of an iteration: no step runs any more. *)
Cancelled(e) ==
    /\ ex[e].pc = "forward" /\ ex[e].todo # <<>>
    /\ ex' = [ex EXCEPT ![e].pc = "fail"]
    /\ UNCHANGED <<sagas, steps, objs, runningSagas, pending>>

Succeed(e) ==
    /\ ex[e].pc = "forward" /\ ex[e].todo = <<>>
    /\ ex' = [ex EXCEPT ![e] = [@ EXCEPT !.pc = "end", !.status = "success"]]
    /\ UNCHANGED <<sagas, steps, objs, runningSagas, pending>>

(* Status becomes failed; todo is now what executeCompensations visits. *)
CompensateFrom(e) ==
    /\ ex[e].pc = "fail"
    /\ ex' = [ex EXCEPT ![e] = [@ EXCEPT !.pc = "comp", !.status = "failed",
                                         !.todo = SelectSeq(Reverse(ex[e].ok), LAMBDA s : s \notin NoComp)]]
    /\ UNCHANGED <<sagas, steps, objs, runningSagas, pending>>

(* executeCompensation of the next step; a failure goes on to the notes. *)
Compensate(e, ok) ==
    /\ ex[e].pc = "comp" /\ ex[e].todo # <<>>
    /\ ex' = [ex EXCEPT ![e] = [@ EXCEPT !.comp = Append(@, Head(ex[e].todo)), !.todo = Tail(@),
                                         !.pc = IF ok THEN "comp" ELSE "note"]]
    /\ UNCHANGED <<sagas, steps, objs, runningSagas, pending>>

(* The notes of a failed compensation are kept without c.mu, in two writes. *)
SetNeeds(e) ==
    /\ ex[e].pc = "note"
    /\ ex' = [ex EXCEPT ![e] = [@ EXCEPT !.needs = TRUE, !.pc = "note2"]]
    /\ UNCHANGED <<sagas, steps, objs, runningSagas, pending>>

AddNote(e) ==
    /\ ex[e].pc = "note2"
    /\ ex' = [ex EXCEPT ![e] = [@ EXCEPT !.notes = @ \cup {Last(ex[e].comp)}, !.pc = "publish"]]
    /\ UNCHANGED <<sagas, steps, objs, runningSagas, pending>>

Publish(e) ==
    /\ ex[e].pc = "publish"
    /\ pending' = pending \cup {<<e, Last(ex[e].comp), FALSE>>}
    /\ ex' = [ex EXCEPT ![e].pc = "comp"]
    /\ UNCHANGED <<sagas, steps, objs, runningSagas>>

Compensated(e) ==
    /\ ex[e].pc = "comp" /\ ex[e].todo = <<>>
    /\ ex' = [ex EXCEPT ![e].pc = "end"]
    /\ UNCHANGED <<sagas, steps, objs, runningSagas, pending>>

(* The deferred delete when Execute returns. *)
SagaFinish(e) ==
    /\ ex[e].pc = "end"
    /\ ex' = [ex EXCEPT ![e].pc = "done"]
    /\ runningSagas' = runningSagas \ {ex[e].id}
    /\ UNCHANGED <<sagas, steps, objs, pending>>

ResolveIntervention(e, s) ==
    /\ <<e, s, FALSE>> \in pending
    /\ pending' = (pending \ {<<e, s, FALSE>>}) \cup {<<e, s, TRUE>>}
    /\ ex' = [ex EXCEPT ![e].needs = @ /\ ~ (\A n \in ex[e].notes : <<e, n, TRUE>> \in pending')]
    /\ UNCHANGED <<sagas, steps, objs, runningSagas>>

SagaNext ==
    \/ \E i \in Id : NewSaga(i) \/ RemoveSaga(i) \/ \E e \in Exec : Begin(e, i)
    \/ \E o \in 1 .. MaxObj, s \in Step : AddStep(o, s)
    \/ \E e \in Exec :
          \/ Range1(e) \/ Cancelled(e) \/ Succeed(e) \/ CompensateFrom(e) \/ SetNeeds(e)
          \/ AddNote(e) \/ Publish(e) \/ Compensated(e) \/ SagaFinish(e)
          \/ \E ok \in BOOLEAN : Forward(e, ok) \/ Compensate(e, ok)
          \/ \E s \in Step : ResolveIntervention(e, s)

SagaSpec == SagaInit /\ [][SagaNext]_sagaVars

-----------------------------------------------------------------------------
SagaTypeOK ==
    /\ sagas \in [Id -> 0 .. MaxObj] /\ objs \in 0 .. MaxObj
    /\ \A o \in 1 .. MaxObj : ToSet(steps[o]) \subseteq Step
    /\ runningSagas \subseteq Id
    /\ \A e \in Exec : ex[e].status \in {"pending", "running", "failed", "success"} /\ ex[e].needs \in BOOLEAN
    /\ pending \subseteq Exec \X Step \X BOOLEAN

Active(e) == ex[e].pc \notin {"idle", "done"}

(* Two executions of one saga id never overlap, also when the saga is       *)
(* removed and registered again while the first one runs.                   *)
OneRunAtATime == \A d, e \in Exec : Active(d) /\ Active(e) /\ ex[d].id = ex[e].id => d = e

(* A failed execution that has ended compensated exactly the steps that had *)
(* succeeded and can be undone, last one first, whatever failed on the way, *)
(* and never the step that failed.                                          *)
UndoneBackwards ==
    \A e \in Exec : ex[e].pc \in {"end", "done"} /\ ex[e].status = "failed" =>
        /\ ex[e].comp = SelectSeq(Reverse(ex[e].ok), LAMBDA s : s \notin NoComp)
        /\ ex[e].failed \cap ToSet(ex[e].comp) = {}

(* A compensation that failed in an ended execution is on the list of       *)
(* interventions, open or resolved.                                         *)
FailureIsListed ==
    \A e \in Exec : ex[e].pc \in {"comp", "end", "done"} =>
        \A s \in ex[e].notes : \E r \in BOOLEAN : <<e, s, r>> \in pending
=============================================================================
