----------------------------- MODULE Deadlines ------------------------------
(*****************************************************************************)
(* What runs against a clock: the certificates of certrotator, the chains    *)
(* of timeoutprop and the shutdown of graceful. The parts share no state;    *)
(* each has its own specification.                                           *)
(*****************************************************************************)
EXTENDS Integers, FiniteSets, Functions, Sequences, SequencesExt

(***************************************************************************)
(* certrotator: the monitor renews the active certificate, connections are *)
(* tracked under theirs, and one goroutine per replaced certificate waits  *)
(* for its connections.  The issuer (external) never repeats a serial      *)
(* number, and answers or fails within IssueTime.                          *)
(***************************************************************************)

CONSTANTS
    Conn,
    Validity,                   \* of an issued certificate
    RenewalBuffer, CheckInterval, RetirementTimeout,
    IssueTime,
    CertMaxTime, MaxCerts,          \* bounds
    MaxFails                    \* issues that fail

VARIABLES
    certNow, due,                   \* the clock; when the ticker of monitorLoop fires
    issued, notAfter,           \* certificates so far, and when each expires
    activeCert, pendingCert,
    renewer,                    \* per caller of renewCertificate: its step and when it began
    fails,
    retirer,                    \* waitForRetirement of a certificate: its step
    certDeadline,
    connections,                \* per certificate
    conn, cert,                 \* per connection: what became of it, and its certificate
    toClose,
    late,                       \* connections tracked after their certificate was replaced
    certClosed                  \* Close: "no", "waiting", "done"

certs == <<issued, notAfter, activeCert, pendingCert>>
conns == <<connections, conn, cert, late>>
certVars == <<certNow, due, certs, renewer, fails, retirer, certDeadline, conns, toClose, certClosed>>

None == 0
Cert == 1 .. MaxCerts
Renewer == {"monitor", "caller"}
Resting == [step |-> "idle", since |-> 0]

CertInit ==
    /\ certNow = 0 /\ due = CheckInterval /\ issued = 1 /\ notAfter = [c \in Cert |-> Validity]
    /\ activeCert = 1 /\ pendingCert = None /\ renewer = [r \in Renewer |-> Resting] /\ fails = 0
    /\ retirer = [c \in Cert |-> "none"] /\ certDeadline = [c \in Cert |-> 0]
    /\ connections = [c \in Cert |-> {}] /\ conn = [k \in Conn |-> "new"] /\ cert = [k \in Conn |-> None]
    /\ toClose = [c \in Cert |-> {}] /\ late = {} /\ certClosed = "no"

NeedsRenewal == certNow > notAfter[activeCert] - RenewalBuffer
(* checkAndRenew; a tick that comes while the monitor is busy waits for it *)
CheckAndRenew ==
    /\ renewer["monitor"].step = "idle" /\ certClosed = "no" /\ certNow >= due
    /\ due' = due + CheckInterval * ((certNow - due) \div CheckInterval + 1)
    /\ renewer' = IF NeedsRenewal THEN [renewer EXCEPT !["monitor"] = [step |-> "issue", since |-> certNow]] ELSE renewer
    /\ UNCHANGED <<certNow, certs, fails, retirer, certDeadline, conns, toClose, certClosed>>
ForceRenew ==
    /\ renewer["caller"].step = "idle" /\ certClosed = "no" /\ issued < MaxCerts
    /\ renewer' = [renewer EXCEPT !["caller"] = [step |-> "issue", since |-> certNow]]
    /\ UNCHANGED <<certNow, due, certs, fails, retirer, certDeadline, conns, toClose, certClosed>>

(* renewCertificate: what the issuer made is valid and becomes pending *)
RenewCertificate(r) ==
    /\ renewer[r].step = "issue" /\ issued < MaxCerts
    /\ issued' = issued + 1 /\ pendingCert' = issued'
    /\ \E t \in renewer[r].since .. certNow : notAfter' = [notAfter EXCEPT ![issued'] = t + Validity]
    /\ renewer' = [renewer EXCEPT ![r].step = IF r = "monitor" THEN "switch" ELSE "idle"]
    /\ UNCHANGED <<certNow, due, activeCert, fails, retirer, certDeadline, conns, toClose, certClosed>>
RenewalFails(r) ==
    /\ renewer[r].step = "issue" /\ (fails < MaxFails \/ certClosed # "no")
    /\ fails' = IF certClosed = "no" THEN fails + 1 ELSE fails
    /\ renewer' = [renewer EXCEPT ![r] = Resting]
    /\ UNCHANGED <<certNow, due, certs, retirer, certDeadline, conns, toClose, certClosed>>

Deadline == certNow + RetirementTimeout
(* switchToPendingCert and startRetirement *)
SwitchToPendingCert ==
    IF pendingCert = None THEN UNCHANGED <<activeCert, pendingCert, retirer, certDeadline>>
    ELSE /\ activeCert' = pendingCert /\ pendingCert' = None
         /\ retirer' = [retirer EXCEPT ![activeCert] = "wait"]
         /\ certDeadline' = [certDeadline EXCEPT ![activeCert] = Deadline]
MonitorSwitches ==
    /\ renewer["monitor"].step = "switch" /\ SwitchToPendingCert
    /\ renewer' = [renewer EXCEPT !["monitor"] = Resting]
    /\ UNCHANGED <<certNow, due, issued, notAfter, fails, conns, toClose, certClosed>>
(* a pending certificate is not validated again: the caller does not switch *)
(* to one that is itself due for renewal                                    *)
ForceSwitch ==
    /\ pendingCert # None /\ certNow <= notAfter[pendingCert] - RenewalBuffer /\ SwitchToPendingCert
    /\ UNCHANGED <<certNow, due, issued, notAfter, renewer, fails, conns, toClose, certClosed>>

(* GetCertificate in a handshake, TrackConnection after it, and what that returns *)
GetCertificate(k) ==
    /\ conn[k] = "new" /\ conn' = [conn EXCEPT ![k] = "greeted"] /\ cert' = [cert EXCEPT ![k] = activeCert]
    /\ UNCHANGED <<certNow, due, certs, renewer, fails, retirer, certDeadline, connections, toClose, late, certClosed>>
TrackConnection(k) ==
    /\ conn[k] = "greeted" /\ conn' = [conn EXCEPT ![k] = "open"]
    /\ connections' = [connections EXCEPT ![cert[k]] = @ \cup {k}]
    /\ late' = IF cert[k] = activeCert /\ certClosed # "done" THEN late ELSE late \cup {k}
    /\ UNCHANGED <<certNow, due, certs, renewer, fails, retirer, certDeadline, cert, toClose, certClosed>>
Untrack(k) ==
    /\ conn[k] = "open" /\ conn' = [conn EXCEPT ![k] = "ended"]
    /\ connections' = [connections EXCEPT ![cert[k]] = @ \ {k}]
    /\ UNCHANGED <<certNow, due, certs, renewer, fails, retirer, certDeadline, cert, toClose, late, certClosed>>

Cut(S) == [k \in Conn |-> IF k \in S /\ conn[k] = "open" THEN "cut" ELSE conn[k]]

IsUnusedSlip(c) == TRUE
IsUnused(c) == connections[c] = {}
Overdue(c) == certNow > certDeadline[c]
(* a tick of waitForRetirement *)
Poll(c) ==
    /\ retirer[c] = "wait"
    /\ retirer' = [retirer EXCEPT ![c] = IF IsUnused(c) THEN "forget" ELSE IF Overdue(c) THEN "force" ELSE "wait"]
    /\ UNCHANGED <<certNow, due, certs, renewer, fails, certDeadline, conns, toClose, certClosed>>
Cancelled(c) ==
    /\ retirer[c] = "wait" /\ certClosed # "no" /\ retirer' = [retirer EXCEPT ![c] = "force"]
    /\ UNCHANGED <<certNow, due, certs, renewer, fails, certDeadline, conns, toClose, certClosed>>
(* CloseConnections: collects them under the lock, closes them without it,  *)
(* and drops what the map holds by then                                     *)
Collect(c) ==
    /\ retirer[c] = "force" /\ retirer' = [retirer EXCEPT ![c] = "close"]
    /\ toClose' = [toClose EXCEPT ![c] = connections[c]]
    /\ UNCHANGED <<certNow, due, certs, renewer, fails, certDeadline, conns, certClosed>>
CloseConnections(c) ==
    /\ retirer[c] = "close" /\ retirer' = [retirer EXCEPT ![c] = "forget"]
    /\ conn' = Cut(toClose[c]) /\ connections' = [connections EXCEPT ![c] = {}]
    /\ toClose' = [toClose EXCEPT ![c] = {}]
    /\ UNCHANGED <<certNow, due, certs, renewer, fails, certDeadline, cert, late, certClosed>>
(* the end of completeRetirement and forceRetire *)
Forget(c) ==
    /\ retirer[c] = "forget" /\ retirer' = [retirer EXCEPT ![c] = "retired"]
    /\ connections' = [connections EXCEPT ![c] = {}]
    /\ UNCHANGED <<certNow, due, certs, renewer, fails, certDeadline, conn, cert, toClose, late, certClosed>>

(* Close cancels, waits for the goroutines, and closes what is left *)
Close ==
    /\ certClosed = "no" /\ certClosed' = "waiting"
    /\ UNCHANGED <<certNow, due, certs, renewer, fails, retirer, certDeadline, conns, toClose>>
Quiet == renewer["monitor"].step = "idle" /\ \A c \in Cert : retirer[c] \in {"none", "retired"}
CloseReturns ==
    /\ certClosed = "waiting" /\ Quiet /\ certClosed' = "done"
    /\ conn' = Cut(UNION {connections[c] : c \in Cert}) /\ connections' = [c \in Cert |-> {}]
    /\ UNCHANGED <<certNow, due, certs, renewer, fails, retirer, certDeadline, cert, toClose, late>>

(* the ticker is served at once, the issuer and the switch in IssueTime *)
CertTick ==
    /\ certNow < CertMaxTime /\ certNow' = certNow + 1
    /\ certClosed = "no" /\ renewer["monitor"].step = "idle" => certNow < due
    /\ \A r \in Renewer : renewer[r].step # "idle" => certNow' <= renewer[r].since + IssueTime
    /\ UNCHANGED <<due, certs, renewer, fails, retirer, certDeadline, conns, toClose, certClosed>>

CertNext ==
    \/ CertTick \/ CheckAndRenew \/ ForceRenew \/ MonitorSwitches \/ ForceSwitch \/ Close \/ CloseReturns
    \/ \E r \in Renewer : RenewCertificate(r) \/ RenewalFails(r)
    \/ \E k \in Conn : GetCertificate(k) \/ TrackConnection(k) \/ Untrack(k)
    \/ \E c \in Cert : Poll(c) \/ Cancelled(c) \/ Collect(c) \/ CloseConnections(c) \/ Forget(c)

CertTypeOK ==
    /\ certNow \in 0 .. CertMaxTime /\ issued \in Cert /\ activeCert \in Cert /\ pendingCert \in Cert \cup {None}
    /\ \A c \in Cert : connections[c] \subseteq Conn /\ toClose[c] \subseteq Conn

(* The renewal buffer keeps the active certificate from expiring over        *)
(* MaxFails failed renewals in a row, with callers who renew and switch in   *)
(* between, if it is as long as their checks and one issue take.             *)
NeverExpired ==
    RenewalBuffer >= (MaxFails + 1) * CheckInterval + IssueTime /\ certClosed = "no" => certNow <= notAfter[activeCert]

(* The rotator cuts a connection only in Close, or when its certificate has  *)
(* been retiring for longer than the timeout; a connection it has not cut    *)
(* and that was tracked in time is still found under its certificate, so     *)
(* that none is left open when Close returns.                                *)
GraceStep ==
    \A k \in Conn : conn[k] = "open" /\ conn'[k] = "cut" =>
        certClosed # "no" \/ (cert[k] # activeCert /\ certNow > certDeadline[cert[k]])
GraceIsGiven == [][GraceStep]_certVars
OpenIsTracked == \A k \in Conn : conn[k] = "open" /\ k \notin late => k \in connections[cert[k]]

-----------------------------------------------------------------------------
(***************************************************************************)
(* timeoutprop: Execute runs the stages of a chain under one total timeout *)
(* and passes what a stage leaves of its budget on to the next.  Stage     *)
(* functions are external: they return, fail, or outlive their context.    *)
(***************************************************************************)

CONSTANTS
    Stages,             \* their number
    Budgets,            \* possible budgets; 0 is none of its own
    TotalTimeout, MinThreshold,
    ChainMaxTime             \* bound

VARIABLES
    chainNow, began,         \* the clock, and when Execute was called
    budget,             \* allocatedBudget per stage
    parent,             \* parentCtx is live
    step, i,            \* of Execute
    carryOver,
    start, chainDeadline,    \* of each stage
    status, reason,     \* StageStatus and TimeoutType of each stage
    success, failedStage,
    idle                \* time that passed between two stages

stage == <<start, chainDeadline, status, reason>>
chainVars == <<chainNow, began, budget, parent, step, i, carryOver, stage, success, failedStage, idle>>

Stage == 1 .. Stages
Sum(n) == FoldFunctionOnSet(+, 0, budget, 1 .. n)

Fresh ==
    /\ start = [k \in Stage |-> 0] /\ chainDeadline = [k \in Stage |-> 0]
    /\ status = [k \in Stage |-> "pending"] /\ reason = [k \in Stage |-> "none"]
ChainInit ==
    /\ chainNow = 0 /\ began = 0 /\ budget \in [Stage -> Budgets] /\ parent = FALSE /\ step = "new" /\ i = 1
    /\ carryOver = 0 /\ Fresh /\ success = TRUE /\ failedStage = 0 /\ idle = 0

(* Execute up to its loop: budgets that exceed the total are refused *)
Execute ==
    /\ step = "new" /\ began' = chainNow /\ idle' = 0 /\ i' = 1 /\ carryOver' = 0 /\ failedStage' = 0 /\ parent' = TRUE
    /\ IF Sum(Stages) > TotalTimeout THEN step' = "returned" /\ success' = FALSE ELSE step' = "next" /\ success' = TRUE
    /\ UNCHANGED <<chainNow, budget, stage>>

Expired == chainNow >= began + TotalTimeout
RootDone == ~ parent \/ Expired
Remaining == IF Expired THEN 0 ELSE began + TotalTimeout - chainNow

SkipTotal ==
    /\ step = "next" /\ i <= Stages /\ RootDone
    /\ status' = [status EXCEPT ![i] = "skipped"] /\ reason' = [reason EXCEPT ![i] = "total"]
    /\ success' = FALSE /\ failedStage' = (IF failedStage = 0 THEN i ELSE failedStage) /\ i' = i + 1
    /\ UNCHANGED <<chainNow, began, budget, parent, step, carryOver, start, chainDeadline, idle>>
SkipThreshold ==
    /\ step = "next" /\ i <= Stages /\ ~ RootDone /\ Remaining < MinThreshold
    /\ status' = [status EXCEPT ![i] = "skipped"] /\ reason' = [reason EXCEPT ![i] = "threshold"] /\ i' = i + 1
    /\ UNCHANGED <<chainNow, began, budget, parent, step, carryOver, start, chainDeadline, success, failedStage, idle>>

HasBudget == budget[i] > 0 \/ carryOver > 0
StageBudget == IF HasBudget /\ budget[i] + carryOver < Remaining THEN budget[i] + carryOver ELSE Remaining
StartStage ==
    /\ step = "next" /\ i <= Stages /\ ~ RootDone /\ Remaining >= MinThreshold
    /\ start' = [start EXCEPT ![i] = chainNow] /\ chainDeadline' = [chainDeadline EXCEPT ![i] = chainNow + StageBudget]
    /\ status' = [status EXCEPT ![i] = "running"] /\ step' = "running"
    /\ UNCHANGED <<chainNow, began, budget, parent, i, carryOver, reason, success, failedStage, idle>>

CarryOver == IF HasBudget THEN chainDeadline[i] - chainNow ELSE 0
(* the function returns without an error *)
Completes ==
    /\ step = "running" /\ carryOver' = CarryOver
    /\ status' = [status EXCEPT ![i] = "completed"] /\ step' = "next" /\ i' = i + 1
    /\ UNCHANGED <<chainNow, began, budget, parent, start, chainDeadline, reason, success, failedStage, idle>>

Skipped(k) == k > i
(* it returns an error or panics, or a context ends first: the rest is skipped *)
Breaks(as, why) ==
    /\ status' = [k \in Stage |-> IF k = i THEN as ELSE IF Skipped(k) THEN "skipped" ELSE status[k]]
    /\ reason' = [k \in Stage |-> IF k = i \/ Skipped(k) THEN why ELSE reason[k]]
    /\ success' = FALSE /\ failedStage' = (IF failedStage = 0 THEN i ELSE failedStage) /\ step' = "return"
    /\ UNCHANGED <<chainNow, began, budget, parent, i, carryOver, start, chainDeadline, idle>>
Fails == step = "running" /\ Breaks("failed", "none")
TimesOut ==
    /\ step = "running" /\ parent /\ chainNow >= chainDeadline[i]
    /\ Breaks("timedout", IF ~ HasBudget \/ Expired THEN "total" ELSE "budget")

Return ==
    /\ step = "return" \/ (step = "next" /\ i > Stages)
    /\ step' = "returned"
    /\ UNCHANGED <<chainNow, began, budget, parent, i, carryOver, stage, success, failedStage, idle>>
Reset ==
    /\ step = "returned" /\ step' = "new"
    /\ start' = [k \in Stage |-> 0] /\ chainDeadline' = [k \in Stage |-> 0]
    /\ status' = [k \in Stage |-> "pending"] /\ reason' = [k \in Stage |-> "none"]
    /\ UNCHANGED <<chainNow, began, budget, parent, i, carryOver, success, failedStage, idle>>

CancelParent ==
    /\ step \in {"next", "running"} /\ parent /\ parent' = FALSE
    /\ UNCHANGED <<chainNow, began, budget, step, i, carryOver, stage, success, failedStage, idle>>
(* Execute sees the end of a context at once *)
ChainTick ==
    /\ chainNow < ChainMaxTime /\ chainNow' = chainNow + 1
    /\ step = "running" => chainNow < chainDeadline[i] /\ parent
    /\ idle' = IF step \in {"next", "return"} THEN idle + 1 ELSE idle
    /\ UNCHANGED <<began, budget, parent, step, i, carryOver, stage, success, failedStage>>

ChainNext ==
    \/ Execute \/ SkipTotal \/ SkipThreshold \/ StartStage \/ Completes \/ Fails \/ TimesOut \/ Return \/ Reset
    \/ CancelParent \/ ChainTick

ChainTypeOK ==
    /\ chainNow \in 0 .. ChainMaxTime /\ i \in 1 .. Stages + 1 /\ carryOver \in 0 .. TotalTimeout /\ failedStage \in 0 .. Stages

(* However much the stages before it left over, a stage has no more time     *)
(* than the budgets up to its own add up to, and none beyond the total.      *)
BudgetsAddUp ==
    \A k \in Stage : status[k] \notin {"pending", "skipped"} =>
        /\ chainDeadline[k] <= began + TotalTimeout
        /\ (\A j \in 1 .. k : budget[j] > 0) => chainDeadline[k] <= began + Sum(k) + idle

(* When Execute has returned, every stage has an end of its own: all before  *)
(* the one that is reported completed or were skipped for want of time, and  *)
(* none ran after it.                                                        *)
StagesSettled ==
    step = "returned" /\ Sum(Stages) <= TotalTimeout =>
        /\ success = (failedStage = 0)
        /\ \A k \in Stage :
            status[k] \in IF failedStage = 0 \/ k < failedStage THEN {"completed", "skipped"}
                          ELSE IF k = failedStage THEN {"failed", "timedout", "skipped"} ELSE {"skipped"}

-----------------------------------------------------------------------------
(***************************************************************************)
(* graceful.Manager: requests are admitted until a shutdown starts; the    *)
(* shutdown stops admission, waits for requests in progress, then runs the *)
(* cleanup callbacks in reverse order of registration, all under a global  *)
(* timeout. Timers may run out at any moment.                              *)
(***************************************************************************)

CONSTANTS Req, Caller, Callback

VARIABLES
    state, phase, accepting, activeRequests,
    order,       \* callbackOrder; its elements are the keys of callbacks
    listener,    \* "none" (not started), "wait", "call" or "gone"
    trigger,     \* manualTriggerCh holds a token
    signal,      \* signalCh holds a signal
    shutdownClosed,   \* shutdownCh is closed
    req,         \* req[r]: where r is in BeginRequest ... EndRequest
    caller,      \* goroutines that call Shutdown or TriggerShutdown
    expired,     \* the global timeout has passed
    errors,      \* a phase reported an error
    todo, ran,   \* callbacks still to run; those run, with their outcome
    alive,       \* callback goroutines that have not returned
    report

req_ == <<activeRequests, req>>
cbs == <<order, todo, ran, alive>>
shutdownVars == <<state, phase, accepting, req_, cbs, listener, trigger, signal, shutdownClosed, caller, expired, errors, report>>

ShutdownInit ==
    /\ state = "running" /\ phase = "Init" /\ accepting = TRUE /\ activeRequests = 0
    /\ order = <<>>
    /\ listener = "none" /\ trigger = FALSE /\ signal = FALSE /\ shutdownClosed = FALSE
    /\ req = [r \in Req |-> "idle"]
    /\ caller = [c \in Caller |-> "idle"]
    /\ expired = FALSE /\ errors = FALSE
    /\ todo = <<>> /\ ran = <<>> /\ alive = {}
    /\ report = "none"

Start ==
    /\ state = "running" /\ listener = "none"
    /\ listener' = "wait"
    /\ UNCHANGED <<state, phase, accepting, req_, cbs, trigger, signal, shutdownClosed, caller, expired, errors, report>>

RegisterCallback(b) ==
    /\ state = "running" /\ b \notin ToSet(order)
    /\ order' = Append(order, b)
    /\ UNCHANGED <<state, phase, accepting, req_, listener, trigger, signal, shutdownClosed, caller, expired, errors, todo, ran, alive, report>>

(* Allowed in every state; callbacks already copied are skipped by then. *)
UnregisterCallback(b) ==
    /\ b \in ToSet(order)
    /\ order' = SelectSeq(order, LAMBDA x : x # b)
    /\ UNCHANGED <<state, phase, accepting, req_, listener, trigger, signal, shutdownClosed, caller, expired, errors, todo, ran, alive, report>>

(* BeginRequest: look, count, look again. *)
Open == accepting /\ state = "running"

ReqLook(r) ==
    /\ req[r] = "idle" /\ Open
    /\ req' = [req EXCEPT ![r] = "count"]
    /\ UNCHANGED <<state, phase, accepting, activeRequests, cbs, listener, trigger, signal, shutdownClosed, caller, expired, errors, report>>

ReqCount(r) ==
    /\ req[r] = "count"
    /\ activeRequests' = activeRequests + 1
    /\ req' = [req EXCEPT ![r] = "recheck"]
    /\ UNCHANGED <<state, phase, accepting, cbs, listener, trigger, signal, shutdownClosed, caller, expired, errors, report>>

ReqRecheck(r) ==
    /\ req[r] = "recheck"
    /\ req' = [req EXCEPT ![r] = IF Open THEN "in" ELSE "refuse"]
    /\ UNCHANGED <<state, phase, accepting, activeRequests, cbs, listener, trigger, signal, shutdownClosed, caller, expired, errors, report>>

(* The AddInt64(-1) of a refused request, or EndRequest. *)
ReqEnd(r) ==
    /\ req[r] \in {"in", "refuse"}
    /\ activeRequests' = activeRequests - 1
    /\ req' = [req EXCEPT ![r] = "over"]
    /\ UNCHANGED <<state, phase, accepting, cbs, listener, trigger, signal, shutdownClosed, caller, expired, errors, report>>

-----------------------------------------------------------------------------
(* TriggerShutdown: direct when no listener was started, else a token, or   *)
(* a wait for room in the channel or for shutdownCh.                        *)
TriggerShutdown(c) ==
    /\ caller[c] = "idle" /\ state = "running"
    /\ caller' = [caller EXCEPT ![c] = IF listener = "none" THEN "once" ELSE "push"]
    /\ UNCHANGED <<state, phase, accepting, req_, cbs, listener, trigger, signal, shutdownClosed, expired, errors, report>>

PushTrigger(c) ==
    /\ caller[c] = "push"
    /\ \/ ~ trigger /\ trigger' = TRUE
       \/ shutdownClosed /\ UNCHANGED trigger
    /\ caller' = [caller EXCEPT ![c] = "idle"]
    /\ UNCHANGED <<state, phase, accepting, req_, cbs, listener, signal, shutdownClosed, expired, errors, report>>

(* Shutdown: a caller that saw StateRunning goes on to shutdownOnce.Do. *)
Shutdown(c) ==
    /\ caller[c] = "idle" /\ state = "running"
    /\ caller' = [caller EXCEPT ![c] = "once"]
    /\ UNCHANGED <<state, phase, accepting, req_, cbs, listener, trigger, signal, shutdownClosed, expired, errors, report>>

SignalArrives ==
    /\ listener = "wait" /\ ~ shutdownClosed /\ ~ signal
    /\ signal' = TRUE
    /\ UNCHANGED <<state, phase, accepting, req_, cbs, listener, trigger, shutdownClosed, caller, expired, errors, report>>

ListenerWakes ==
    /\ listener = "wait"
    /\ \/ signal /\ signal' = FALSE /\ UNCHANGED trigger
          /\ listener' = IF state = "running" THEN "call" ELSE "gone"
       \/ trigger /\ trigger' = FALSE /\ UNCHANGED signal
          /\ listener' = IF state = "running" THEN "call" ELSE "gone"
       \/ shutdownClosed /\ listener' = "gone" /\ UNCHANGED <<signal, trigger>>
    /\ UNCHANGED <<state, phase, accepting, req_, cbs, shutdownClosed, caller, expired, errors, report>>

(* The first goroutine inside Do; the others wait for it to finish. *)
OnceFirst ==
    /\ ~ shutdownClosed /\ state = "running"
    /\ listener = "call" \/ \E c \in Caller : caller[c] = "once"
    /\ state' = "shuttingDown"
    /\ shutdownClosed' = TRUE
    /\ phase' = "StopAccepting"
    /\ UNCHANGED <<accepting, req_, cbs, listener, trigger, signal, caller, expired, errors, report>>

OnceReturns ==
    /\ state = "completed"
    /\ \/ listener = "call" /\ listener' = "gone" /\ UNCHANGED caller
       \/ \E c \in Caller : caller[c] = "once" /\ caller' = [caller EXCEPT ![c] = "idle"] /\ UNCHANGED listener
    /\ UNCHANGED <<state, phase, accepting, req_, cbs, trigger, signal, shutdownClosed, expired, errors, report>>

GlobalTimeout ==
    /\ state = "shuttingDown" /\ ~ expired
    /\ expired' = TRUE
    /\ UNCHANGED <<state, phase, accepting, req_, cbs, listener, trigger, signal, shutdownClosed, caller, errors, report>>

(* phaseStopAccepting: admission ends; then wait for the requests, at most  *)
(* until its own deadline, which is no error.                               *)
StopAccepting ==
    /\ phase = "StopAccepting" /\ accepting
    /\ accepting' = FALSE
    /\ UNCHANGED <<state, phase, req_, cbs, listener, trigger, signal, shutdownClosed, caller, expired, errors, report>>

Forced ==
    /\ phase' = "Forced" /\ report' = "forced"
    /\ state' = "completed"


StopAcceptingEnds ==
    /\ phase = "StopAccepting" /\ ~ accepting
    /\ IF expired THEN Forced ELSE phase' = "WaitRequests" /\ UNCHANGED <<state, report>>
    /\ UNCHANGED <<accepting, req_, cbs, listener, trigger, signal, shutdownClosed, caller, expired, errors>>

(* phaseWaitRequests sees no active request at a tick, or times out. The    *)
(* callback phase then copies the order.                                    *)
WaitRequestsEnds(timedOut) ==
    /\ phase = "WaitRequests"
    /\ timedOut \/ activeRequests = 0
    /\ errors' = (errors \/ timedOut)
    /\ IF expired THEN Forced /\ UNCHANGED todo
       ELSE /\ phase' = "ExecuteCallbacks"
            /\ todo' = order
            /\ UNCHANGED <<state, report>>
    /\ UNCHANGED <<accepting, req_, order, ran, alive, listener, trigger, signal, shutdownClosed, caller, expired>>

NoneRuns == \A k \in 1 .. Len(ran) : ran[k][2] # "running"

(* phaseExecuteCallbacks, last registered first. *)
StartCallback ==
    /\ phase = "ExecuteCallbacks" /\ todo # <<>> /\ ~ expired
    /\ NoneRuns
    /\ todo' = Front(todo)
    /\ IF Last(todo) \in ToSet(order)
       THEN /\ alive' = alive \cup {Last(todo)}
            /\ ran' = Append(ran, <<Last(todo), "running">>)
       ELSE UNCHANGED <<alive, ran>>
    /\ UNCHANGED <<state, phase, accepting, req_, order, listener, trigger, signal, shutdownClosed, caller, expired, errors, report>>

Outcome(o) == ran' = [ran EXCEPT ![Len(ran)][2] = o]

Current(b) == ran # <<>> /\ Last(ran) = <<b, "running">>

(* The callback's goroutine returns, with or without an error or panic. *)
CallbackReturns(b, ok) ==
    /\ b \in alive
    /\ alive' = alive \ {b}
    /\ IF Current(b) THEN Outcome(IF ok THEN "ok" ELSE "failed") ELSE UNCHANGED ran
    /\ UNCHANGED <<state, phase, accepting, req_, order, todo, listener, trigger, signal, shutdownClosed, caller, expired, errors, report>>

(* cbCtx is done first: the goroutine is left running. *)
CallbackTimeout(b) ==
    /\ Current(b)
    /\ Outcome("timedOut")
    /\ UNCHANGED <<state, phase, accepting, req_, order, todo, alive, listener, trigger, signal, shutdownClosed, caller, expired, errors, report>>

AllOk == \A k \in 1 .. Len(ran) : ran[k][2] = "ok"


(* The end of the loop and of runShutdownPhases. When the global timeout is *)
(* found, the callbacks left over are reported as timed out.                *)
CallbacksEnd ==
    /\ phase = "ExecuteCallbacks"
    /\ NoneRuns
    /\ IF expired THEN Forced
       ELSE /\ todo = <<>>
            /\ phase' = "Complete" /\ state' = "completed"
            /\ report' = IF ~ errors /\ AllOk THEN "success" ELSE "failure"
    /\ UNCHANGED <<accepting, req_, cbs, listener, trigger, signal, shutdownClosed, caller, expired, errors>>

Phases ==
    \/ StopAccepting \/ StopAcceptingEnds \/ StartCallback \/ CallbacksEnd
    \/ \E timedOut \in BOOLEAN : WaitRequestsEnds(timedOut)
    \/ \E b \in Callback : CallbackTimeout(b)

ShutdownNext ==
    \/ Start \/ SignalArrives \/ ListenerWakes \/ OnceFirst \/ OnceReturns \/ GlobalTimeout \/ Phases
    \/ \E b \in Callback : RegisterCallback(b) \/ UnregisterCallback(b) \/ \E ok \in BOOLEAN : CallbackReturns(b, ok)
    \/ \E r \in Req : ReqLook(r) \/ ReqCount(r) \/ ReqRecheck(r) \/ ReqEnd(r)
    \/ \E c \in Caller : TriggerShutdown(c) \/ PushTrigger(c) \/ Shutdown(c)

ShutdownSpec == ShutdownInit /\ [][ShutdownNext]_shutdownVars

(* The goroutines of the shutdown run and their timers fire; requests and   *)
(* callbacks owe nothing.                                                   *)
ShutdownFairSpec ==
    /\ ShutdownSpec
    /\ WF_shutdownVars(Phases) /\ WF_shutdownVars(OnceFirst) /\ WF_shutdownVars(ListenerWakes)
    /\ WF_shutdownVars(OnceReturns)
    /\ \A c \in Caller : WF_shutdownVars(PushTrigger(c))

-----------------------------------------------------------------------------
ShutdownTypeOK ==
    /\ state \in {"running", "shuttingDown", "completed"}
    /\ phase \in {"Init", "StopAccepting", "WaitRequests", "ExecuteCallbacks", "Complete", "Forced"}
    /\ activeRequests \in 0 .. Cardinality(Req)
    /\ listener \in {"none", "wait", "call", "gone"}
    /\ report \in {"none", "forced", "success", "failure"}
    /\ ToSet(order) \subseteq Callback /\ ToSet(todo) \subseteq Callback /\ alive \subseteq Callback

(* Unless the wait timed out, no admitted request is in progress once the   *)
(* callbacks start: a request that was counted late is refused.             *)
DrainedBeforeCallbacks ==
    phase \in {"ExecuteCallbacks", "Complete"} /\ ~ errors => \A r \in Req : req[r] # "in"

(* A report of success means that nothing is left behind: every callback    *)
(* that was run returned without error and no callback goroutine runs on.   *)
SuccessIsQuiet == report = "success" => alive = {} /\ AllOk

(* Callbacks run in the reverse of the order in which they were registered. *)
ReverseOrder ==
    phase = "ExecuteCallbacks" =>
        \A j, k \in 1 .. Len(ran) : \A x, y \in 1 .. Len(order) :
            j < k /\ order[x] = ran[j][1] /\ order[y] = ran[k][1] => y < x

(* A shutdown that has been asked for completes, whatever the requests and  *)
(* callbacks do.                                                            *)
NotShuttingDown == state # "shuttingDown" /\ ~ (trigger /\ listener = "wait")

ShutdownCompletes == []<>NotShuttingDown
=============================================================================
