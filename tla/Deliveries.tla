----------------------------- MODULE Deliveries -----------------------------
(*****************************************************************************)
(* Deliveries that may fail: the queues of deadletter and the retries of     *)
(* webhook. The parts share no state; each has its own specification.        *)
(*****************************************************************************)
EXTENDS Integers, FiniteSets

(***************************************************************************)
(* deadletter.Processor: failed messages are retried after a delay by a    *)
(* loop that starts one goroutine per attempt, until they are processed or *)
(* have used up their retries; an alert fires when many are pending.       *)
(* Delays are abstract: a pending message may be due at any moment.        *)
(***************************************************************************)

CONSTANTS
    Msg, LetterMaxRetries, AlertThreshold,
    MaxManual    \* bound on RetryMessage calls per message

VARIABLES
    letterRunning, stopping,
    messages,    \* ids in the map
    letterStatus, retryCount,
    letterLoop, letterWoken, alertFired,
    handlers,    \* handlers[m]: processMessage goroutines for m
    used,        \* ids handed out (generateID never repeats one)
    attempts, manual   \* attempts started, RetryMessage calls

state == <<messages, letterStatus, retryCount>>
ghost == <<used, attempts, manual>>
letterVars == <<letterRunning, stopping, state, letterLoop, letterWoken, alertFired, handlers, ghost>>

LetterInit ==
    /\ letterRunning = FALSE /\ stopping = FALSE
    /\ messages = {}
    /\ letterStatus = [m \in Msg |-> "processed"]
    /\ retryCount = [m \in Msg |-> 0]
    /\ letterLoop = "off" /\ letterWoken = FALSE
    /\ alertFired = FALSE
    /\ handlers = [m \in Msg |-> 0]
    /\ used = {}
    /\ attempts = [m \in Msg |-> 0] /\ manual = [m \in Msg |-> 0]

Open(M, st) == {m \in M : st[m] \in {"pending", "retrying"}}

(* checkAlertThreshold, once messages and status have their new values. *)
CheckAlert ==
    alertFired' = (Cardinality(Open(messages', letterStatus')) >= AlertThreshold)

LetterStart ==
    /\ ~ letterRunning /\ ~ stopping
    /\ letterRunning' = TRUE
    /\ letterLoop' = "top" /\ letterWoken' = FALSE
    /\ UNCHANGED <<stopping, state, alertFired, handlers, ghost>>

LetterStop ==
    /\ letterRunning
    /\ letterRunning' = FALSE /\ stopping' = TRUE /\ letterWoken' = TRUE
    /\ UNCHANGED <<state, letterLoop, alertFired, handlers, ghost>>

StopReturns ==
    /\ stopping /\ letterLoop = "off" /\ \A m \in Msg : handlers[m] = 0
    /\ stopping' = FALSE
    /\ UNCHANGED <<letterRunning, state, letterLoop, letterWoken, alertFired, handlers, ghost>>

MoveToDeadLetter(m) ==
    /\ letterRunning /\ m \notin used
    /\ used' = used \cup {m}
    /\ messages' = messages \cup {m}
    /\ letterStatus' = [letterStatus EXCEPT ![m] = "pending"]
    /\ letterWoken' = TRUE
    /\ CheckAlert
    /\ UNCHANGED <<letterRunning, stopping, retryCount, letterLoop, handlers, attempts, manual>>

(* Slip: removing a message does not reconsider the alert. *)
RemoveMessageSlip(m) ==
    /\ m \in messages
    /\ messages' = messages \ {m}
    /\ UNCHANGED <<letterRunning, stopping, letterStatus, retryCount, letterLoop, letterWoken, alertFired, handlers, ghost>>

RemoveMessage(m) ==
    /\ m \in messages
    /\ messages' = messages \ {m}
    /\ UNCHANGED letterStatus
    /\ CheckAlert
    /\ UNCHANGED <<letterRunning, stopping, retryCount, letterLoop, letterWoken, handlers, ghost>>

ClearPermanentlyFailed ==
    /\ \E m \in messages : letterStatus[m] = "failed"
    /\ messages' = {m \in messages : letterStatus[m] # "failed"}
    /\ UNCHANGED <<letterRunning, stopping, letterStatus, retryCount, letterLoop, letterWoken, alertFired, handlers, ghost>>

(* RetryMessage: also a message that is being retried becomes pending. *)
RetryMessage(m) ==
    /\ m \in messages /\ letterStatus[m] # "failed"
    /\ manual[m] < MaxManual
    /\ manual' = [manual EXCEPT ![m] = @ + 1]
    /\ letterStatus' = [letterStatus EXCEPT ![m] = "pending"]
    /\ letterWoken' = TRUE
    /\ UNCHANGED <<letterRunning, stopping, messages, retryCount, letterLoop, alertFired, handlers, used, attempts>>

(* One pass of runLoop; the due messages are any pending ones. *)
RunLoop ==
    /\ letterLoop = "top"
    /\ \/ /\ ~ letterRunning
          /\ letterLoop' = "off"
          /\ UNCHANGED <<letterStatus, letterWoken, handlers, attempts>>
       \/ /\ letterRunning
          /\ \E m \in messages :
                /\ letterStatus[m] = "pending"
                /\ letterStatus' = [letterStatus EXCEPT ![m] = "retrying"]
                /\ handlers' = [handlers EXCEPT ![m] = @ + 1]
                /\ attempts' = [attempts EXCEPT ![m] = @ + 1]
          /\ UNCHANGED <<letterLoop, letterWoken>>
       \/ /\ letterRunning
          /\ letterLoop' = "sleep" /\ letterWoken' = FALSE
          /\ UNCHANGED <<letterStatus, handlers, attempts>>
    /\ UNCHANGED <<letterRunning, stopping, messages, retryCount, alertFired, used, manual>>

(* Woken, or the timer of the earliest pending message has fired. *)
LoopWakes ==
    /\ letterLoop = "sleep"
    /\ letterWoken \/ \E m \in messages : letterStatus[m] = "pending"
    /\ letterLoop' = "top"
    /\ UNCHANGED <<letterRunning, stopping, state, letterWoken, alertFired, handlers, ghost>>

(* processMessage after the handler: the message is gone, done, or failed. *)
Done(m) == handlers' = [handlers EXCEPT ![m] = @ - 1]

HandlerOk(m) ==
    /\ handlers[m] > 0 /\ Done(m)
    /\ IF m \in messages
       THEN /\ messages' = messages \ {m}
            /\ letterStatus' = [letterStatus EXCEPT ![m] = "processed"]
            /\ CheckAlert
       ELSE UNCHANGED <<messages, letterStatus, alertFired>>
    /\ UNCHANGED <<letterRunning, stopping, retryCount, letterLoop, letterWoken, ghost>>


HandlerFails(m) ==
    /\ handlers[m] > 0 /\ Done(m)
    /\ IF m \notin messages THEN UNCHANGED <<letterStatus, retryCount, letterWoken, alertFired>>
       ELSE /\ retryCount' = [retryCount EXCEPT ![m] = @ + 1]
            /\ IF retryCount[m] + 1 > LetterMaxRetries
               THEN /\ letterStatus' = [letterStatus EXCEPT ![m] = "failed"]
                    /\ alertFired' = (Cardinality(Open(messages, letterStatus')) >= AlertThreshold)
                    /\ UNCHANGED letterWoken
               ELSE /\ letterStatus' = [letterStatus EXCEPT ![m] = "pending"]
                    /\ letterWoken' = TRUE
                    /\ UNCHANGED alertFired
    /\ UNCHANGED <<letterRunning, stopping, messages, letterLoop, ghost>>

LetterNext ==
    \/ LetterStart \/ LetterStop \/ StopReturns \/ RunLoop \/ LoopWakes \/ ClearPermanentlyFailed
    \/ \E m \in Msg :
          \/ MoveToDeadLetter(m) \/ RemoveMessage(m) \/ RetryMessage(m)
          \/ HandlerOk(m) \/ HandlerFails(m)

LetterSpec == LetterInit /\ [][LetterNext]_letterVars

-----------------------------------------------------------------------------
LetterTypeOK ==
    /\ letterRunning \in BOOLEAN /\ stopping \in BOOLEAN
    /\ messages \subseteq Msg /\ used \subseteq Msg
    /\ letterStatus \in [Msg -> {"pending", "retrying", "failed", "processed"}]
    /\ retryCount \in [Msg -> 0 .. LetterMaxRetries + MaxManual + 1]
    /\ letterLoop \in {"off", "top", "sleep"} /\ letterWoken \in BOOLEAN /\ alertFired \in BOOLEAN
    /\ handlers \in [Msg -> 0 .. MaxManual + 1]
    /\ attempts \in [Msg -> Nat] /\ manual \in [Msg -> 0 .. MaxManual]

(* The alert flag always tells whether the threshold is reached, though only *)
(* some of the operations that change the map reconsider it.                 *)
AlertMatches == alertFired = (Cardinality(Open(messages, letterStatus)) >= AlertThreshold)

(* A message is tried at most MaxRetries + 1 times, plus once for each call  *)
(* of RetryMessage, also when that call doubles an attempt under way.        *)
AttemptsBounded == \A m \in Msg : attempts[m] <= LetterMaxRetries + 1 + manual[m]

-----------------------------------------------------------------------------
(***************************************************************************)
(* webhook.Scheduler: triggers become pending deliveries, a dispatch loop  *)
(* pops the ones that are due and hands them to at most WorkerCount        *)
(* goroutines, failed deliveries are scheduled again after a delay. Stop   *)
(* lets the loop drain; WaitForResult waits for a callback's final result. *)
(***************************************************************************)

CONSTANTS
    Callback,
    Trigger,        \* identities of the Trigger calls
    Waiter,
    WorkerCount, HookMaxRetries,
    MaxStarts       \* bound on Start calls

VARIABLES
    hookRunning, starts,
    hookLoop,           \* dispatchLoop: "off", "top", "idle", "timed", "acquire" or
                    \* "acquireStop" (popped when already stopping)
    hookWoken,          \* the wakeCh (or stopCh) the loop holds is closed
    hookStatus,         \* Status of each callback
    of,             \* of[t]: the callback of a trigger, as a set
    job,            \* job[t]: where the trigger's current delivery is
    attempt, outcome,
    result,         \* callbacks with an entry in deliveryResults
    notify,         \* callbacks with a channel in notifyChan
    waiter,         \* "none", "checked", "waiting", "told" or "back"
    waitsFor

core == <<hookRunning, starts, hookLoop, hookWoken>>
jobs == <<hookStatus, of, job, attempt, outcome>>
waits == <<result, notify, waiter, waitsFor>>
hookVars == <<core, jobs, waits>>

(* A delivery is "later" or "due" in the heap, "held" by the loop that     *)
(* popped it, "exec" in its goroutine, "sent", "retry" (to be pushed),     *)
(* "final" (result to be stored), "stored" (waiters to be told) or "end".  *)
InHeap == {"later", "due"}
Active == {"exec", "sent", "final", "stored"}

HookInit ==
    /\ hookRunning = FALSE /\ starts = 0 /\ hookLoop = "off" /\ hookWoken = FALSE
    /\ hookStatus = [c \in Callback |-> "pending"]
    /\ of = [t \in Trigger |-> {}] /\ job = [t \in Trigger |-> "none"]
    /\ attempt = [t \in Trigger |-> 0] /\ outcome = [t \in Trigger |-> "none"]
    /\ result = {} /\ notify = {} /\ waiter = [w \in Waiter |-> "none"]
    /\ waitsFor = [w \in Waiter |-> {}]

heap == {t \in Trigger : job[t] \in InHeap}
active == {t \in Trigger : job[t] \in Active}

(* Start after Stop has seen the loop end. *)
HookStart ==
    /\ ~ hookRunning /\ hookLoop = "off" /\ starts < MaxStarts
    /\ hookRunning' = TRUE /\ starts' = starts + 1 /\ hookLoop' = "top" /\ hookWoken' = FALSE
    /\ UNCHANGED <<jobs, waits>>

HookStop ==
    /\ hookRunning /\ hookRunning' = FALSE /\ hookWoken' = TRUE
    /\ UNCHANGED <<starts, hookLoop, jobs, waits>>

TriggerWithData(t, c) ==
    /\ hookRunning /\ job[t] = "none" /\ hookStatus[c] # "cancelled"
    /\ of' = [of EXCEPT ![t] = {c}] /\ job' = [job EXCEPT ![t] = "due"] /\ hookWoken' = TRUE
    /\ UNCHANGED <<hookRunning, starts, hookLoop, hookStatus, attempt, outcome, waits>>

(* Cancel marks the callback; its result is stored by a second critical    *)
(* section, modelled with it, when there was none.                         *)
Cancel(c) ==
    /\ hookStatus[c] # "cancelled" /\ hookStatus' = [hookStatus EXCEPT ![c] = "cancelled"]
    /\ result' = result \cup {c} /\ notify' = IF c \in result THEN notify ELSE notify \ {c}
    /\ waiter' = [w \in Waiter |->
        IF c \notin result /\ waiter[w] = "waiting" /\ waitsFor[w] = {c} THEN "told" ELSE waiter[w]]
    /\ UNCHANGED <<core, of, job, attempt, outcome, waitsFor>>

-----------------------------------------------------------------------------
Drained == ~ hookRunning /\ heap = {} /\ active = {}

(* One look at the heap, under mu: end, wait for something, or pop the     *)
(* earliest delivery.                                                      *)
LoopTop ==
    /\ hookLoop = "top"
    /\ CASE Drained -> hookLoop' = "off" /\ UNCHANGED <<hookWoken, job>>
         [] ~ Drained /\ heap = {} -> /\ hookLoop' = IF hookRunning THEN "idle" ELSE "top"
                                      /\ hookWoken' = FALSE /\ UNCHANGED job
         [] ~ Drained /\ heap # {} /\ (\A t \in heap : job[t] = "later") ->
                hookLoop' = "timed" /\ hookWoken' = ~ hookRunning /\ UNCHANGED job
         [] OTHER -> \E t \in heap : /\ job[t] = "due" /\ job' = [job EXCEPT ![t] = "held"]
                                     /\ hookLoop' = IF hookRunning THEN "acquire" ELSE "acquireStop"
                                     /\ hookWoken' = FALSE
    /\ UNCHANGED <<hookRunning, starts, hookStatus, of, attempt, outcome, waits>>

LoopWoken ==
    /\ hookLoop \in {"idle", "timed"} /\ hookWoken
    /\ hookLoop' = "top" /\ hookWoken' = FALSE
    /\ UNCHANGED <<hookRunning, starts, jobs, waits>>

(* The delay of a delivery passes; a loop that waits for it goes on. *)
BecomesDue(t) ==
    /\ job[t] = "later" /\ job' = [job EXCEPT ![t] = "due"]
    /\ hookLoop' = IF hookLoop = "timed" THEN "top" ELSE hookLoop
    /\ UNCHANGED <<hookRunning, starts, hookWoken, hookStatus, of, attempt, outcome, waits>>

Acquire(t) ==
    /\ hookLoop \in {"acquire", "acquireStop"} /\ job[t] = "held" /\ Cardinality(active) < WorkerCount
    /\ job' = [job EXCEPT ![t] = "exec"] /\ hookLoop' = "top"
    /\ UNCHANGED <<hookRunning, starts, hookWoken, hookStatus, of, attempt, outcome, waits>>

(* While it waits for a slot the loop is woken and puts the delivery back; *)
(* a delivery popped after Stop waits for the slot alone.                  *)
PutBack(t) ==
    /\ hookLoop = "acquire" /\ job[t] = "held" /\ hookWoken
    /\ job' = [job EXCEPT ![t] = "due"] /\ hookLoop' = "top"
    /\ UNCHANGED <<hookRunning, starts, hookWoken, hookStatus, of, attempt, outcome, waits>>

-----------------------------------------------------------------------------
(* executeDelivery: the cancelled check and the request. *)
Execute(t, o) ==
    /\ job[t] = "exec"
    /\ \E c \in of[t] :
        IF hookStatus[c] = "cancelled"
        THEN job' = [job EXCEPT ![t] = "final"] /\ UNCHANGED <<attempt, outcome>>
        ELSE /\ attempt' = [attempt EXCEPT ![t] = @ + 1]
             /\ outcome' = [outcome EXCEPT ![t] = o]
             /\ job' = [job EXCEPT ![t] = "sent"]
    /\ UNCHANGED <<core, hookStatus, of, waits>>

(* The end of a request: the callback's status, and a retry or the result. *)
Sent(t) ==
    /\ job[t] = "sent"
    /\ \E c \in of[t] :
        CASE outcome[t] = "ok" ->
                /\ hookStatus' = [hookStatus EXCEPT ![c] = "succeeded"]
                /\ job' = [job EXCEPT ![t] = "final"] /\ UNCHANGED hookWoken
          [] outcome[t] # "ok" /\ attempt[t] > HookMaxRetries ->
                /\ hookStatus' = [hookStatus EXCEPT ![c] = "failed"]
                /\ job' = [job EXCEPT ![t] = "final"] /\ UNCHANGED hookWoken
          [] outcome[t] # "ok" /\ attempt[t] <= HookMaxRetries ->
                /\ IF hookStatus[c] = "cancelled"
                   THEN job' = [job EXCEPT ![t] = "final"] /\ UNCHANGED hookWoken
                   ELSE job' = [job EXCEPT ![t] = "later"] /\ hookWoken' = TRUE
                /\ UNCHANGED hookStatus
    /\ UNCHANGED <<hookRunning, starts, hookLoop, of, attempt, outcome, waits>>

(* markFinalResult: the result under mu, then the channel under notifyMu. *)
StoreResult(t) ==
    /\ job[t] = "final" /\ job' = [job EXCEPT ![t] = "stored"]
    /\ result' = result \cup of[t]
    /\ UNCHANGED <<core, hookStatus, of, attempt, outcome, notify, waiter, waitsFor>>

Notify(t) ==
    /\ job[t] = "stored" /\ job' = [job EXCEPT ![t] = "end"]
    /\ notify' = notify \ of[t]
    /\ waiter' = [w \in Waiter |->
        IF waiter[w] = "waiting" /\ waitsFor[w] \subseteq of[t] THEN "told" ELSE waiter[w]]
    /\ UNCHANGED <<core, hookStatus, of, attempt, outcome, result, waitsFor>>

(* WaitForResult: the look for a result and the wait on the channel are    *)
(* under different locks.                                                  *)
WaitForResult(w, c) ==
    /\ waiter[w] = "none" /\ \E t \in Trigger : c \in of[t]
    /\ waitsFor' = [waitsFor EXCEPT ![w] = {c}]
    /\ waiter' = [waiter EXCEPT ![w] = IF c \in result THEN "back" ELSE "checked"]
    /\ UNCHANGED <<core, jobs, result, notify>>

WaitOnChannel(w) ==
    /\ waiter[w] = "checked" /\ waiter' = [waiter EXCEPT ![w] = "waiting"]
    /\ notify' = notify \cup waitsFor[w]
    /\ UNCHANGED <<core, jobs, result, waitsFor>>

WaiterBack(w) ==
    /\ waiter[w] = "told" /\ waiter' = [waiter EXCEPT ![w] = "back"]
    /\ UNCHANGED <<core, jobs, result, notify, waitsFor>>

LoopStep == LoopTop \/ LoopWoken \/ \E t \in Trigger : Acquire(t) \/ PutBack(t)
WorkerStep(t) == (\E o \in {"ok", "failed", "timeout"} : Execute(t, o)) \/ Sent(t) \/ StoreResult(t) \/ Notify(t)
WaiterStep(w) == WaitOnChannel(w) \/ WaiterBack(w)

HookNext ==
    \/ HookStart \/ HookStop \/ LoopStep
    \/ \E c \in Callback : Cancel(c)
    \/ \E t \in Trigger : BecomesDue(t) \/ WorkerStep(t) \/ \E c \in Callback : TriggerWithData(t, c)
    \/ \E w \in Waiter : WaiterStep(w) \/ \E c \in Callback : WaitForResult(w, c)

HookSpec == HookInit /\ [][HookNext]_hookVars

(* The loop, the delivery goroutines and the waiters keep running, time    *)
(* passes, and a free slot is taken in the end although wake-ups compete   *)
(* with it in the select.                                                  *)
HookFairSpec ==
    /\ HookSpec /\ WF_hookVars(LoopStep)
    /\ \A t \in Trigger : WF_hookVars(WorkerStep(t)) /\ WF_hookVars(BecomesDue(t)) /\ SF_hookVars(Acquire(t))
    /\ \A w \in Waiter : WF_hookVars(WaiterStep(w))

-----------------------------------------------------------------------------
HookTypeOK ==
    /\ hookRunning \in BOOLEAN /\ hookLoop \in {"off", "top", "idle", "timed", "acquire", "acquireStop"}
    /\ hookStatus \in [Callback -> {"pending", "succeeded", "failed", "cancelled"}]
    /\ job \in [Trigger -> {"none", "later", "due", "held", "exec", "sent", "final", "stored", "end"}]
    /\ attempt \in [Trigger -> 0..(HookMaxRetries + 1)]
    /\ waiter \in [Waiter -> {"none", "checked", "waiting", "told", "back"}]

(* Stop drains: when the dispatch loop has ended, no delivery is pending,  *)
(* held or executing, retries scheduled during the stop included.          *)
DispatchDrains == hookLoop = "off" => \A t \in Trigger : job[t] \in {"none", "end"}

(* Every accepted trigger ends with a final result, however often the      *)
(* scheduler is woken, stopped or out of workers.                          *)
Settled(t) == job[t] \in {"none", "end"}

TriggerEnds == \A t \in Trigger : []<>Settled(t)

(* WaitForResult returns once the callback has its final result.           *)
Seen(w) == ~ (waiter[w] \in {"checked", "waiting"} /\ waitsFor[w] \subseteq result)

ResultIsSeen == \A w \in Waiter : []<>Seen(w)
=============================================================================
