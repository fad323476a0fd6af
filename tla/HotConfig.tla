----------------------------- MODULE HotConfig -----------------------------
(***************************************************************************)
(* internal/hotconfig: a configuration file that others write, the polling *)
(* and debouncing loops, loading under the mutex with up to three attempts *)
(* to read a file that stands still, and the callbacks, which run after    *)
(* the mutex was released. Contents in Alike have the same effect after    *)
(* defaults and validation; content in Unparsable is rejected.             *)
(***************************************************************************)
EXTENDS Integers, Sequences, FiniteSets, SequencesExt

CONSTANTS
    Contents, Alike, Unparsable, FailOnError,
    DebounceTicks,    \* polls that fit into DebounceTime
    Timers,           \* goroutines of time.AfterFunc
    MaxWrites, MaxCalls, MaxCallbacks   \* bounds

VARIABLES
    file,        \* [mtime, data]
    snapshot,    \* [data, version]; version 0 before the first load
    lastModTime,
    running,
    events,      \* 1 if an event waits in eventCh
    timer,       \* -1, or polls until the debounce timer fires
    act,         \* what each timer goroutine and the caller do
    callbacks, callbackIDs, nextCBID,
    calls,
    outrun       \* the last attempt of a load read a file that was changing

vars == <<file, snapshot, lastModTime, running, events, timer, act, callbacks, callbackIDs, nextCBID, calls, outrun>>

Caller == "caller"
Actors == Timers \cup {Caller}
Idle == [pc |-> "idle", how |-> "none", n |-> 0, pre |-> 0, data |-> "none", old |-> 0, new |-> 0, todo |-> <<>>]

(* ParseFile, ApplyDefaults and ValidateConfig. *)
Effective(d) == IF d \in Unparsable THEN "defaults" ELSE IF d \in Alike THEN "alike" ELSE d

Loading(a) == act[a].pc \in {"stat", "read", "post"}
Free == \A a \in Actors : ~ Loading(a)

-----------------------------------------------------------------------------
WriteFile(d) ==
    /\ file.mtime < MaxWrites
    /\ file' = [mtime |-> file.mtime + 1, data |-> d]
    /\ UNCHANGED <<snapshot, lastModTime, running, events, timer, act, callbacks, callbackIDs, nextCBID, calls, outrun>>

(* pollLoop and checkFileChange; a full channel drops the event. *)
PollTick ==
    /\ running /\ Free /\ timer # 0
    /\ timer' = IF timer > 0 THEN timer - 1 ELSE timer
    /\ events' = IF file.mtime > lastModTime THEN 1 ELSE events
    /\ UNCHANGED <<file, snapshot, lastModTime, running, act, callbacks, callbackIDs, nextCBID, calls, outrun>>

(* eventLoop: every event starts the timer anew. *)
Debounce ==
    /\ running /\ events = 1
    /\ events' = 0 /\ timer' = DebounceTicks
    /\ UNCHANGED <<file, snapshot, lastModTime, running, act, callbacks, callbackIDs, nextCBID, calls, outrun>>

(* The timer's goroutine waits for the mutex. *)
TimerFires(a) ==
    /\ timer = 0 /\ act[a] = Idle
    /\ timer' = -1 /\ act' = [act EXCEPT ![a].pc = "lock", ![a].how = "event"]
    /\ UNCHANGED <<file, snapshot, lastModTime, running, events, callbacks, callbackIDs, nextCBID, calls, outrun>>

Call(how) ==
    /\ act[Caller] = Idle /\ calls < MaxCalls /\ calls' = calls + 1
    /\ act' = [act EXCEPT ![Caller].pc = "lock", ![Caller].how = how]
    /\ UNCHANGED <<file, snapshot, lastModTime, running, events, timer, callbacks, callbackIDs, nextCBID, outrun>>

(* The mutex is taken: processEvent gives up when stopped, Start loads      *)
(* only without a snapshot.                                                 *)
Begin(a) ==
    /\ act[a].pc = "lock" /\ Free
    /\ LET how == act[a].how
           skip == (how = "event" /\ ~ running) \/ (how = "start" /\ (running \/ snapshot.version > 0))
       IN /\ act' = [act EXCEPT ![a] = IF skip THEN Idle ELSE [@ EXCEPT !.pc = "stat", !.n = 1, !.old = snapshot.version]]
          /\ running' = (running \/ (how = "start" /\ snapshot.version > 0))
    /\ UNCHANGED <<file, snapshot, lastModTime, events, timer, callbacks, callbackIDs, nextCBID, calls, outrun>>

Stat(a) ==
    /\ act[a].pc = "stat"
    /\ act' = [act EXCEPT ![a].pc = "read", ![a].pre = file.mtime]
    /\ UNCHANGED <<file, snapshot, lastModTime, running, events, timer, callbacks, callbackIDs, nextCBID, calls, outrun>>

ReadFile(a) ==
    /\ act[a].pc = "read"
    /\ act' = [act EXCEPT ![a].pc = "post", ![a].data = file.data]
    /\ UNCHANGED <<file, snapshot, lastModTime, running, events, timer, callbacks, callbackIDs, nextCBID, calls, outrun>>

Retry(a) == act[a].pre # file.mtime /\ act[a].n < 3

(* The second stat: once more, or parse, apply defaults, validate and store *)
(* what changed; a caller that notifies takes a copy of the callbacks.      *)
Post(a) ==
    /\ act[a].pc = "post"
    /\ LET d == act[a].data
           first == snapshot.version = 0
           reject == d \in Unparsable /\ (FailOnError \/ ~ first)
           value == Effective(d)
           changed == ~ reject /\ (first \/ snapshot.data # value)
           notify == changed /\ act[a].how \in {"event", "reload"} /\ callbacks # <<>>
       IN IF Retry(a)
          THEN act' = [act EXCEPT ![a].pc = "stat", ![a].n = @ + 1] /\ UNCHANGED <<snapshot, lastModTime, running, outrun>>
          ELSE /\ snapshot' = IF changed THEN [data |-> value, version |-> snapshot.version + 1] ELSE snapshot
               /\ lastModTime' = IF reject THEN lastModTime ELSE file.mtime
               /\ outrun' = IF reject THEN outrun ELSE act[a].n = 3 /\ act[a].pre # file.mtime
               /\ running' = (running \/ (act[a].how = "start" /\ ~ reject))
               /\ act' = [act EXCEPT ![a] = IF notify THEN [Idle EXCEPT !.pc = "notify", !.old = act[a].old,
                                                            !.new = snapshot.version + 1, !.todo = callbacks]
                                            ELSE Idle]
    /\ UNCHANGED <<file, events, timer, callbacks, callbackIDs, nextCBID, calls>>

(* One callback, outside of the mutex. *)
Notify(a) ==
    /\ act[a].pc = "notify"
    /\ act' = [act EXCEPT ![a] = IF Len(@.todo) = 1 THEN Idle ELSE [@ EXCEPT !.todo = Tail(@)]]
    /\ UNCHANGED <<file, snapshot, lastModTime, running, events, timer, callbacks, callbackIDs, nextCBID, calls, outrun>>

(* Stop ends the loops and the timer; goroutines of the timer go on. *)
Stop ==
    /\ Free /\ running /\ running' = FALSE /\ timer' = -1
    /\ UNCHANGED <<file, snapshot, lastModTime, events, act, callbacks, callbackIDs, nextCBID, calls, outrun>>

RegisterCallback ==
    /\ Free /\ nextCBID < MaxCallbacks
    /\ nextCBID' = nextCBID + 1 /\ callbacks' = Append(callbacks, nextCBID + 1)
    /\ callbackIDs' = [i \in DOMAIN callbackIDs \cup {nextCBID + 1} |->
                         IF i \in DOMAIN callbackIDs THEN callbackIDs[i] ELSE Len(callbacks) + 1]
    /\ UNCHANGED <<file, snapshot, lastModTime, running, events, timer, act, calls, outrun>>

(* The places behind the removed callback move down. *)
Shifted(p, gone) == IF p > gone THEN p - 1 ELSE p

UnregisterCallback(id) ==
    /\ Free /\ id \in DOMAIN callbackIDs
    /\ callbacks' = RemoveAt(callbacks, callbackIDs[id])
    /\ callbackIDs' = [i \in DOMAIN callbackIDs \ {id} |-> Shifted(callbackIDs[i], callbackIDs[id])]
    /\ UNCHANGED <<file, snapshot, lastModTime, running, events, timer, act, nextCBID, calls, outrun>>

Init ==
    /\ file \in [mtime : {1}, data : Contents]
    /\ snapshot = [data |-> "none", version |-> 0] /\ lastModTime = 0 /\ running = FALSE
    /\ events = 0 /\ timer = -1 /\ act = [a \in Actors |-> Idle]
    /\ callbacks = <<>> /\ callbackIDs = <<>> /\ nextCBID = 0 /\ calls = 0 /\ outrun = FALSE

Watch == PollTick \/ Debounce \/ \E a \in Timers : TimerFires(a)

LoadStep(a) == Begin(a) \/ Stat(a) \/ ReadFile(a) \/ Post(a) \/ Notify(a)

Next ==
    \/ \E d \in Contents : WriteFile(d)
    \/ Watch \/ \E a \in Actors : LoadStep(a)
    \/ \E how \in {"load", "reload", "start"} : Call(how)
    \/ Stop \/ RegisterCallback \/ \E id \in 1 .. MaxCallbacks : UnregisterCallback(id)

(* The loops and timers of a started watcher run on. *)
Fairness ==
    /\ WF_vars(PollTick) /\ WF_vars(Debounce) /\ WF_vars(\E a \in Timers : TimerFires(a))
    /\ \A a \in Actors : WF_vars(LoadStep(a))

Spec == Init /\ [][Next]_vars /\ Fairness

-----------------------------------------------------------------------------
TypeOK ==
    /\ file.mtime \in 1 .. MaxWrites /\ lastModTime \in 0 .. MaxWrites
    /\ events \in 0 .. 1 /\ timer \in -1 .. DebounceTicks
    /\ ToSet(callbacks) \subseteq 1 .. MaxCallbacks /\ Len(callbacks) = Cardinality(DOMAIN callbackIDs)

(* When the watcher believes it has seen the last change of the file, the   *)
(* snapshot is what that file says, unless the file was changing through    *)
(* all three attempts of the load.                                          *)
QuietIsCurrent ==
    Free /\ snapshot.version > 0 /\ lastModTime = file.mtime /\ ~ outrun =>
        snapshot.data = Effective(file.data)

(* After any order of registrations, the place noted for an id is that of   *)
(* its own callback.                                                        *)
CallbackIDsAgree ==
    \A id \in DOMAIN callbackIDs : callbackIDs[id] \in DOMAIN callbacks /\ callbacks[callbackIDs[id]] = id

FollowsOrOutrun == outrun \/ (snapshot.version > 0 /\ snapshot.data = Effective(file.data))
Unwatched == ~ running \/ file.data \in Unparsable

(* A watcher that keeps running ends up with the content of a file that     *)
(* parses, unless it was outrun by the writers.                             *)
ConfigFollows == []<>Unwatched \/ <>[]FollowsOrOutrun
=============================================================================
