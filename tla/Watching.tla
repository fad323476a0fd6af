------------------------------ MODULE Watching ------------------------------
(*****************************************************************************)
(* What watches the system: the tamper-evident log of auditlog and the       *)
(* rules of alertengine. The parts share no state; each has its own          *)
(* specification.                                                            *)
(*****************************************************************************)
EXTENDS Integers, Sequences, FiniteSets, SequencesExt

(***************************************************************************)
(* auditlog: callers append to a hash chain in memory under a lock; buffer *)
(* and workers, or a goroutine when the buffer is full, pass the logs to a *)
(* writer with retries, in any order.  VerifyIntegrity compares the chain  *)
(* with what the writer holds.  A hash is the tuple of what is hashed, the *)
(* empty hash is <<>>; a log's content is its detail.                      *)
(***************************************************************************)

CONSTANTS
    Caller, Worker,
    BufferSize, MaxRetries,     \* Config
    EarlyStop,                  \* whether Stop may be called before Start
    MaxLogs,                    \* bound on the logs made
    Damages                     \* the methods that tamper which are called, once

VARIABLES
    started, stopped,
    logs,       \* Logger.logs
    buffer, closed,
    running,    \* workers that have not ended
    call,       \* where each caller is
    trying,     \* persistWithRetry and LogSync in progress
    written,    \* the writer's logs
    given,      \* logs handed to the degrade handler or refused to a LogSync
    stopping,   \* where Stop is
    damage      \* the tampering that took place

auditVars == <<started, stopped, logs, buffer, closed, running, call, trying, written, given, stopping, damage>>

computeHash(l) == <<l.id, l.detail, l.prev>>
Log(id, detail, prev) == [id |-> id, detail |-> detail, prev |-> prev, cur |-> <<id, detail, prev>>]
lastHash == IF logs = <<>> THEN <<>> ELSE Last(logs).cur
Idle == [step |-> "idle", sync |-> FALSE, id |-> 0]
Try(who, id) == [who |-> who, id |-> id, attempt |-> 0]

AuditInit ==
    /\ started = FALSE /\ stopped = FALSE /\ logs = <<>> /\ buffer = <<>> /\ closed = FALSE /\ running = {}
    /\ call = [c \in Caller |-> Idle] /\ trying = {} /\ written = <<>> /\ given = {} /\ stopping = "no" /\ damage = "none"

Start ==
    /\ ~ started /\ started' = TRUE /\ stopped' = FALSE /\ running' = Worker
    /\ UNCHANGED <<logs, buffer, closed, call, trying, written, given, stopping, damage>>

(* Log and LogSync: admitted under the lock, *)
Enter(c, sync) ==
    /\ call[c].step = "idle" /\ started /\ ~ stopped
    /\ call' = [call EXCEPT ![c] = [step |-> "create", sync |-> sync, id |-> 0]]
    /\ UNCHANGED <<started, stopped, logs, buffer, closed, running, trying, written, given, stopping, damage>>
(* createLog under the lock again, *)
createLog(c) ==
    /\ call[c].step = "create" /\ Len(logs) < MaxLogs
    /\ logs' = Append(logs, Log(Len(logs) + 1, "made", lastHash))
    /\ call' = [call EXCEPT ![c].step = IF call[c].sync THEN "wait" ELSE "send", ![c].id = Len(logs) + 1]
    /\ trying' = IF call[c].sync THEN trying \cup {Try(c, Len(logs) + 1)} ELSE trying
    /\ UNCHANGED <<started, stopped, buffer, closed, running, written, given, stopping, damage>>
(* then the buffer, or a goroutine when it is full.  Sending on a closed    *)
(* channel panics.                                                          *)
Send(c) ==
    /\ call[c].step = "send"
    /\ IF closed THEN call' = [call EXCEPT ![c].step = "panic"] /\ UNCHANGED <<buffer, trying>>
       ELSE /\ call' = [call EXCEPT ![c] = Idle]
            /\ IF Len(buffer) < BufferSize THEN buffer' = Append(buffer, call[c].id) /\ UNCHANGED trying
               ELSE trying' = trying \cup {Try("async", call[c].id)} /\ UNCHANGED buffer
    /\ UNCHANGED <<started, stopped, logs, closed, running, written, given, stopping, damage>>

-----------------------------------------------------------------------------
Take(w) ==
    /\ w \in running /\ buffer # <<>> /\ \A t \in trying : t.who # w
    /\ trying' = trying \cup {Try(w, Head(buffer))} /\ buffer' = Tail(buffer)
    /\ UNCHANGED <<started, stopped, logs, closed, running, call, written, given, stopping, damage>>
WorkerEnds(w) ==
    /\ w \in running /\ buffer = <<>> /\ closed /\ \A t \in trying : t.who # w
    /\ running' = running \ {w}
    /\ UNCHANGED <<started, stopped, logs, buffer, closed, call, trying, written, given, stopping, damage>>

Done(t) == /\ trying' = trying \ {t}
           /\ call' = [c \in Caller |-> IF t.who = c THEN Idle ELSE call[c]]
(* The writer takes the log, which is not the copy that logs keeps. *)
WriteSucceeds(t) ==
    /\ written' = Append(written, [logs[t.id] EXCEPT !.detail = "made"]) /\ Done(t)
    /\ UNCHANGED <<started, stopped, logs, buffer, closed, running, given, stopping, damage>>
(* It fails or panics: another attempt, or the degrade handler or the error *)
(* of LogSync.                                                              *)
WriteFails(t) ==
    /\ IF t.attempt < MaxRetries THEN trying' = (trying \ {t}) \cup {[t EXCEPT !.attempt = @ + 1]} /\ UNCHANGED <<call, given>>
       ELSE Done(t) /\ given' = given \cup {t.id}
    /\ UNCHANGED <<started, stopped, logs, buffer, closed, running, written, stopping, damage>>

-----------------------------------------------------------------------------
Stop ==
    /\ ~ stopped /\ (started \/ EarlyStop) /\ stopping = "no"
    /\ stopped' = TRUE /\ stopping' = "pending"
    /\ UNCHANGED <<started, logs, buffer, closed, running, call, trying, written, given, damage>>
(* pendingWg.Wait, close(buffer) *)
StopClose ==
    /\ stopping = "pending" /\ \A c \in Caller : call[c].step = "idle"
    /\ closed' = TRUE /\ stopping' = "workers"
    /\ UNCHANGED <<started, stopped, logs, buffer, running, call, trying, written, given, damage>>
(* wg.Wait, asyncWg.Wait *)
StopReturns ==
    /\ stopping = "workers" /\ running = {} /\ \A t \in trying : t.who # "async"
    /\ stopping' = "returned"
    /\ UNCHANGED <<started, stopped, logs, buffer, closed, running, call, trying, written, given, damage>>

-----------------------------------------------------------------------------
(* TamperMemoryLog, and TamperLog, BreakChain, AppendSpoofedLog, DeleteLog  *)
(* and Truncate of the memory writer                                        *)
Tamper(how, i) ==
    /\ damage = "none" /\ how \in Damages /\ damage' = how
    /\ IF how = "memory" THEN i \in DOMAIN logs /\ logs' = [logs EXCEPT ![i].detail = "forged"] ELSE UNCHANGED logs
    /\ \/ how = "memory" /\ UNCHANGED written
       \/ how = "detail" /\ i \in DOMAIN written /\ written' = [written EXCEPT ![i].detail = "forged"]
       \/ how = "chain" /\ i \in DOMAIN written /\ written' = [written EXCEPT ![i].prev = <<0>>]
       \/ how = "spoof" /\ i \in 1 .. MaxLogs /\ written' = Append(written, Log(i, "forged", lastHash))
       \/ how = "delete" /\ i \in DOMAIN written /\ written' = SubSeq(written, 1, i - 1) \o SubSeq(written, i + 1, Len(written))
       \/ how = "truncate" /\ i \in DOMAIN written /\ written' = SubSeq(written, 1, Len(written) - i)
    /\ UNCHANGED <<started, stopped, buffer, closed, running, call, trying, given, stopping>>

verifyLogChainStrict(s) ==
    /\ s # <<>> => s[1].prev = <<>>
    /\ \A i \in DOMAIN s : s[i].cur = computeHash(s[i]) /\ (i > 1 => s[i].prev = s[i - 1].cur)

ById(s, id) == s[CHOOSE i \in DOMAIN s : s[i].id = id]
SelfConsistent(w) == w.cur = computeHash(w)
(* The writer's logs in the order of the memory's *)
Sorted(w, m) == [i \in DOMAIN m |-> ById(w, m[i].id)]
Linked(s) == (s # <<>> => s[1].prev = <<>>) /\ \A i \in 2 .. Len(s) : s[i].prev = s[i - 1].cur
verifyLogSetConsistency(w, m, strictCount) ==
    /\ \A i, j \in DOMAIN w : i # j => w[i].id # w[j].id
    /\ \A i \in DOMAIN w : \E j \in DOMAIN m : m[j].id = w[i].id
    /\ Len(w) = Len(m) => Linked(Sorted(w, m))
    /\ \A i \in DOMAIN w : ById(m, w[i].id).cur = w[i].cur /\ SelfConsistent(w[i])
    /\ strictCount => Len(w) = Len(m)

verifyIntegrity(strictCount) == verifyLogChainStrict(logs) /\ verifyLogSetConsistency(written, logs, strictCount)

AuditNext ==
    \/ Start \/ Stop \/ StopClose \/ StopReturns
    \/ \E c \in Caller : (\E sync \in BOOLEAN : Enter(c, sync)) \/ createLog(c) \/ Send(c)
    \/ \E w \in Worker : Take(w) \/ WorkerEnds(w)
    \/ \E t \in trying : WriteSucceeds(t) \/ WriteFails(t)
    \/ \E how \in Damages, i \in 1 .. MaxLogs : Tamper(how, i)

AuditTypeOK ==
    /\ Len(buffer) <= BufferSize /\ running \subseteq Worker
    /\ given \subseteq DOMAIN logs /\ \A t \in trying : t.id \in DOMAIN logs /\ t.attempt \in 0 .. MaxRetries

-----------------------------------------------------------------------------
(* Verification raises no false alarm: while nothing was tampered with, it  *)
(* succeeds at any moment, in whatever order workers, callers and           *)
(* goroutines reach the writer, and the strict one succeeds exactly when    *)
(* every log has been written.                                              *)
NoFalseAlarm ==
    damage = "none" => /\ verifyIntegrity(FALSE)
                       /\ verifyIntegrity(TRUE) <=> \A i \in DOMAIN logs : \E j \in DOMAIN written : written[j].id = i

(* Changed or added logs are reported by either verification, now and after *)
(* any further logging; removed ones by the strict verification.            *)
TamperSeen ==
    /\ damage \in {"memory", "detail", "chain", "spoof"} => ~ verifyIntegrity(FALSE)
    /\ damage \in {"delete", "truncate"} => ~ verifyIntegrity(TRUE)

(* Every log made is in exactly one place on its way, and once Stop has     *)
(* returned each one was written once or given to the handler or refused;   *)
(* nobody sends on the closed buffer.                                       *)
NothingLost ==
    damage = "none" =>
        /\ \A c \in Caller : call[c].step # "panic"
        /\ \A id \in DOMAIN logs :
             Cardinality({i \in DOMAIN buffer : buffer[i] = id}) + Cardinality({t \in trying : t.id = id})
             + Cardinality({c \in Caller : call[c].step = "send" /\ call[c].id = id})
             + Cardinality({i \in DOMAIN written : written[i].id = id}) + Cardinality(given \cap {id}) = 1
        /\ stopping = "returned" => buffer = <<>> /\ trying = {}

-----------------------------------------------------------------------------
(***************************************************************************)
(* alertengine: rules over data points with a threshold or a comparison    *)
(* with an earlier period, a duration condition, escalation, inhibition    *)
(* between notifications and silent windows.  Every method runs under the  *)
(* lock.  A time of 0 is Go's zero time; a day has Day ticks.              *)
(***************************************************************************)

CONSTANTS
    Rules,              \* the rules that are added, one at a time
    Value, Late,        \* values of data points; how old their timestamps are
    Notifier,
    Day,                \* ticks of a day
    maxHistorySize,     \* 1000 in the code
    MaxTime, MaxEvals   \* bounds: the clock, calls of Evaluate

VARIABLES
    now,
    rule,       \* the rule, or NoRule
    alert,      \* its AlertState
    notifiers,  \* those registered
    evals,      \* the evaluations of the rule: time and whether its condition was met
    sent        \* the notifications of the rule

alertVars == <<now, rule, alert, notifiers, evals, sent>>

NoRule == [id |-> "none"]
Fresh(r) == [status |-> "pending", level |-> r.initial, hits |-> 0, firstFired |-> 0, firstTriggered |-> 0, lastNotified |-> 0, history |-> <<>>]

AlertInit ==
    /\ now = 1 /\ rule = NoRule /\ alert = [status |-> "none"] /\ notifiers = {} /\ evals = <<>> /\ sent = <<>>

Tick == now < MaxTime /\ now' = now + 1 /\ UNCHANGED <<rule, alert, notifiers, evals, sent>>
RegisterNotifier(n) == n \notin notifiers /\ notifiers' = notifiers \cup {n} /\ UNCHANGED <<now, rule, alert, evals, sent>>
AddRule(r) ==
    /\ rule = NoRule /\ rule' = r /\ alert' = Fresh(r)
    /\ UNCHANGED <<now, notifiers, evals, sent>>
RemoveRule ==
    /\ rule # NoRule /\ rule' = NoRule /\ alert' = [status |-> "none"] /\ evals' = <<>> /\ sent' = <<>>
    /\ UNCHANGED <<now, notifiers>>

-----------------------------------------------------------------------------
evaluateThreshold(c, v) ==
    CASE c.op = ">" -> v > c.limit [] c.op = "<" -> v < c.limit [] c.op = ">=" -> v >= c.limit [] OTHER -> v <= c.limit

Abs(x) == IF x < 0 THEN 0 - x ELSE x
tolerance(c) == IF c.tolerance <= 0 THEN c.period \div 2 ELSE c.tolerance
(* Points of the history about one period before ts; the latest one counts. *)
Comparable(c, ts, h) == {i \in DOMAIN h : Abs(h[i].ts - (ts - c.period)) <= tolerance(c)}
evaluateRingbiTongbi(c, v, ts, h) ==
    Comparable(c, ts, h) # {} /\
    LET past == h[CHOOSE i \in Comparable(c, ts, h) : \A j \in Comparable(c, ts, h) : j <= i].v
    IN past # 0 /\ Abs(v - past) * 100 >= c.percent * past

Met(r, v, ts, h) == IF r.cond.kind = "threshold" THEN evaluateThreshold(r.cond, v) ELSE evaluateRingbiTongbi(r.cond, v, ts, h)

evaluateDuration(d, met, a) ==
    /\ met
    /\ d.kind = "count" => a.hits >= d.n
    /\ d.kind = "time" => now - a.firstFired >= d.n

(* The first escalation that applies; one at a time *)
checkEscalation(r, a) ==
    LET due == {i \in DOMAIN r.escalations : a.level = r.escalations[i].from /\ now - a.firstTriggered >= r.escalations[i].after}
    IN IF due = {} THEN a.level ELSE r.escalations[CHOOSE i \in due : \A j \in due : i <= j].to

isInhibitPeriod(r, a) == r.inhibit > 0 /\ a.lastNotified # 0 /\ now - a.lastNotified < r.inhibit

isInDailySilent(s) ==
    LET t == now % Day
        over == s.to < s.from
        end == IF over THEN s.to + Day ELSE s.to
        adj == IF over /\ t < s.from THEN t + Day ELSE t
    IN s.from <= adj /\ adj < end
isInSilentPeriod(r) ==
    \E s \in r.silent : IF s.kind = "daily" THEN isInDailySilent(s) ELSE s.from <= now /\ now < s.to

getNotifiersForLevel(r, level) == IF level \in DOMAIN r.levelNotifiers THEN r.levelNotifiers[level] ELSE r.notifiers
Recipients(r, level) == LET ns == getNotifiersForLevel(r, level) IN IF ns = {} THEN notifiers ELSE ns \cap notifiers

-----------------------------------------------------------------------------
(* Evaluate, in the order of the code: history, condition, streak, *)
Keep(h) == IF Len(h) > maxHistorySize THEN SubSeq(h, Len(h) - maxHistorySize + 1, Len(h)) ELSE h
Remember(a, v, ts) == [a EXCEPT !.history = Keep(Append(@, [v |-> v, ts |-> ts]))]
CountSlip(a, met) ==
    IF met THEN [a EXCEPT !.hits = @ + 1, !.firstFired = IF @ = 0 THEN now ELSE @] ELSE [a EXCEPT !.hits = 0]
Count(a, met) ==
    IF met THEN [a EXCEPT !.hits = @ + 1, !.firstFired = IF @ = 0 THEN now ELSE @]
    ELSE [a EXCEPT !.hits = 0, !.firstFired = 0]
(* status and level, *)
Trigger(r, a) ==
    LET b == IF a.status = "firing" THEN a ELSE [a EXCEPT !.status = "firing", !.level = r.initial, !.firstTriggered = now]
    IN [b EXCEPT !.level = checkEscalation(r, b)]
Resolve(a) == IF a.status = "firing" THEN [a EXCEPT !.status = "resolved", !.firstTriggered = 0] ELSE a
(* and the notifications. *)
Notify(r, a) ==
    IF isInhibitPeriod(r, a) \/ isInSilentPeriod(r) THEN alert' = a /\ UNCHANGED sent
    ELSE /\ alert' = [a EXCEPT !.lastNotified = now]
         /\ sent' = Append(sent, [at |-> now, level |-> a.level, to |-> Recipients(r, a.level)])
Conclude(r, a, met) ==
    /\ evals' = Append(evals, [at |-> now, met |-> met])
    /\ IF evaluateDuration(r.duration, met, a) THEN Notify(r, Trigger(r, a))
       ELSE alert' = Resolve(a) /\ UNCHANGED sent
Judge(r, a, met) == Conclude(r, Count(a, met), met)
Weigh(r, a, v, ts) == Judge(r, a, Met(r, v, ts, a.history))
Evaluate(v, ts) ==
    /\ rule # NoRule /\ Len(evals) < MaxEvals
    /\ Weigh(rule, Remember(alert, v, ts), v, ts)
    /\ UNCHANGED <<now, rule, notifiers>>

AlertNext ==
    \/ Tick \/ RemoveRule
    \/ \E n \in Notifier : RegisterNotifier(n)
    \/ \E r \in Rules : AddRule(r)
    \/ \E v \in Value, d \in Late : Evaluate(v, now - d)

AlertTypeOK ==
    /\ now \in 1 .. MaxTime /\ notifiers \subseteq Notifier /\ rule \in Rules \cup {NoRule}
    /\ rule # NoRule => alert.status \in {"pending", "firing", "resolved"} /\ Len(alert.history) <= maxHistorySize

-----------------------------------------------------------------------------
(* The last evaluations that met the condition in a row *)
Streak == {i \in DOMAIN evals : \A j \in i .. Len(evals) : evals[j].met}

(* An alert fires only on a streak of evaluations as long as the rule's     *)
(* duration asks for, in number or in time, and is not firing once an       *)
(* evaluation has not met the condition.                                    *)
FiresOnStreak ==
    rule # NoRule /\ alert.status = "firing" =>
        /\ Streak # {}
        /\ rule.duration.kind = "count" => Cardinality(Streak) >= rule.duration.n
        /\ rule.duration.kind = "time" => \E i \in Streak : evals[Len(evals)].at - evals[i].at >= rule.duration.n

(* Whether t lies in a silent window, by arithmetic modulo the day *)
Silent(s, t) == IF s.kind = "daily" THEN (t - s.from) % Day < (s.to - s.from) % Day ELSE t \in s.from .. s.to - 1
(* Notifications of a rule keep the inhibition between them and none falls  *)
(* into a silent window, also one that passes midnight or is empty.         *)
Quiet ==
    \A i \in DOMAIN sent : /\ \A j \in 1 .. i - 1 : sent[i].at - sent[j].at >= rule.inhibit
                           /\ \A s \in rule.silent : ~ Silent(s, sent[i].at)

(* A level above the initial one is earned: the alert has fired without a   *)
(* break for as long as an escalation to that level asks, and an alert that *)
(* fires again starts from the initial level.                               *)
LevelEarned ==
    rule # NoRule /\ alert.status = "firing" /\ alert.level # rule.initial =>
        \E e \in DOMAIN rule.escalations : /\ rule.escalations[e].to = alert.level
                                           /\ \E i \in Streak : evals[Len(evals)].at - evals[i].at >= rule.escalations[e].after
=============================================================================
