----------------------------- MODULE Schedulers -----------------------------
(*****************************************************************************)
(* The schedulers: the search of cronsched for the next time of an           *)
(* expression, its scheduler, and the time wheel and heap of delaysched.     *)
(* The parts share no state; each has its own specification.                 *)
(*****************************************************************************)
EXTENDS Integers, Sequences, FiniteSets

(***************************************************************************)
(* cronsched.NextTime: the search for the first time after `from` that     *)
(* matches a cron expression, one loop iteration per step, on a calendar   *)
(* of any size. Times are seconds since the first second of the calendar;  *)
(* the location has no daylight saving, so adjustForDST changes nothing.   *)
(***************************************************************************)

CONSTANTS
    Secs, Mins, Hours,    \* sizes of a minute, an hour, a day
    Days,                 \* Days[m]: length of month m
    Week, Years,          \* days in a week, years in the calendar
    MaxStep,              \* bound on the steps of a field
    From,                 \* start times to try
    SmallFields           \* the FieldValues used outside the day field

VARIABLES expr, from, candidate, result   \* result is {} or {the time}

searchVars == <<expr, from, candidate, result>>

-----------------------------------------------------------------------------
(* The calendar (package time). *)
PerDay == Secs * Mins * Hours

BeforeMonth[m \in 1 .. Len(Days) + 1] == IF m = 1 THEN 0 ELSE BeforeMonth[m - 1] + Days[m - 1]

YearLen == BeforeMonth[Len(Days) + 1]

Horizon == Years * YearLen * PerDay

DayNo(t) == t \div PerDay
Second(t) == t % Secs
Minute(t) == (t \div Secs) % Mins
Hour(t) == (t \div (Secs * Mins)) % Hours
Year(t) == DayNo(t) \div YearLen
Month(t) == CHOOSE m \in 1 .. Len(Days) :
                BeforeMonth[m] <= DayNo(t) % YearLen /\ DayNo(t) % YearLen < BeforeMonth[m + 1]
Day(t) == (DayNo(t) % YearLen) - BeforeMonth[Month(t)] + 1
Weekday(t) == DayNo(t) % Week

NextUnit(t, unit) == (t \div unit + 1) * unit

StartOfMonthAfter(t) == (Year(t) * YearLen + BeforeMonth[Month(t) + 1]) * PerDay

StartOfYearAfter(t) == (Year(t) + 1) * YearLen * PerDay

-----------------------------------------------------------------------------
(* FieldValue, as parseSingle, parseRange and parseStep accept them.        *)
Wildcard == [type |-> "wildcard", lo |-> 0, hi |-> 0, step |-> 1]
Single(v) == [type |-> "single", lo |-> v, hi |-> v, step |-> 1]
Ranged(a, b) == [type |-> "range", lo |-> a, hi |-> b, step |-> 1]
Stepped(a, b, s) == [type |-> "step", lo |-> a, hi |-> b, step |-> s]

Values(min, max) ==
    {Wildcard} \cup {Single(v) : v \in min .. max}
    \cup {Ranged(p[1], p[2]) : p \in {p \in (min .. max) \X (min .. max) : p[1] <= p[2]}}
    \cup {Stepped(p[1], p[2], p[3]) :
             p \in {p \in (min .. max) \X (min .. max) \X (1 .. MaxStep) : p[1] <= p[2]}}

matches(fv, v) ==
    CASE fv.type = "wildcard" -> TRUE
      [] fv.type = "single" -> v = fv.lo
      [] fv.type = "range" -> fv.lo <= v /\ v <= fv.hi
      [] fv.type = "step" -> fv.lo <= v /\ v <= fv.hi /\ (v - fv.lo) % fv.step = 0

Matches(field, v) == \E fv \in field : matches(fv, v)

(* FieldValue.next: the first matching value from v on, or none. *)
next(fv, v) ==
    CASE fv.type = "wildcard" -> {v}
      [] fv.type = "single" -> IF fv.lo >= v THEN {fv.lo} ELSE {}
      [] fv.type = "range" -> IF v <= fv.hi THEN {IF v < fv.lo THEN fv.lo ELSE v} ELSE {}
      [] fv.type = "step" ->
            LET rem == (v - fv.lo) % fv.step
            IN IF v > fv.hi THEN {} ELSE IF v <= fv.lo THEN {fv.lo}
               ELSE IF rem = 0 THEN {v} ELSE {x \in {v + fv.step - rem} : x <= fv.hi}

(* FieldValue.Expand: the values it lists for a field from min to max. *)
Expand(fv, min, max) ==
    CASE fv.type = "wildcard" -> min .. max
      [] fv.type = "single" -> {fv.lo}
      [] fv.type = "range" -> fv.lo .. fv.hi
      [] fv.type = "step" -> {fv.lo + k * fv.step : k \in 0 .. (fv.hi - fv.lo) \div fv.step}

isWildcard(field) == field = {Wildcard}

(* ParseWithLocation: no day of month and day of week at once. A missing    *)
(* year field is a wildcard.                                                *)
Expression ==
    {e \in [sec : SmallFields, min : SmallFields, hour : SmallFields, day : {{fv} : fv \in Values(1, Days[1])} \cup SmallFields,
            month : SmallFields, weekday : SmallFields, year : SmallFields] :
        isWildcard(e.day) \/ isWildcard(e.weekday)}

DayMatches(e, t) ==
    LET daySet == ~ isWildcard(e.day)
        weekdaySet == ~ isWildcard(e.weekday)
    IN IF daySet \/ weekdaySet
       THEN (daySet => Matches(e.day, Day(t))) /\ (weekdaySet => Matches(e.weekday, Weekday(t)))
       ELSE Matches(e.day, Day(t)) /\ Matches(e.weekday, Weekday(t))

(* CronExpression.Matches. *)
ExprMatches(e, t) ==
    /\ Matches(e.year, Year(t)) /\ Matches(e.month, Month(t)) /\ DayMatches(e, t)
    /\ Matches(e.hour, Hour(t)) /\ Matches(e.min, Minute(t)) /\ Matches(e.sec, Second(t))

-----------------------------------------------------------------------------
SearchInit ==
    /\ expr \in Expression /\ from \in From
    /\ candidate = from + 1
    /\ result = {}

(* The candidate after one that does not match: the start of the next unit  *)
(* of the first field that fails, as time.Date normalises it.               *)
FirstFailing(e, t) ==
    IF ~ Matches(e.year, Year(t)) THEN "year"
    ELSE IF ~ Matches(e.month, Month(t)) THEN "month"
    ELSE IF ~ DayMatches(e, t) THEN "day"
    ELSE IF ~ Matches(e.hour, Hour(t)) THEN "hour"
    ELSE IF ~ Matches(e.min, Minute(t)) THEN "minute" ELSE "second"

(* Slip: a minute that does not match moves on by a whole hour. *)
AdvanceSlip(e, t) ==
    CASE FirstFailing(e, t) = "year" -> StartOfYearAfter(t)
      [] FirstFailing(e, t) = "month" -> StartOfMonthAfter(t)
      [] FirstFailing(e, t) = "day" -> NextUnit(t, PerDay)
      [] FirstFailing(e, t) \in {"hour", "minute"} -> NextUnit(t, Secs * Mins)
      [] FirstFailing(e, t) = "second" -> NextUnit(t, 1)

Advance(e, t) ==
    CASE FirstFailing(e, t) = "year" -> StartOfYearAfter(t)
      [] FirstFailing(e, t) = "month" -> StartOfMonthAfter(t)
      [] FirstFailing(e, t) = "day" -> NextUnit(t, PerDay)
      [] FirstFailing(e, t) = "hour" -> NextUnit(t, Secs * Mins)
      [] FirstFailing(e, t) = "minute" -> NextUnit(t, Secs)
      [] FirstFailing(e, t) = "second" -> NextUnit(t, 1)

(* One iteration; the calendar's horizon stands for MaxIterations. *)
Iterate ==
    /\ result = {} /\ candidate < Horizon
    /\ IF ExprMatches(expr, candidate)
       THEN result' = {candidate} /\ UNCHANGED candidate
       ELSE candidate' = Advance(expr, candidate) /\ UNCHANGED result
    /\ UNCHANGED <<expr, from>>

SearchNext == Iterate

SearchSpec == SearchInit /\ [][SearchNext]_searchVars

-----------------------------------------------------------------------------
SearchTypeOK ==
    /\ from \in From /\ candidate \in 0 .. Horizon
    /\ result \subseteq {candidate}

(* The search never jumps over a matching time, so what it returns is the   *)
(* first match after from.                                                  *)
FirstMatch == \A t \in from + 1 .. candidate - 1 : ~ ExprMatches(expr, t)

(* next returns the least matching value from v on, and Expand lists the    *)
(* matching values of the field, for every value the parser accepts.        *)
FieldsAgree ==
    \A fv \in expr.day :
        /\ fv \in Values(1, Days[1]) => {v \in 1 .. Days[1] : matches(fv, v)} = Expand(fv, 1, Days[1])
        /\ \A v \in 1 .. Days[1] :
              next(fv, v) \cap (1 .. Days[1]) = {x \in v .. Days[1] : matches(fv, x) /\ \A y \in v .. x - 1 : ~ matches(fv, y)}

-----------------------------------------------------------------------------
(***************************************************************************)
(* cronsched.Scheduler: tasks in a heap ordered by NextRun, run loops that *)
(* sleep until the head is due, one goroutine per execution. Start may be  *)
(* called while a Stop still waits: the old loop can then go on beside the *)
(* new one. The next time of a task is any later time, or none.            *)
(***************************************************************************)

CONSTANTS
    CronTask, Loop,   \* task ids; loops, each started once
    CronMaxTime       \* bound on the clock

VARIABLES
    cronNow, cronRunning,
    stops,        \* Stop calls that wait for wg and taskWg
    cronTasks, cronHeap, cronStatus, nextRun,
    cronLoop,         \* loop[l]: "new", "top", "sleep" or "off"
    cronUntil,        \* until[l]: the timer of a sleeping loop
    cronWoken,        \* woken[l]: the wakeCh l captured is closed
    stopped,      \* stopped[l]: the stopCh l waits on is closed
    cronExec          \* tasks whose executeTask goroutine has not finished

cronTable == <<cronTasks, cronHeap, cronStatus, nextRun>>
loops == <<cronLoop, cronUntil, cronWoken, stopped>>
cronVars == <<cronNow, cronRunning, stops, cronTable, loops, cronExec>>

CronNever == CronMaxTime + 1

CronInit ==
    /\ cronNow = 0 /\ cronRunning = FALSE /\ stops = 0
    /\ cronTasks = {} /\ cronHeap = {} /\ cronExec = {}
    /\ cronStatus = [t \in CronTask |-> "done"] /\ nextRun = [t \in CronTask |-> 0]
    /\ cronLoop = [l \in Loop |-> "new"] /\ cronUntil = [l \in Loop |-> CronNever]
    /\ cronWoken = [l \in Loop |-> FALSE] /\ stopped = [l \in Loop |-> FALSE]

CronTick ==
    /\ cronNow < CronMaxTime
    /\ cronNow' = cronNow + 1
    /\ UNCHANGED <<cronRunning, stops, cronTable, loops, cronExec>>

(* wake: the loops that sleep now are woken. *)
Wake == cronWoken' = [l \in Loop |-> cronWoken[l] \/ cronLoop[l] = "sleep"]

CronStart(l) ==
    /\ ~ cronRunning /\ cronLoop[l] = "new"
    /\ cronRunning' = TRUE
    /\ cronLoop' = [cronLoop EXCEPT ![l] = "top"]
    /\ UNCHANGED <<cronNow, stops, cronTable, cronUntil, cronWoken, stopped, cronExec>>

CronStop ==
    /\ cronRunning
    /\ cronRunning' = FALSE /\ stops' = stops + 1
    /\ stopped' = [l \in Loop |-> stopped[l] \/ cronLoop[l] = "sleep"]
    /\ Wake
    /\ UNCHANGED <<cronNow, cronTable, cronLoop, cronUntil, cronExec>>

CronStopReturns ==
    /\ stops > 0 /\ cronExec = {} /\ \A l \in Loop : cronLoop[l] \in {"new", "off"}
    /\ stops' = stops - 1
    /\ UNCHANGED <<cronNow, cronRunning, cronTable, loops, cronExec>>

(* AddWithIDAndLocation; at was computed before the lock. *)
CronAdd(t, at) ==
    /\ cronRunning /\ t \notin cronTasks
    /\ cronTasks' = cronTasks \cup {t} /\ cronHeap' = cronHeap \cup {t}
    /\ cronStatus' = [cronStatus EXCEPT ![t] = "pending"]
    /\ nextRun' = [nextRun EXCEPT ![t] = at]
    /\ Wake
    /\ UNCHANGED <<cronNow, cronRunning, stops, cronLoop, cronUntil, stopped, cronExec>>

CronCancel(t) ==
    /\ t \in cronTasks
    /\ \/ /\ cronStatus[t] = "pending"
          /\ cronHeap' = cronHeap \ {t} /\ cronTasks' = cronTasks \ {t}
          /\ Wake
          /\ UNCHANGED <<cronStatus, nextRun>>
       \/ /\ cronStatus[t] = "running"
          /\ cronStatus' = [cronStatus EXCEPT ![t] = "cancelled"]
          /\ UNCHANGED <<cronTasks, cronHeap, nextRun, cronWoken>>
    /\ UNCHANGED <<cronNow, cronRunning, stops, cronLoop, cronUntil, stopped, cronExec>>

CronHeads == {t \in cronHeap : \A u \in cronHeap : nextRun[t] <= nextRun[u]}

RunDue(l, t) ==
    /\ cronLoop[l] = "top" /\ cronRunning /\ t \in CronHeads /\ nextRun[t] <= cronNow
    /\ cronHeap' = cronHeap \ {t}
    /\ cronStatus' = [cronStatus EXCEPT ![t] = "running"]
    /\ cronExec' = cronExec \cup {t}
    /\ UNCHANGED <<cronNow, cronRunning, stops, cronTasks, nextRun, loops>>

(* The top of runLoop when nothing is due: leave, or sleep. *)
LoopPasses(l) ==
    /\ cronLoop[l] = "top"
    /\ \/ ~ cronRunning /\ cronLoop' = [cronLoop EXCEPT ![l] = "off"] /\ UNCHANGED cronUntil
       \/ /\ cronRunning /\ \A t \in cronHeap : nextRun[t] > cronNow
          /\ cronLoop' = [cronLoop EXCEPT ![l] = "sleep"]
          /\ \/ cronHeap = {} /\ cronUntil' = [cronUntil EXCEPT ![l] = CronNever]
             \/ \E t \in CronHeads : cronUntil' = [cronUntil EXCEPT ![l] = nextRun[t]]
    /\ cronWoken' = [cronWoken EXCEPT ![l] = FALSE]
    /\ stopped' = [stopped EXCEPT ![l] = FALSE]
    /\ UNCHANGED <<cronNow, cronRunning, stops, cronTable, cronExec>>

(* The select: any of the channels that are ready. *)
CronLoopWakes(l) ==
    /\ cronLoop[l] = "sleep"
    /\ \/ stopped[l] /\ cronLoop' = [cronLoop EXCEPT ![l] = "off"]
       \/ (cronWoken[l] \/ cronUntil[l] <= cronNow) /\ cronLoop' = [cronLoop EXCEPT ![l] = "top"]
    /\ UNCHANGED <<cronNow, cronRunning, stops, cronTable, cronUntil, cronWoken, stopped, cronExec>>

(* Slip: a task cancelled while it ran is put back. *)
FinishSlip(t, at) ==
    /\ t \in cronExec
    /\ cronExec' = cronExec \ {t}
    /\ cronStatus' = [cronStatus EXCEPT ![t] = "pending"]
    /\ nextRun' = [nextRun EXCEPT ![t] = at]
    /\ cronHeap' = cronHeap \cup {t}
    /\ Wake
    /\ UNCHANGED <<cronNow, cronRunning, stops, cronTasks, cronLoop, cronUntil, stopped>>

(* executeTask after the function: cancelled, no next time (Never), or back *)
(* to the heap, also when the scheduler has been stopped.                   *)
CronFinish(t, at) ==
    /\ t \in cronExec
    /\ cronExec' = cronExec \ {t}
    /\ \/ /\ cronStatus[t] = "cancelled" \/ at = CronNever
          /\ cronTasks' = cronTasks \ {t}
          /\ cronStatus' = [cronStatus EXCEPT ![t] = IF @ = "cancelled" THEN @ ELSE "done"]
          /\ UNCHANGED <<cronHeap, nextRun, cronWoken>>
       \/ /\ cronStatus[t] # "cancelled" /\ at # CronNever
          /\ cronStatus' = [cronStatus EXCEPT ![t] = "pending"]
          /\ nextRun' = [nextRun EXCEPT ![t] = at]
          /\ cronHeap' = cronHeap \cup {t}
          /\ Wake
          /\ UNCHANGED cronTasks
    /\ UNCHANGED <<cronNow, cronRunning, stops, cronLoop, cronUntil, stopped>>

CronNext ==
    \/ CronTick \/ CronStop \/ CronStopReturns
    \/ \E l \in Loop : CronStart(l) \/ LoopPasses(l) \/ CronLoopWakes(l) \/ \E t \in CronTask : RunDue(l, t)
    \/ \E t \in CronTask :
          \/ CronCancel(t)
          \/ \E at \in 1 .. CronMaxTime : CronAdd(t, at)
          \/ \E at \in cronNow + 1 .. CronNever : CronFinish(t, at)

CronSpec == CronInit /\ [][CronNext]_cronVars

-----------------------------------------------------------------------------
CronTypeOK ==
    /\ cronNow \in 0 .. CronMaxTime /\ cronRunning \in BOOLEAN /\ stops \in 0 .. Cardinality(Loop)
    /\ cronTasks \subseteq CronTask /\ cronHeap \subseteq CronTask /\ cronExec \subseteq CronTask
    /\ cronStatus \in [CronTask -> {"pending", "running", "cancelled", "done"}]
    /\ nextRun \in [CronTask -> 0 .. CronMaxTime]
    /\ cronLoop \in [Loop -> {"new", "top", "sleep", "off"}] /\ cronUntil \in [Loop -> 0 .. CronNever]

(* A registered task waits in the heap or is executing, never both, also    *)
(* while two loops run: a task never overlaps itself.                       *)
CronTaskInOnePlace ==
    /\ cronHeap = {t \in cronTasks : cronStatus[t] = "pending"}
    /\ cronExec = {t \in cronTasks : cronStatus[t] \in {"running", "cancelled"}}

(* No loop sleeps past the next run of a task unless a wake-up is coming.   *)
CronNoOversleep ==
    \A l \in Loop : cronLoop[l] = "sleep" /\ ~ cronWoken[l] => \A t \in cronHeap : cronUntil[l] <= nextRun[t]

(* A task cancelled while it runs does not run again. *)
CronStaysCancelled ==
    \A t \in cronTasks \cap cronTasks' : cronStatus[t] = "cancelled" => cronStatus'[t] = "cancelled"

CronCancelledStays == [][CronStaysCancelled]_cronVars

-----------------------------------------------------------------------------
(***************************************************************************)
(* delaysched.Scheduler: one-shot and repeating tasks in a heap ordered by *)
(* ExecuteAt, a run loop that sleeps until the head is due, and one        *)
(* goroutine per execution.  Start and Stop are called one after the other *)
(* and a task id is added again only after it has left the tasks map.      *)
(* A cron expression is a repetition whose next time may not exist.        *)
(***************************************************************************)

CONSTANTS
    DelayTask,
    Repeating,   \* the tasks with an interval
    Cron,        \* the tasks with a cron expression
    DelayMaxTime      \* bound on the clock and on ExecuteAt

VARIABLES
    delayNow,
    delayRunning, stopping,
    delayTasks,       \* ids in the map
    delayHeap,        \* tasks in the heap
    delayStatus, executeAt,
    delayLoop,        \* "off", "top" or "sleep"
    delayUntil,       \* the timer of a sleeping loop
    delayWoken,       \* the loop's captured wakeCh or stopCh is closed
    delayExec         \* tasks whose executeTask goroutine has not finished

delayTable == <<delayTasks, delayHeap, delayStatus, executeAt>>
delayVars == <<delayNow, delayRunning, stopping, delayTable, delayLoop, delayUntil, delayWoken, delayExec>>

DelayNever == DelayMaxTime + 1   \* no timer: the heap was empty

DelayInit ==
    /\ delayNow = 0
    /\ delayRunning = FALSE /\ stopping = FALSE
    /\ delayTasks = {} /\ delayHeap = {}
    /\ delayStatus = [t \in DelayTask |-> "done"]
    /\ executeAt = [t \in DelayTask |-> 0]
    /\ delayLoop = "off" /\ delayUntil = DelayNever /\ delayWoken = FALSE
    /\ delayExec = {}

DelayTick ==
    /\ delayNow < DelayMaxTime
    /\ delayNow' = delayNow + 1
    /\ UNCHANGED <<delayRunning, stopping, delayTable, delayLoop, delayUntil, delayWoken, delayExec>>

DelayStart ==
    /\ ~ delayRunning /\ ~ stopping
    /\ delayRunning' = TRUE
    /\ delayLoop' = "top" /\ delayWoken' = FALSE
    /\ UNCHANGED <<delayNow, stopping, delayTable, delayUntil, delayExec>>

DelayStop ==
    /\ delayRunning
    /\ delayRunning' = FALSE /\ stopping' = TRUE
    /\ delayWoken' = TRUE
    /\ UNCHANGED <<delayNow, delayTable, delayLoop, delayUntil, delayExec>>

(* wg.Wait and taskWg.Wait are over. *)
DelayStopReturns ==
    /\ stopping /\ delayLoop = "off" /\ delayExec = {}
    /\ stopping' = FALSE
    /\ UNCHANGED <<delayNow, delayRunning, delayTable, delayLoop, delayUntil, delayWoken, delayExec>>

-----------------------------------------------------------------------------
(* AddAt, AddAtWithID and addRepeat. *)
DelayAdd(t, at) ==
    /\ delayRunning /\ t \notin delayTasks
    /\ delayTasks' = delayTasks \cup {t}
    /\ delayHeap' = delayHeap \cup {t}
    /\ delayStatus' = [delayStatus EXCEPT ![t] = "pending"]
    /\ executeAt' = [executeAt EXCEPT ![t] = at]
    /\ delayWoken' = TRUE
    /\ UNCHANGED <<delayNow, delayRunning, stopping, delayLoop, delayUntil, delayExec>>

(* Cancel: a pending task goes, a running repetition is marked, a running *)
(* one-shot task is left alone.                                           *)
DelayCancel(t) ==
    /\ t \in delayTasks
    /\ \/ /\ delayStatus[t] = "pending"
          /\ delayHeap' = delayHeap \ {t}
          /\ delayTasks' = delayTasks \ {t}
          /\ delayWoken' = TRUE
          /\ UNCHANGED <<delayStatus, executeAt>>
       \/ /\ delayStatus[t] = "running" /\ t \in Repeating \cup Cron
          /\ delayStatus' = [delayStatus EXCEPT ![t] = "cancelled"]
          /\ UNCHANGED <<delayTasks, delayHeap, executeAt, delayWoken>>
    /\ UNCHANGED <<delayNow, delayRunning, stopping, delayLoop, delayUntil, delayExec>>

Reschedule(t, at) ==
    /\ t \in delayTasks /\ delayStatus[t] = "pending"
    /\ executeAt' = [executeAt EXCEPT ![t] = at]
    /\ delayWoken' = TRUE
    /\ UNCHANGED <<delayNow, delayRunning, stopping, delayTasks, delayHeap, delayStatus, delayLoop, delayUntil, delayExec>>

-----------------------------------------------------------------------------
DelayHeads == {t \in delayHeap : \A u \in delayHeap : executeAt[t] <= executeAt[u]}

(* One pass of runLoop: leave, start the due head, or sleep.  A task in the *)
(* heap is pending, so the loop's clean-up of finished heads is a no-op.    *)
RunLoop ==
    /\ delayLoop = "top"
    /\ \/ /\ ~ delayRunning
          /\ delayLoop' = "off"
          /\ UNCHANGED <<delayTable, delayUntil, delayWoken, delayExec>>
       \/ /\ delayRunning /\ delayHeap = {}
          /\ delayLoop' = "sleep" /\ delayUntil' = DelayNever /\ delayWoken' = FALSE
          /\ UNCHANGED <<delayTable, delayExec>>
       \/ /\ delayRunning
          /\ \E t \in DelayHeads :
                \/ /\ executeAt[t] <= delayNow
                   /\ delayHeap' = delayHeap \ {t}
                   /\ delayStatus' = [delayStatus EXCEPT ![t] = "running"]
                   /\ delayExec' = delayExec \cup {t}
                   /\ UNCHANGED <<delayTasks, executeAt, delayLoop, delayUntil, delayWoken>>
                \/ /\ executeAt[t] > delayNow
                   /\ delayLoop' = "sleep" /\ delayUntil' = executeAt[t] /\ delayWoken' = FALSE
                   /\ UNCHANGED <<delayTable, delayExec>>
    /\ UNCHANGED <<delayNow, delayRunning, stopping>>

DelayLoopWakes ==
    /\ delayLoop = "sleep"
    /\ delayWoken \/ delayUntil <= delayNow
    /\ delayLoop' = "top"
    /\ UNCHANGED <<delayNow, delayRunning, stopping, delayTable, delayUntil, delayWoken, delayExec>>

(* executeTask after the function has returned; at is the next time. *)
DelayFinish(t, at) ==
    /\ t \in delayExec
    /\ delayExec' = delayExec \ {t}
    /\ \/ /\ delayStatus[t] = "cancelled"
          /\ delayTasks' = delayTasks \ {t}
          /\ UNCHANGED <<delayHeap, delayStatus, executeAt, delayWoken>>
       \/ /\ delayStatus[t] # "cancelled" /\ t \notin Repeating
          /\ delayStatus' = [delayStatus EXCEPT ![t] = "done"]
          /\ delayTasks' = delayTasks \ {t}
          /\ UNCHANGED <<delayHeap, executeAt, delayWoken>>
       \/ /\ delayStatus[t] # "cancelled" /\ t \in Repeating \cup Cron
          /\ delayStatus' = [delayStatus EXCEPT ![t] = "pending"]
          /\ executeAt' = [executeAt EXCEPT ![t] = at]
          /\ delayHeap' = delayHeap \cup {t}
          /\ delayWoken' = TRUE
          /\ UNCHANGED delayTasks
    /\ UNCHANGED <<delayNow, delayRunning, stopping, delayLoop, delayUntil>>

-----------------------------------------------------------------------------
Later == {x \in 0 .. DelayMaxTime : x > delayNow}

DelayNext ==
    \/ DelayTick \/ DelayStart \/ DelayStop \/ DelayStopReturns \/ RunLoop \/ DelayLoopWakes
    \/ \E t \in DelayTask :
          \/ DelayCancel(t)
          \/ \E at \in 0 .. DelayMaxTime : DelayAdd(t, at) \/ Reschedule(t, at)
          \/ \E at \in Later \cup {DelayMaxTime} : DelayFinish(t, at)

DelaySpec == DelayInit /\ [][DelayNext]_delayVars

-----------------------------------------------------------------------------
DelayTypeOK ==
    /\ delayNow \in 0 .. DelayMaxTime
    /\ delayRunning \in BOOLEAN /\ stopping \in BOOLEAN
    /\ delayTasks \subseteq DelayTask /\ delayHeap \subseteq DelayTask /\ delayExec \subseteq DelayTask
    /\ delayStatus \in [DelayTask -> {"pending", "running", "cancelled", "done"}]
    /\ executeAt \in [DelayTask -> 0 .. DelayMaxTime]
    /\ delayLoop \in {"off", "top", "sleep"}
    /\ delayUntil \in 0 .. DelayNever /\ delayWoken \in BOOLEAN

(* A task in the map is waiting in the heap or being executed, once: a        *)
(* repetition never overlaps itself, and no cancel or reschedule loses one.   *)
TaskInOnePlace ==
    /\ delayHeap = {t \in delayTasks : delayStatus[t] = "pending"}
    /\ delayExec = {t \in delayTasks : delayStatus[t] \in {"running", "cancelled"}}

(* A sleeping loop wakes in time: its timer is not later than any task in     *)
(* the heap unless a wake-up is on its way.                                   *)
NoOversleep ==
    (delayLoop = "sleep" /\ ~ delayWoken) => \A t \in delayHeap : delayUntil <= executeAt[t]

(* A repetition cancelled while it runs does not run again. *)
DelayStaysCancelled ==
    \A t \in delayTasks \cap delayTasks' : delayStatus[t] = "cancelled" => delayStatus'[t] = "cancelled"

CancelledStays == [][DelayStaysCancelled]_delayVars
=============================================================================
