----------------------------- MODULE MapReduce ------------------------------
(***************************************************************************)
(* mapreduce.MapReduce: one Run starts a goroutine for each input and      *)
(* shuffles what they emit, either first all maps and then the reduces     *)
(* (sync), or with reduce goroutines that collect a report of every map    *)
(* while the maps still run (async). Task errors go to a bounded channel   *)
(* that only Errors drains.                                                *)
(***************************************************************************)
EXTENDS Integers, FiniteSets

CONSTANTS
    Input,        \* the map tasks, one for each input
    Partition,    \* the reduce tasks
    MaxRetries,
    Drain,        \* does some caller call Errors during the run?
    MaxRuns       \* bound on Run calls

ErrCap == 2 * Cardinality(Partition)

VARIABLES
    async, emits,     \* the configuration: ShuffleMode; emits[m]: partitions of m's pairs
    status,
    run,              \* what Run does: "off", "shuffle", "reduce", "wait" (async) or "merge"
    returned,         \* outcome of the last Run: "none", "ok" or "error"
    cancelled,        \* is mr.ctx done?
    map, mapTry,      \* map[m]: "none", "run", "report" (blocked on errCh), "gone"
    mapCh,            \* mapResultsCh: <<task, succeeded>>
    received, failedMaps,
    reporting,        \* reports the async consumer has still to send: <<partition, task>>
    reports,          \* mapReportedChs
    parts,            \* mapResults[p]: tasks whose pairs for p have arrived
    reduce, redTry,   \* reduce[p]: "none", "collect", "run", "report", "gone"
    counted, grouped, \* of each async reduce goroutine
    out,              \* reduceResults[p]: the tasks whose pairs were reduced
    redErrs,          \* partitions whose error was recorded
    errCh,            \* number of TaskErrors in errCh
    done,             \* onComplete is closed
    runs

config == <<async, emits>>
maps == <<map, mapTry, mapCh>>
shuffle == <<received, failedMaps, reporting, reports, parts>>
reduces == <<reduce, redTry, counted, grouped, out, redErrs>>
vars == <<config, status, run, returned, cancelled, maps, shuffle, reduces, errCh, done, runs>>

Init ==
    /\ async \in BOOLEAN /\ emits \in [Input -> SUBSET Partition]
    /\ status = "pending" /\ run = "off" /\ returned = "none" /\ cancelled = FALSE
    /\ map = [m \in Input |-> "none"] /\ mapTry = [m \in Input |-> 0] /\ mapCh = {}
    /\ received = {} /\ failedMaps = {} /\ reporting = {}
    /\ reports = [p \in Partition |-> {}] /\ parts = [p \in Partition |-> {}]
    /\ reduce = [p \in Partition |-> "none"] /\ redTry = [p \in Partition |-> 0]
    /\ counted = [p \in Partition |-> {}] /\ grouped = [p \in Partition |-> {}]
    /\ out = [p \in Partition |-> {}] /\ redErrs = {}
    /\ errCh = 0 /\ done = FALSE /\ runs = 0

(* Run: resetState after an earlier run, then the map goroutines, and in   *)
(* async mode the reduce goroutines. The calls of Run do not overlap and   *)
(* the goroutines of the last one are gone.                                *)
Run ==
    /\ run = "off" /\ status # "running" /\ runs < MaxRuns
    /\ \A m \in Input : map[m] \in {"none", "gone"}
    /\ \A p \in Partition : reduce[p] \in {"none", "gone"}
    /\ status' = "running" /\ run' = "shuffle" /\ returned' = "none" /\ cancelled' = FALSE
    /\ map' = [m \in Input |-> "run"] /\ mapTry' = [m \in Input |-> 0] /\ mapCh' = {}
    /\ received' = {} /\ failedMaps' = {} /\ reporting' = {}
    /\ reports' = [p \in Partition |-> {}] /\ parts' = [p \in Partition |-> {}]
    /\ reduce' = [p \in Partition |-> IF async THEN "collect" ELSE "none"]
    /\ redTry' = [p \in Partition |-> 0]
    /\ counted' = [p \in Partition |-> {}] /\ grouped' = [p \in Partition |-> {}]
    /\ out' = [p \in Partition |-> {}] /\ redErrs' = {}
    /\ errCh' = 0 /\ done' = FALSE /\ runs' = runs + 1
    /\ UNCHANGED config

-----------------------------------------------------------------------------
(* executeMapWithRetry *)
MapSeesCancel(m) ==
    /\ map[m] = "run" /\ cancelled
    /\ map' = [map EXCEPT ![m] = "gone"] /\ mapCh' = mapCh \cup {<<m, FALSE>>}
    /\ UNCHANGED <<config, status, run, returned, cancelled, mapTry, shuffle, reduces, errCh, done, runs>>

MapSucceeds(m) ==
    /\ map[m] = "run"
    /\ map' = [map EXCEPT ![m] = "gone"] /\ mapCh' = mapCh \cup {<<m, TRUE>>}
    /\ UNCHANGED <<config, status, run, returned, cancelled, mapTry, shuffle, reduces, errCh, done, runs>>

MapFails(m) ==
    /\ map[m] = "run"
    /\ IF mapTry[m] < MaxRetries
       THEN mapTry' = [mapTry EXCEPT ![m] = @ + 1] /\ UNCHANGED map
       ELSE map' = [map EXCEPT ![m] = "report"] /\ UNCHANGED mapTry
    /\ UNCHANGED <<config, status, run, returned, cancelled, mapCh, shuffle, reduces, errCh, done, runs>>

(* The TaskError is sent before the result: it waits for room in errCh.    *)
MapReports(m) ==
    /\ map[m] = "report" /\ errCh < ErrCap
    /\ errCh' = errCh + 1
    /\ map' = [map EXCEPT ![m] = "gone"] /\ mapCh' = mapCh \cup {<<m, FALSE>>}
    /\ UNCHANGED <<config, status, run, returned, cancelled, mapTry, shuffle, reduces, done, runs>>

Errors ==
    /\ Drain /\ errCh > 0 /\ errCh' = 0
    /\ UNCHANGED <<config, status, run, returned, cancelled, maps, shuffle, reduces, done, runs>>

-----------------------------------------------------------------------------
(* Run's deferred function and return value. *)
Return(outcome) ==
    /\ run' = "off" /\ returned' = outcome /\ done' = TRUE
    /\ status' = IF status = "running" THEN (IF outcome = "ok" THEN "completed" ELSE "failed") ELSE status
    /\ cancelled' = TRUE

Partitioned(m) == [p \in Partition |-> IF p \in emits[m] THEN parts[p] \cup {m} ELSE parts[p]]

(* shuffleSync, or the consumer of shuffleAsync, takes one map result; the *)
(* consumer then reports it to every reduce goroutine.                     *)
Receive(m, ok) ==
    /\ run = "shuffle" /\ <<m, ok>> \in mapCh /\ reporting = {}
    /\ mapCh' = mapCh \ {<<m, ok>>} /\ received' = received \cup {m}
    /\ failedMaps' = IF ok THEN failedMaps ELSE failedMaps \cup {m}
    /\ parts' = IF ok THEN Partitioned(m) ELSE parts
    /\ reporting' = IF async THEN Partition \X {m} ELSE {}
    /\ UNCHANGED <<config, status, run, returned, cancelled, map, mapTry, reports, reduces, errCh, done, runs>>

Report(p, m) ==
    /\ run = "shuffle" /\ <<p, m>> \in reporting
    /\ reporting' = reporting \ {<<p, m>>}
    /\ reports' = [reports EXCEPT ![p] = @ \cup {m}]
    /\ UNCHANGED <<config, status, run, returned, cancelled, maps, received, failedMaps, parts, reduces, errCh, done, runs>>

(* The shuffle has seen all maps, or sees the cancellation.                *)
ShuffleEnds ==
    /\ run = "shuffle" /\ reporting = {} /\ received = Input
    /\ CASE async -> /\ run' = "wait"
                     /\ UNCHANGED <<status, returned, cancelled, reduce, done>>
         [] ~ async /\ failedMaps # {} -> Return("error") /\ UNCHANGED reduce
         [] OTHER -> /\ run' = "reduce" /\ reduce' = [p \in Partition |-> "run"]
                     /\ UNCHANGED <<status, returned, cancelled, done>>
    /\ grouped' = IF async THEN grouped ELSE parts
    /\ UNCHANGED <<config, maps, shuffle, redTry, counted, out, redErrs, errCh, runs>>

ShuffleSeesCancel ==
    /\ run = "shuffle" /\ cancelled
    /\ IF async THEN run' = "wait" /\ UNCHANGED <<status, returned, cancelled, done>>
       ELSE Return("error")
    /\ UNCHANGED <<config, maps, shuffle, reduces, errCh, runs>>

-----------------------------------------------------------------------------
(* A reduce goroutine of shuffleAsync. *)
Collect(p, m) ==
    /\ reduce[p] = "collect" /\ m \in reports[p]
    /\ reports' = [reports EXCEPT ![p] = @ \ {m}]
    /\ counted' = [counted EXCEPT ![p] = @ \cup {m}]
    /\ grouped' = [grouped EXCEPT ![p] = IF m \in parts[p] THEN @ \cup {m} ELSE @]
    /\ UNCHANGED <<config, status, run, returned, cancelled, maps, received, failedMaps, reporting, parts,
                   reduce, redTry, out, redErrs, errCh, done, runs>>

CollectSeesCancel(p) ==
    /\ reduce[p] = "collect" /\ cancelled
    /\ reduce' = [reduce EXCEPT ![p] = "gone"] /\ redErrs' = redErrs \cup {p}
    /\ UNCHANGED <<config, status, run, returned, cancelled, maps, shuffle, redTry, counted, grouped, out, errCh, done, runs>>

AllCounted(p) == counted[p] = Input

Finalize(p) ==
    /\ reduce[p] = "collect" /\ AllCounted(p)
    /\ reduce' = [reduce EXCEPT ![p] = IF failedMaps # {} THEN "gone" ELSE "run"]
    /\ UNCHANGED <<config, status, run, returned, cancelled, maps, shuffle, redTry, counted, grouped, out, redErrs, errCh, done, runs>>

(* executeReduceWithRetry and finalizeAndRunReduce: every attempt computes *)
(* the whole partition; an empty one is never handed to ReduceFunc.        *)
ReduceSucceeds(p) ==
    /\ reduce[p] = "run"
    /\ reduce' = [reduce EXCEPT ![p] = "gone"] /\ out' = [out EXCEPT ![p] = grouped[p]]
    /\ UNCHANGED <<config, status, run, returned, cancelled, maps, shuffle, redTry, counted, grouped, redErrs, errCh, done, runs>>

ReduceFails(p) ==
    /\ reduce[p] = "run" /\ grouped[p] # {}
    /\ IF redTry[p] < MaxRetries
       THEN redTry' = [redTry EXCEPT ![p] = @ + 1] /\ UNCHANGED reduce
       ELSE reduce' = [reduce EXCEPT ![p] = "report"] /\ UNCHANGED redTry
    /\ UNCHANGED <<config, status, run, returned, cancelled, maps, shuffle, counted, grouped, out, redErrs, errCh, done, runs>>

ReduceReports(p) ==
    /\ reduce[p] = "report" /\ errCh < ErrCap
    /\ errCh' = errCh + 1
    /\ reduce' = [reduce EXCEPT ![p] = "gone"] /\ redErrs' = redErrs \cup {p}
    /\ UNCHANGED <<config, status, run, returned, cancelled, maps, shuffle, redTry, counted, grouped, out, done, runs>>

ReduceSeesCancel(p) ==
    /\ reduce[p] = "run" /\ grouped[p] # {} /\ cancelled
    /\ reduce' = [reduce EXCEPT ![p] = "gone"] /\ redErrs' = redErrs \cup {p}
    /\ UNCHANGED <<config, status, run, returned, cancelled, maps, shuffle, redTry, counted, grouped, out, errCh, done, runs>>

JobFailed == failedMaps # {} \/ redErrs # {}

(* All reduce goroutines are over; mergeResults may fail on its own. In    *)
(* async mode a consumer that left early has recorded its own error or the *)
(* reduce goroutines have.                                                 *)
Merge(ok) ==
    /\ run \in {"reduce", "wait"} /\ \A p \in Partition : reduce[p] = "gone"
    /\ Return(IF ok /\ ~ JobFailed THEN "ok" ELSE "error")
    /\ UNCHANGED <<config, maps, shuffle, reduces, errCh, runs>>

Cancel ==
    /\ status = "running" /\ status' = "failed" /\ cancelled' = TRUE
    /\ UNCHANGED <<config, run, returned, maps, shuffle, reduces, errCh, done, runs>>

(* The context given to Run ends. *)
ContextEnds ==
    /\ run # "off" /\ ~ cancelled /\ cancelled' = TRUE
    /\ UNCHANGED <<config, status, run, returned, maps, shuffle, reduces, errCh, done, runs>>

MapStep(m) == MapSeesCancel(m) \/ MapSucceeds(m) \/ MapFails(m) \/ MapReports(m)
ReduceStep(p) ==
    \/ \E m \in Input : Collect(p, m)
    \/ CollectSeesCancel(p) \/ Finalize(p)
    \/ ReduceSucceeds(p) \/ ReduceFails(p) \/ ReduceReports(p) \/ ReduceSeesCancel(p)
ShuffleStep ==
    \/ \E m \in Input, ok \in BOOLEAN : Receive(m, ok)
    \/ \E p \in Partition, m \in Input : Report(p, m)
    \/ ShuffleEnds \/ ShuffleSeesCancel
    \/ \E ok \in BOOLEAN : Merge(ok)

Next ==
    \/ Run \/ Cancel \/ ContextEnds \/ Errors
    \/ ShuffleStep
    \/ \E m \in Input : MapStep(m)
    \/ \E p \in Partition : ReduceStep(p)

Spec == Init /\ [][Next]_vars

(* The goroutines of a run keep running; nobody has to start, cancel or    *)
(* drain anything.                                                         *)
FairSpec ==
    /\ Spec
    /\ WF_vars(ShuffleStep)
    /\ \A m \in Input : WF_vars(MapStep(m))
    /\ \A p \in Partition : WF_vars(ReduceStep(p))

-----------------------------------------------------------------------------
TypeOK ==
    /\ status \in {"pending", "running", "completed", "failed"}
    /\ run \in {"off", "shuffle", "reduce", "wait"} /\ returned \in {"none", "ok", "error"}
    /\ map \in [Input -> {"none", "run", "report", "gone"}]
    /\ reduce \in [Partition -> {"none", "collect", "run", "report", "gone"}]
    /\ mapCh \subseteq Input \X BOOLEAN /\ errCh \in 0..ErrCap

(* A run that returned a result has reduced, in every partition, exactly   *)
(* the pairs of the inputs that emitted for it, in both shuffle modes.     *)
ResultIsComplete ==
    returned = "ok" => \A p \in Partition : out[p] = {m \in Input : p \in emits[m]}

(* A reduce that gave up, or was told to stop, is never hidden behind a    *)
(* successful Run, and Done is closed whenever Run has returned.           *)
FailureIsReported ==
    /\ returned = "ok" => redErrs = {} /\ failedMaps = {}
    /\ returned # "none" => done

(* docs/mapreduce.md: a failed map task fails the whole job, which returns *)
(* an error: Run does not block for ever.                                  *)
Off == run = "off"

RunReturns == []<>Off
=============================================================================
