----------------------------- MODULE Pipelines ------------------------------
(*****************************************************************************)
(* Data on the move: the pipeline of streamproc, its windows, and the        *)
(* extraction runs of etlpipe. The parts share no state; each has its own    *)
(* specification.                                                            *)
(*****************************************************************************)
EXTENDS Integers, Sequences, SequencesExt, FiniteSets

(***************************************************************************)
(* The goroutines of streamproc.Pipeline over a SliceSource: the source's  *)
(* run, sourceReader and recordProcessor, with back-pressure, Pause,       *)
(* Resume and Stop.  Records are numbered in the order of the source.  The *)
(* operator chain passes, drops or fails a record; windows are in          *)
(* StreamWindow, checkpoints are left out.                                 *)
(***************************************************************************)

CONSTANTS
    Data,               \* number of records
    SourceBuffer, BufferSize,
    Threshold,          \* BackpressureThreshold, with the default ratios
    MaxPauses           \* bound: calls of Pause

VARIABLES
    src,        \* [state, next, pc, rec]: the source and its run
    output,     \* channel from the source, closed when src.pc = "ended"
    recordCh, pendingCount,
    rdr, prc,   \* [pc, rec] of sourceReader and recordProcessor
    sourcePaused, relieved,     \* relieved: a token in backpressureRelieved
    pipeStatus,
    stop,       \* "no", "begun", "told" (stopCh closed, ctx cancelled) or "done"
    sink,       \* records passed on
    gone,       \* records the processor has finished with
    pauses,
    pipeExcused     \* the pause or the release of back-pressure was missed

pipeVars == <<src, output, recordCh, pendingCount, rdr, prc, sourcePaused, relieved, pipeStatus, stop, sink, gone, pauses, pipeExcused>>

PrcPc == {"top", "counted", "passed", "relieve", "resume", "done"}
RdrPc == {"top", "send", "count", "check", "pause", "mark", "done"}

PipeTypeOK ==
    /\ src.state \in {"idle", "running", "paused", "stopped"} /\ src.next \in 1..Data + 1
    /\ src.pc \in {"new", "look", "send", "ended"}
    /\ Len(output) <= SourceBuffer /\ Len(recordCh) <= BufferSize
    /\ pendingCount \in -1..BufferSize + 1
    /\ rdr.pc \in RdrPc /\ prc.pc \in PrcPc
    /\ {sourcePaused, relieved, pipeExcused} \subseteq BOOLEAN
    /\ pipeStatus \in {"idle", "running", "paused", "stopped", "completed"}
    /\ stop \in {"no", "begun", "told", "done"}

Told == stop \in {"told", "done"}

(* GetBackpressureInfo: Critical from 0.9 of the threshold, Normal below 0.7 *)
ShouldApply == 10 * pendingCount >= 9 * Threshold
IsRelieved == 10 * pendingCount < 7 * Threshold

(***************************************************************************)
(* SliceSource.run: the look at the state and the choice of the record are *)
(* one step, since a Pause in between acts on the next record.             *)
(***************************************************************************)
SourceTakes ==
    /\ src.pc = "look" /\ src.state = "running" /\ src.next <= Data
    /\ src' = [src EXCEPT !.pc = "send", !.rec = src.next, !.next = @ + 1]
    /\ UNCHANGED <<output, recordCh, pendingCount, rdr, prc, sourcePaused, relieved, pipeStatus, stop, sink, gone, pauses, pipeExcused>>

SourceSends ==
    /\ src.pc = "send" /\ Len(output) < SourceBuffer
    /\ output' = Append(output, src.rec)
    /\ src' = [src EXCEPT !.pc = "look", !.rec = 0]
    /\ UNCHANGED <<recordCh, pendingCount, rdr, prc, sourcePaused, relieved, pipeStatus, stop, sink, gone, pauses, pipeExcused>>

(* the end of the data, a stopped source, or the cancelled context *)
SourceEnds ==
    /\ \/ src.pc = "look" /\ src.state = "stopped"
       \/ src.pc = "look" /\ src.state = "running" /\ src.next > Data
       \/ src.pc = "look" /\ src.state = "paused" /\ Told
       \/ src.pc = "send" /\ Told
    /\ src' = [src EXCEPT !.pc = "ended"]
    /\ UNCHANGED <<output, recordCh, pendingCount, rdr, prc, sourcePaused, relieved, pipeStatus, stop, sink, gone, pauses, pipeExcused>>

(***************************************************************************)
(* sourceReader                                                            *)
(***************************************************************************)
Rdr(pc, rec) == rdr' = [pc |-> pc, rec |-> rec]

(* a paused reader waits for the token and looks again *)
ReaderWakes ==
    /\ rdr.pc = "top" /\ sourcePaused /\ relieved
    /\ relieved' = FALSE
    /\ UNCHANGED <<src, output, recordCh, pendingCount, rdr, prc, sourcePaused, pipeStatus, stop, sink, gone, pauses, pipeExcused>>

ReaderReceives ==
    /\ rdr.pc = "top" /\ ~sourcePaused /\ output # <<>>
    /\ Rdr("send", Head(output))
    /\ output' = Tail(output)
    /\ UNCHANGED <<src, recordCh, pendingCount, prc, sourcePaused, relieved, pipeStatus, stop, sink, gone, pauses, pipeExcused>>

ReaderSeesEnd ==
    /\ rdr.pc = "top" /\ ~sourcePaused /\ output = <<>> /\ src.pc = "ended"
    /\ Rdr("done", 0)
    /\ pipeStatus' = IF pipeStatus = "stopped" THEN pipeStatus ELSE "completed"
    /\ UNCHANGED <<src, output, recordCh, pendingCount, prc, sourcePaused, relieved, stop, sink, gone, pauses, pipeExcused>>

ReaderSends ==
    /\ rdr.pc = "send" /\ Len(recordCh) < BufferSize
    /\ recordCh' = Append(recordCh, rdr.rec)
    /\ Rdr("count", 0)
    /\ UNCHANGED <<src, output, pendingCount, prc, sourcePaused, relieved, pipeStatus, stop, sink, gone, pauses, pipeExcused>>

ReaderCounts ==
    /\ rdr.pc = "count"
    /\ pendingCount' = pendingCount + 1
    /\ Rdr("check", 0)
    /\ UNCHANGED <<src, output, recordCh, prc, sourcePaused, relieved, pipeStatus, stop, sink, gone, pauses, pipeExcused>>

ReaderChecks ==
    /\ rdr.pc = "check"
    /\ Rdr(IF ShouldApply THEN "pause" ELSE "top", 0)
    /\ UNCHANGED <<src, output, recordCh, pendingCount, prc, sourcePaused, relieved, pipeStatus, stop, sink, gone, pauses, pipeExcused>>

(* applyBackpressurePause: Pause and the flag are two critical sections *)
PauseSource ==
    /\ rdr.pc = "pause"
    /\ IF ~sourcePaused /\ src.state = "running"
       THEN src' = [src EXCEPT !.state = "paused"] /\ Rdr("mark", 0)
       ELSE UNCHANGED src /\ Rdr("top", 0)
    /\ UNCHANGED <<output, recordCh, pendingCount, prc, sourcePaused, relieved, pipeStatus, stop, sink, gone, pauses, pipeExcused>>

(* nobody is left to release a pause that comes after the pending records *)
MarkPaused ==
    /\ rdr.pc = "mark"
    /\ sourcePaused' = TRUE
    /\ Rdr("top", 0)
    /\ pipeExcused' = (pipeExcused \/ IsRelieved \/ prc.pc \in {"relieve", "resume"})
    /\ UNCHANGED <<src, output, recordCh, pendingCount, prc, relieved, pipeStatus, stop, sink, gone, pauses>>

(* at any select the reader may see that it is to stop; a record is lost *)
ReaderStops ==
    /\ Told /\ rdr.pc \in {"top", "send"}
    /\ Rdr("done", 0)
    /\ UNCHANGED <<src, output, recordCh, pendingCount, prc, sourcePaused, relieved, pipeStatus, stop, sink, gone, pauses, pipeExcused>>

(***************************************************************************)
(* recordProcessor                                                         *)
(***************************************************************************)
Prc(pc, rec) == prc' = [pc |-> pc, rec |-> rec]

ProcessorReceives ==
    /\ prc.pc = "top" /\ recordCh # <<>>
    /\ Prc("counted", Head(recordCh))
    /\ recordCh' = Tail(recordCh)
    /\ UNCHANGED <<src, output, pendingCount, rdr, sourcePaused, relieved, pipeStatus, stop, sink, gone, pauses, pipeExcused>>

(* OperatorChain.Process *)
ProcessorPasses ==
    /\ prc.pc = "counted"
    /\ pendingCount' = pendingCount - 1
    /\ Prc("passed", prc.rec)
    /\ UNCHANGED <<src, output, recordCh, rdr, sourcePaused, relieved, pipeStatus, stop, sink, gone, pauses, pipeExcused>>

(* a record that is filtered, or fails, is not followed by a look at the     *)
(* back-pressure                                                             *)
ProcessorDrops ==
    /\ prc.pc = "counted"
    /\ pendingCount' = pendingCount - 1
    /\ gone' = Append(gone, prc.rec)
    /\ Prc("top", 0)
    /\ pipeExcused' = TRUE
    /\ UNCHANGED <<src, output, recordCh, rdr, sourcePaused, relieved, pipeStatus, stop, sink, pauses>>

Consume ==
    /\ prc.pc = "passed"
    /\ sink' = Append(sink, prc.rec)
    /\ gone' = Append(gone, prc.rec)
    /\ Prc("relieve", 0)
    /\ UNCHANGED <<src, output, recordCh, pendingCount, rdr, sourcePaused, relieved, pipeStatus, stop, pauses, pipeExcused>>

(* tryResumeFromBackpressure *)
MayResume == sourcePaused /\ IsRelieved

Relieve ==
    /\ prc.pc = "relieve"
    /\ IF MayResume
       THEN sourcePaused' = FALSE /\ relieved' = TRUE /\ Prc("resume", 0)
       ELSE UNCHANGED <<sourcePaused, relieved>> /\ Prc("top", 0)
    /\ UNCHANGED <<src, output, recordCh, pendingCount, rdr, pipeStatus, stop, sink, gone, pauses, pipeExcused>>

(* The source resumes although Pause may have been called meanwhile *)
ResumeSource ==
    /\ prc.pc = "resume"
    /\ src' = IF src.state = "paused" THEN [src EXCEPT !.state = "running"] ELSE src
    /\ Prc("top", 0)
    /\ UNCHANGED <<output, recordCh, pendingCount, rdr, sourcePaused, relieved, pipeStatus, stop, sink, gone, pauses, pipeExcused>>

ProcessorStops ==
    /\ Told /\ prc.pc = "top"
    /\ Prc("done", 0)
    /\ UNCHANGED <<src, output, recordCh, pendingCount, rdr, sourcePaused, relieved, pipeStatus, stop, sink, gone, pauses, pipeExcused>>

(***************************************************************************)
(* Calls                                                                   *)
(***************************************************************************)
PipeStart ==
    /\ pipeStatus = "idle"
    /\ pipeStatus' = "running"
    /\ src' = [src EXCEPT !.state = "running", !.pc = "look"]
    /\ Rdr("top", 0) /\ Prc("top", 0)
    /\ UNCHANGED <<output, recordCh, pendingCount, sourcePaused, relieved, stop, sink, gone, pauses, pipeExcused>>

Pause ==
    /\ pipeStatus = "running" /\ stop = "no" /\ pauses < MaxPauses
    /\ pauses' = pauses + 1
    /\ pipeStatus' = "paused"
    /\ src' = IF src.state = "running" THEN [src EXCEPT !.state = "paused"] ELSE src
    /\ UNCHANGED <<output, recordCh, pendingCount, rdr, prc, sourcePaused, relieved, stop, sink, gone, pipeExcused>>

Resume ==
    /\ pipeStatus = "paused"
    /\ pipeStatus' = "running"
    /\ src' = IF src.state = "paused" THEN [src EXCEPT !.state = "running"] ELSE src
    /\ UNCHANGED <<output, recordCh, pendingCount, rdr, prc, sourcePaused, relieved, stop, sink, gone, pauses, pipeExcused>>

(* nothing is done for a pipeline that has completed *)
StopBegin ==
    /\ pipeStatus \in {"running", "paused"}
    /\ pipeStatus' = "stopped" /\ stop' = "begun"
    /\ UNCHANGED <<src, output, recordCh, pendingCount, rdr, prc, sourcePaused, relieved, sink, gone, pauses, pipeExcused>>

StopTells ==
    /\ stop = "begun"
    /\ stop' = "told"
    /\ UNCHANGED <<src, output, recordCh, pendingCount, rdr, prc, sourcePaused, relieved, pipeStatus, sink, gone, pauses, pipeExcused>>

StopReturns ==
    /\ stop = "told" /\ rdr.pc = "done" /\ prc.pc = "done"
    /\ stop' = "done"
    /\ src' = [src EXCEPT !.state = "stopped"]
    /\ UNCHANGED <<output, recordCh, pendingCount, rdr, prc, sourcePaused, relieved, pipeStatus, sink, gone, pauses, pipeExcused>>

PipeInit ==
    /\ src = [state |-> "idle", next |-> 1, pc |-> "new", rec |-> 0] /\ output = <<>>
    /\ recordCh = <<>> /\ pendingCount = 0
    /\ rdr = [pc |-> "done", rec |-> 0] /\ prc = [pc |-> "done", rec |-> 0]
    /\ sourcePaused = FALSE /\ relieved = FALSE /\ pipeStatus = "idle" /\ stop = "no"
    /\ sink = <<>> /\ gone = <<>> /\ pauses = 0 /\ pipeExcused = FALSE

PipeNext ==
    \/ SourceTakes \/ SourceSends \/ SourceEnds
    \/ ReaderWakes \/ ReaderReceives \/ ReaderSeesEnd \/ ReaderSends \/ ReaderCounts \/ ReaderChecks
    \/ PauseSource \/ MarkPaused \/ ReaderStops
    \/ ProcessorReceives \/ ProcessorPasses \/ ProcessorDrops \/ Consume \/ Relieve \/ ResumeSource \/ ProcessorStops
    \/ PipeStart \/ Pause \/ Resume \/ StopBegin \/ StopTells \/ StopReturns

PipeSpec == PipeInit /\ [][PipeNext]_pipeVars

-----------------------------------------------------------------------------
Hand(r) == IF r = 0 THEN <<>> ELSE <<r>>

(* Until it is told to stop, the pipeline neither loses, repeats nor         *)
(* reorders a record: what is done, in the processor, in recordCh, in the    *)
(* reader, in the channel of the source and in its hand is what the source   *)
(* has taken, in order, through pauses and back-pressure.  And pendingCount, *)
(* which is changed outside the channel operations, is off only by the two   *)
(* goroutines that are about to change it.                                   *)
PipelineKeepsRecords ==
    stop \in {"no", "begun"} =>
        /\ gone \o Hand(prc.rec) \o recordCh \o Hand(rdr.rec) \o output \o Hand(src.rec)
             = [i \in 1..src.next - 1 |-> i]
        /\ pendingCount = Len(recordCh) + (IF prc.pc = "counted" THEN 1 ELSE 0) - (IF rdr.pc = "count" THEN 1 ELSE 0)

(* Back-pressure is taken back: a pipeline whose processor has nothing left  *)
(* to do does not keep its source paused for it.  Excused are a pause that   *)
(* is marked when the pending records are already gone, and dropped records, *)
(* after which the processor does not look.                                  *)
BackpressureReleased ==
    sourcePaused /\ recordCh = <<>> /\ prc.pc = "top" /\ rdr.pc = "top" => pipeExcused

-----------------------------------------------------------------------------
(***************************************************************************)
(* The windows of streamproc.WindowAggregator: tumbling and sliding, over  *)
(* time or over sequence numbers.  Window i starts at i * Slide and is     *)
(* Size long; a tumbling window has Slide = Size.  A record is known by    *)
(* the order of its arrival, n; at is its time, or its sequence number     *)
(* minus 1.  Aggregates are left out: a bucket is the records it got.      *)
(***************************************************************************)

CONSTANTS
    Time,               \* TRUE: windows over time, FALSE: over sequence numbers
    Size, Slide, Watermark,
    ResultBuffer,
    MaxRecords, MaxTime, MaxSaves       \* bounds

VARIABLES
    order,      \* bucketOrder: the ids of the open buckets
    buckets,    \* [id -> [end, recs]] of the open ones
    results,    \* the channel
    now,
    phase,      \* "running" or "stopped"
    saved,      \* the checkpoint: a state, or <<>>
    saves,
    recs,       \* all records so far
    out,        \* all results sent
    dropped     \* a result found the channel full

windowVars == <<order, buckets, results, now, phase, saved, saves, recs, out, dropped>>

Record == [n : 1..MaxRecords, at : 0..MaxTime]
Empty == [i \in {} |-> 0]

WindowTypeOK ==
    /\ DOMAIN buckets = ToSet(order) /\ IsInjective(order)
    /\ \A i \in DOMAIN buckets : buckets[i].recs # {} /\ buckets[i].recs \subseteq Record
    /\ Len(results) <= ResultBuffer
    /\ now \in 0..MaxTime /\ phase \in {"running", "stopped"}
    /\ recs \subseteq Record

Tumbling == Size = Slide

(* getSlidingTimeBuckets and getOrCreateCountBuckets: the first window that  *)
(* can still contain t, then every Slide up to t                             *)
FirstIdx(t) ==
    IF Time THEN (t - Size + Slide) \div Slide
    ELSE IF t + 1 > Size THEN (t + 1 - Size) \div Slide ELSE 0
Ids(t) == {i \in FirstIdx(t)..(t \div Slide) : i >= 0 /\ t < i * Slide + Size}

(***************************************************************************)
(* closeBucketLocked, on a state [order, buckets, results, out, dropped]    *)
(***************************************************************************)
Now == [order |-> order, buckets |-> buckets, results |-> results, out |-> out, dropped |-> dropped]

Send(s, i, partial) ==
    LET r == [id |-> i, recs |-> s.buckets[i].recs, partial |-> partial]
    IN IF Len(s.results) < ResultBuffer
       THEN [s EXCEPT !.results = Append(@, r), !.out = Append(@, r)]
       ELSE [s EXCEPT !.dropped = TRUE]

CloseBucket(s, i) ==
    IF i \notin DOMAIN s.buckets THEN s
    ELSE [Send(s, i, FALSE) EXCEPT
            !.buckets = [j \in DOMAIN s.buckets \ {i} |-> s.buckets[j]],
            !.order = Remove(s.order, i)]

CloseAll(s, ids) == FoldLeft(CloseBucket, s, ids)

Becomes(s) ==
    /\ order' = s.order /\ buckets' = s.buckets /\ results' = s.results
    /\ out' = s.out /\ dropped' = s.dropped

(* checkTimeWindowsLocked and checkCountWindowsLocked *)
Closable(s, i, t) ==
    IF Time THEN s.buckets[i].end <= now - Watermark
    ELSE IF Tumbling THEN Cardinality(s.buckets[i].recs) >= Size
    ELSE t >= s.buckets[i].end - 1
CloseDue(s, t) == CloseAll(s, SelectSeq(s.order, LAMBDA i : Closable(s, i, t)))

(***************************************************************************)
(* Process: the record goes to each of its windows, opened if need be.     *)
(* A record without a window (Slide > Size) is not modelled.               *)
(***************************************************************************)
Open(s, i) ==
    IF i \in DOMAIN s.buckets THEN s
    ELSE [s EXCEPT !.order = Append(@, i),
                   !.buckets = [j \in DOMAIN @ \cup {i} |->
                                  IF j = i THEN [end |-> i * Slide + Size, recs |-> {}] ELSE @[j]]]
AddTo(s, ids, r) ==
    LET o == FoldLeft(Open, s, SetToSortSeq(ids, <))
    IN [o EXCEPT !.buckets = [j \in DOMAIN @ |-> IF j \in ids THEN [@[j] EXCEPT !.recs = @ \cup {r}] ELSE @[j]]]

WindowProcess(t) ==
    /\ phase = "running" /\ Cardinality(recs) < MaxRecords
    /\ LET r == [n |-> Cardinality(recs) + 1, at |-> t]
       IN /\ Becomes(CloseDue(AddTo(Now, Ids(t), r), t))
          /\ recs' = recs \cup {r}
    /\ UNCHANGED <<now, phase, saved, saves>>

(* A record may be late; sequence numbers do not fall, but a filter leaves   *)
(* gaps and a flat map repeats one.                                          *)
Arrival(t) == IF Time THEN t <= now ELSE \A r \in recs : r.at <= t

(* a tick of timeWindowLoop *)
CheckTimeWindows ==
    /\ Time /\ phase = "running"
    /\ \E i \in DOMAIN buckets : Closable(Now, i, 0)
    /\ Becomes(CloseDue(Now, 0))
    /\ UNCHANGED <<now, phase, saved, saves, recs>>

Tick ==
    /\ Time /\ now < MaxTime
    /\ now' = now + 1
    /\ UNCHANGED <<order, buckets, results, phase, saved, saves, recs, out, dropped>>

FlushAll ==
    /\ phase = "running" /\ order # <<>>
    /\ Becomes(CloseAll(Now, order))
    /\ UNCHANGED <<now, phase, saved, saves, recs>>

(* windowResultReader *)
ReadResult ==
    /\ results # <<>>
    /\ results' = Tail(results)
    /\ UNCHANGED <<order, buckets, now, phase, saved, saves, recs, out, dropped>>

(* Stop closes time windows while it walks over bucketOrder, from which each *)
(* close removes an element in place: it meets every second one.  Count      *)
(* windows are sent as they are and stay.                                    *)
WindowStop ==
    /\ phase = "running"
    /\ phase' = "stopped"
    /\ IF Time
       THEN Becomes(CloseAll(Now, [k \in 1..(Len(order) + 1) \div 2 |-> order[2 * k - 1]]))
       ELSE Becomes(FoldLeft(LAMBDA s, i : Send(s, i, TRUE), Now, order))
    /\ UNCHANGED <<now, saved, saves, recs>>

(* The results and records of the time of the checkpoint are kept with it:   *)
(* what came later comes again after RestoreState in a new aggregator.       *)
SaveState ==
    /\ phase = "running" /\ saves < MaxSaves
    /\ saves' = saves + 1
    /\ saved' = <<[order |-> order, buckets |-> buckets, out |-> out, recs |-> recs]>>
    /\ UNCHANGED <<order, buckets, results, now, phase, recs, out, dropped>>

RestoreState ==
    /\ saved # <<>>
    /\ LET s == saved[1] IN
         /\ order' = s.order /\ buckets' = s.buckets
         /\ out' = s.out /\ recs' = s.recs
    /\ saved' = <<>>
    /\ phase' = "running" /\ results' = <<>>
    /\ UNCHANGED <<now, saves, dropped>>

WindowInit ==
    /\ order = <<>> /\ buckets = Empty /\ results = <<>> /\ now = 0 /\ phase = "running"
    /\ saved = <<>> /\ saves = 0 /\ recs = {} /\ out = <<>> /\ dropped = FALSE

WindowNext ==
    \/ \E t \in 0..MaxTime : Arrival(t) /\ WindowProcess(t)
    \/ CheckTimeWindows \/ Tick \/ FlushAll \/ ReadResult \/ WindowStop \/ SaveState \/ RestoreState

WindowSpec == WindowInit /\ [][WindowNext]_windowVars

-----------------------------------------------------------------------------
Within(i, r) == i * Slide <= r.at /\ r.at < i * Slide + Size
Places(i, r) ==
    {k \in DOMAIN out : out[k].id = i /\ r \in out[k].recs /\ ~out[k].partial}
        \cup (IF i \in DOMAIN buckets /\ r \in buckets[i].recs THEN {0} ELSE {})

(* Every record is counted once in each window that contains it, in its open *)
(* bucket or in one result, and in no other window: through late records,    *)
(* flushes, ticks between records, repeated and missing sequence numbers,    *)
(* and a restored checkpoint.  Excused are results dropped on a full channel *)
(* and the time windows that Stop forgets.                                   *)
WindowsCountOnce ==
    ~dropped /\ (Time => phase = "running") =>
        \A r \in recs, i \in 0..MaxTime : Cardinality(Places(i, r)) = (IF Within(i, r) THEN 1 ELSE 0)

-----------------------------------------------------------------------------
(***************************************************************************)
(* The pipeline of internal/etlpipe with its memory source: Run fetches,   *)
(* transforms and writes batch after batch until the source is empty or    *)
(* Stop is seen, and may be run again. Record i is the i-th of the source, *)
(* Stamp[i] what an incremental extraction compares: its id or timestamp.  *)
(***************************************************************************)

CONSTANTS
    Stamp,          \* ascending, with ties when it is a timestamp
    ExtractMode,    \* "full", "id" or "timestamp"
    BatchSize,
    Broken,         \* records a transformer fails on
    MaxErrorQueueSize,
    MaxRuns, MaxFaults   \* bounds: calls of Run; errors of the source, failed and late writes, resets

VARIABLES
    etlStatus, pc,
    stopped,        \* stopCh is closed
    cursor,         \* [offset, value]
    currentOffset,  \* of the source
    batch,          \* the batch in work
    todo,           \* its transformed records
    target,         \* what the target holds, in order
    tErrors, wErrors,
    stats,          \* [extracted, written, tfail, wfail]
    etlExcused,        \* records that a Stop, a tie or a full error queue may lose
    late,           \* records written after the timeout
    behind,         \* a discarded batch left the cursor's offset behind
    runs, faults

etlVars == <<etlStatus, pc, stopped, cursor, currentOffset, batch, todo, target, tErrors, wErrors,
          stats, etlExcused, late, behind, runs, faults>>

N == Len(Stamp)
Stats0 == [extracted |-> 0, written |-> 0, tfail |-> 0, wfail |-> 0]
Least(a, b) == IF a < b THEN a ELSE b

EtlStart ==
    IF ExtractMode = "full" THEN IF cursor.offset > currentOffset THEN cursor.offset ELSE currentOffset
    ELSE IF cursor.value = 0 THEN currentOffset
    ELSE LET newer == {i \in currentOffset + 1 .. N : Stamp[i] > cursor.value}
         IN IF newer = {} THEN N ELSE (CHOOSE i \in newer : \A j \in newer : i <= j) - 1

(* Records passed over although nothing was done with them. *)
Skipped == {i \in currentOffset + 1 .. EtlStart : i > cursor.offset}

Fails == faults < MaxFaults /\ faults' = faults + 1

Run ==
    /\ etlStatus # "running" /\ runs < MaxRuns
    /\ etlStatus' = "running" /\ pc' = "loop" /\ stopped' = FALSE /\ stats' = Stats0 /\ runs' = runs + 1
    /\ UNCHANGED <<cursor, currentOffset, batch, todo, target, tErrors, wErrors, etlExcused, late, behind, faults>>

EtlStop ==
    /\ ~ stopped /\ etlStatus = "running" /\ stopped' = TRUE
    /\ UNCHANGED <<etlStatus, pc, cursor, currentOffset, batch, todo, target, tErrors, wErrors, stats, etlExcused, late, behind, runs, faults>>

Return(how) ==
    /\ etlStatus' = IF how = "error" THEN "failed" ELSE IF stopped THEN "stopped" ELSE "completed"
    /\ pc' = "none" /\ batch' = <<>> /\ todo' = <<>>
    /\ UNCHANGED <<stopped, cursor, target, tErrors, wErrors, stats, late, runs>>

SeeStop == pc = "loop" /\ stopped /\ Return("ok") /\ UNCHANGED <<currentOffset, etlExcused, behind, faults>>

FetchFails == pc = "loop" /\ ~ stopped /\ Fails /\ Return("error") /\ UNCHANGED <<currentOffset, etlExcused, behind>>

FetchEmpty ==
    /\ pc = "loop" /\ EtlStart >= N /\ ~ stopped
    /\ Return("ok") /\ etlExcused' = etlExcused \cup Skipped
    /\ currentOffset' = IF ExtractMode = "full" THEN EtlStart ELSE currentOffset
    /\ UNCHANGED <<behind, faults>>

(* The source hands out a batch and moves on. *)
Fetch ==
    /\ pc = "loop" /\ ~ stopped /\ EtlStart < N
    /\ LET end == Least(EtlStart + BatchSize, N) IN
       /\ batch' = [k \in 1 .. end - EtlStart |-> EtlStart + k]
       /\ currentOffset' = end
    /\ etlExcused' = etlExcused \cup Skipped
    /\ pc' = "fetched"
    /\ UNCHANGED <<etlStatus, stopped, cursor, todo, target, tErrors, wErrors, stats, late, behind, runs, faults>>

(* A Stop seen while the source is asked: the batch is thrown away. *)
DiscardBatch ==
    /\ pc = "fetched" /\ stopped
    /\ Return("ok") /\ etlExcused' = etlExcused \cup ToSet(batch) /\ behind' = TRUE
    /\ UNCHANGED <<currentOffset, faults>>

(* The error queue drops its oldest entry when it is full. *)
Queue(q, s) == LET all == q \o s IN
    IF Len(all) <= MaxErrorQueueSize THEN all ELSE SubSeq(all, Len(all) - MaxErrorQueueSize + 1, Len(all))
Dropped(q, s) == ToSet(SubSeq(q \o s, 1, Len(q \o s) - Len(Queue(q, s))))

(* TransformChain.Process and the rules of a transformer: they fail or not. *)
EtlProcess(r) == r \notin Broken

Transform ==
    LET bad == SelectSeq(batch, LAMBDA r : ~ EtlProcess(r))
        good == SelectSeq(batch, EtlProcess)
    IN /\ pc = "fetched"
       /\ tErrors' = Queue(tErrors, bad) /\ etlExcused' = etlExcused \cup Dropped(tErrors, bad)
       /\ stats' = [stats EXCEPT !.extracted = @ + Len(batch), !.tfail = @ + Len(bad)]
       /\ todo' = good /\ pc' = IF good = <<>> THEN "cursor" ELSE "write"
       /\ UNCHANGED <<etlStatus, stopped, cursor, currentOffset, batch, target, wErrors, late, behind, runs, faults>>

(* WriteBatch of the target: failed records are not written; how tells      *)
(* which case of the select of writeBatch sees it.                          *)
Write(failed, how) ==
    LET written == SelectSeq(todo, LAMBDA r : r \notin failed)
        bad == IF how = "timeout" THEN todo ELSE SelectSeq(todo, LAMBDA r : r \in failed)
    IN /\ pc = "write" /\ failed \subseteq ToSet(todo)
       /\ how = "stop" => stopped
       /\ IF how = "timeout" \/ failed # {} THEN Fails ELSE UNCHANGED faults
       /\ target' = target \o written
       /\ late' = IF how = "timeout" THEN late \cup ToSet(written) ELSE late
       /\ IF how = "stop"
          THEN etlExcused' = etlExcused \cup failed \cup ToSet(written) /\ UNCHANGED <<wErrors, stats>>
          ELSE /\ wErrors' = Queue(wErrors, bad) /\ etlExcused' = etlExcused \cup Dropped(wErrors, bad)
               /\ stats' = [stats EXCEPT !.wfail = @ + Len(bad), !.written = @ + Len(todo) - Len(bad)]
       /\ pc' = "cursor"
       /\ UNCHANGED <<etlStatus, stopped, cursor, currentOffset, batch, todo, tErrors, behind, runs>>

updateCursor ==
    /\ pc = "cursor" /\ pc' = "loop"
    /\ cursor' = [offset |-> cursor.offset + Len(batch),
                  value |-> IF ExtractMode = "full" THEN 0 ELSE Stamp[Last(batch)]]
    /\ batch' = <<>> /\ todo' = <<>>
    /\ UNCHANGED <<etlStatus, stopped, currentOffset, target, tErrors, wErrors, stats, etlExcused, late, behind, runs, faults>>

(* The source starts from its first record again, before another Run. *)
Reset ==
    /\ etlStatus # "running" /\ Fails /\ currentOffset' = 0
    /\ UNCHANGED <<etlStatus, pc, stopped, cursor, batch, todo, target, tErrors, wErrors, stats, etlExcused, late, behind, runs>>

EtlInit ==
    /\ etlStatus = "idle" /\ pc = "none" /\ stopped = FALSE /\ cursor = [offset |-> 0, value |-> 0]
    /\ currentOffset = 0 /\ batch = <<>> /\ todo = <<>> /\ target = <<>> /\ tErrors = <<>> /\ wErrors = <<>>
    /\ stats = Stats0 /\ etlExcused = {} /\ late = {} /\ behind = FALSE /\ runs = 0 /\ faults = 0

EtlNext ==
    \/ Run \/ EtlStop \/ SeeStop \/ FetchFails \/ FetchEmpty \/ Fetch \/ DiscardBatch \/ Transform
    \/ \E failed \in SUBSET ToSet(todo), how \in {"done", "stop", "timeout"} : Write(failed, how)
    \/ updateCursor \/ Reset

EtlSpec == EtlInit /\ [][EtlNext]_etlVars

-----------------------------------------------------------------------------
EtlTypeOK ==
    /\ etlStatus \in {"idle", "running", "completed", "failed", "stopped"}
    /\ currentOffset \in 0 .. N /\ Len(tErrors) <= MaxErrorQueueSize /\ Len(wErrors) <= MaxErrorQueueSize
    /\ ToSet(todo) \subseteq ToSet(batch)

Reported == ToSet(tErrors) \cup ToSet(wErrors)

(* Through stops, failed fetches, failed writes and repeated runs with the  *)
(* source started again, no record is handled twice, unless a Stop threw a  *)
(* batch away in the full mode. Every record before the next to be fetched  *)
(* is in the target or reported, in both only if its write was late, except *)
(* those that a Stop, a tie of timestamps or a full error queue loses.      *)
EtlAccountsRows ==
    /\ ExtractMode # "full" \/ ~ behind =>
          /\ \A i, j \in DOMAIN target : target[i] = target[j] => i = j
          /\ ToSet(target) \cap Reported \subseteq late
    /\ pc \in {"loop", "none"} =>
          \A r \in 1 .. EtlStart : r \in ToSet(target) \/ r \in Reported \/ r \in etlExcused \cup Skipped
    /\ pc \in {"loop", "none"} /\ ~ stopped => stats.extracted = stats.written + stats.tfail + stats.wfail
=============================================================================
