--------------------------------- MODULE WAL ---------------------------------
(***************************************************************************)
(* The write-ahead log of internal/wal: append with rotation, reading by   *)
(* offset, recovery after a restart, and the ways in which a write can end *)
(* half done.  Sizes are counted in units of the entry header.  A record   *)
(* on disk is [n, off, total, have]: its identity, its offset, the length  *)
(* its header claims and the units of it that were written.                *)
(***************************************************************************)
EXTENDS Integers, Sequences, FiniteSets, SequencesExt

CONSTANTS
    Sizes,            \* lengths of entries
    MaxSegmentSize,
    BufferSize,       \* of the reader of streamScanEntry
    FSyncOnWrite,
    MaxAppends,       \* bound: calls of Append
    MaxFaults         \* bound: failed writes and crashes

VARIABLES
    files,        \* the segment files, oldest first: sequences of records
    synced,       \* records of the last file that survive a power loss
    segments,     \* what is remembered of each file: [size, start, end]
    nextOffset,
    open,         \* a WAL object exists and is not closed
    fd,           \* the active segment has an open file
    acked,        \* records for which Append returned an offset
    appends, faults

vars == <<files, synced, segments, nextOffset, open, fd, acked, appends, faults>>

Record == [n : 1..MaxAppends, off : 0..MaxAppends, total : Sizes, have : 1..100]
Segment == [size : Nat, start : -1..MaxAppends, end : -1..MaxAppends]

TypeOK ==
    /\ \A i \in DOMAIN files : \A r \in ToSet(files[i]) : r \in Record /\ r.have <= r.total
    /\ synced \in 0..(IF files = <<>> THEN 0 ELSE Len(Last(files)))
    /\ \A i \in DOMAIN segments : segments[i] \in Segment /\ (segments[i].start = -1 <=> segments[i].end = -1)
    /\ open => Len(segments) = Len(files) /\ Len(files) > 0
    /\ nextOffset \in 0..MaxAppends
    /\ acked \subseteq [n : 1..MaxAppends, off : 0..MaxAppends]
    /\ {open, fd} \subseteq BOOLEAN

Whole(r) == r.have = r.total

Sum(f, a, b) == FoldLeft(LAMBDA s, r : s + r.have, 0, SubSeq(f, a, b))
FileSize(f) == Sum(f, 1, Len(f))

(* The scan stops at a record whose claimed length runs past the end of the file. *)
Stops(f, i) == Sum(f, i, Len(f)) < f[i].total

(* A bad record is skipped byte by byte up to the next record. *)
Reaches(f) == {i \in DOMAIN f : \A j \in 1..(i - 1) : ~Stops(f, j)}

Scan(f) == LET s == SetToSortSeq({i \in Reaches(f) : Whole(f[i])}, <)
           IN [k \in DOMAIN s |-> f[s[k]]]

(* Peek cannot look further than the buffer: the scan ends with an error. *)
ScanFails(f) == \E i \in Reaches(f) : f[i].total > BufferSize

(***************************************************************************)
(* ReadFrom and RecoverFrom: the first segment to read, and the entries.   *)
(***************************************************************************)
FirstOf(S) == IF S = {} THEN 0 ELSE CHOOSE i \in S : \A j \in S : i <= j

ReadStart(k) ==
    FirstOf({i \in DOMAIN segments : /\ segments[i].start # -1
                                     /\ k <= segments[i].end \/ k < segments[i].start})

RecoverStart(k) ==
    FirstOf({i \in DOMAIN segments : segments[i].start # -1 /\ (k <= segments[i].end \/ k < segments[i].start)})

EntriesFrom(first, k) ==
    IF first = 0 THEN <<>>
    ELSE FlattenSeq([i \in 1..(Len(files) - first + 1) |->
                       SelectSeq(Scan(files[first + i - 1]), LAMBDA r : r.off >= k)])

ReadFrom(k) == EntriesFrom(ReadStart(k), k)
RecoverFrom(k) == EntriesFrom(RecoverStart(k), k)

(***************************************************************************)
(* New: the segments are scanned, the last one is the active one.          *)
(***************************************************************************)
OpenSegment(f) ==
    LET s == Scan(f) IN
    [size |-> FileSize(f), start |-> IF s = <<>> THEN -1 ELSE s[1].off,
     end |-> IF s = <<>> THEN -1 ELSE Last(s).off]

EmptySegment == [size |-> 0, start |-> -1, end |-> -1]

New ==
    /\ ~open
    /\ \A i \in DOMAIN files : ~ScanFails(files[i])
    /\ IF files = <<>>
       THEN files' = <<<<>>>> /\ segments' = <<EmptySegment>> /\ nextOffset' = 0
       ELSE /\ segments' = [i \in DOMAIN files |-> OpenSegment(files[i])]
            /\ nextOffset' = OpenSegment(Last(files)).end + 1
            /\ UNCHANGED files
    /\ open' = TRUE /\ fd' = TRUE
    /\ UNCHANGED <<synced, acked, appends, faults>>

(***************************************************************************)
(* Append: rotate if the entry does not fit, write, sync, then update the  *)
(* segment and nextOffset.  how tells where it ends: "ok", "write" (have   *)
(* units were written), "sync" (all of it was, the sync failed).           *)
(***************************************************************************)
Rotates(total) == Last(segments).size + total > MaxSegmentSize

Rotated(b, x, new) == IF b THEN Append(x, new) ELSE x

PutLast(x, v) == Front(x) \o <<v>>

AfterAppendSlip(s, total) == [s EXCEPT !.size = @ + total, !.end = nextOffset]
AfterAppend(s, total) ==
    [s EXCEPT !.size = @ + total, !.start = IF @ = -1 THEN nextOffset ELSE @, !.end = nextOffset]

AppendEntry(total, how, have) ==
    LET b == Rotates(total)
        f == Rotated(b, files, <<>>)
        m == Rotated(b, segments, EmptySegment)
        r == [n |-> appends + 1, off |-> nextOffset, total |-> total, have |-> have]
    IN /\ open /\ fd
       /\ appends < MaxAppends
       /\ appends' = appends + 1
       /\ files' = IF have = 0 THEN f ELSE PutLast(f, Append(Last(f), r))
       /\ \/ /\ how = "ok" /\ have = total
             /\ synced' = IF FSyncOnWrite THEN Len(Last(f)) + 1 ELSE IF b THEN 0 ELSE synced
             /\ segments' = PutLast(m, AfterAppend(Last(m), total))
             /\ nextOffset' = nextOffset + 1
             /\ acked' = acked \cup {[n |-> r.n, off |-> r.off]}
             /\ UNCHANGED faults
          \/ /\ \/ how = "write" /\ have < total
                \/ how = "sync" /\ FSyncOnWrite /\ have = total
             /\ faults < MaxFaults /\ faults' = faults + 1
             /\ synced' = IF b THEN 0 ELSE synced
             /\ segments' = m
             /\ UNCHANGED <<nextOffset, acked>>
       /\ UNCHANGED <<open, fd>>

(* rotateSegment closed the old file and cannot create the next one. *)
RotateFails ==
    /\ open /\ fd /\ faults < MaxFaults
    /\ \E total \in Sizes : Rotates(total)
    /\ fd' = FALSE /\ faults' = faults + 1
    /\ synced' = Len(Last(files))
    /\ UNCHANGED <<files, segments, nextOffset, open, acked, appends>>

Sync ==
    /\ open /\ fd
    /\ synced' = Len(Last(files))
    /\ UNCHANGED <<files, segments, nextOffset, open, fd, acked, appends, faults>>

Close ==
    /\ open
    /\ open' = FALSE /\ fd' = FALSE /\ segments' = <<>> /\ nextOffset' = 0
    /\ UNCHANGED <<files, synced, acked, appends, faults>>

(* Power is lost: what was not synced may be cut off, the cut may tear a record. *)
Crash ==
    /\ files # <<>> /\ faults < MaxFaults /\ faults' = faults + 1
    /\ \E k \in synced..Len(Last(files)) :
         LET kept == SubSeq(Last(files), 1, k) IN
         \E torn \in {<<>>} \cup IF k = Len(Last(files)) THEN {}
                                 ELSE {<<[Last(files)[k + 1] EXCEPT !.have = h]>> : h \in 1..(Last(files)[k + 1].have - 1)} :
            LET left == kept \o torn IN
            /\ files' = PutLast(files, left)
            /\ synced' = Len(left)
            /\ acked' = {a \in acked : (\E i \in (Len(left) + 1 - Len(torn))..Len(Last(files)) : Last(files)[i].n = a.n) => FSyncOnWrite}
    /\ open' = FALSE /\ fd' = FALSE /\ segments' = <<>> /\ nextOffset' = 0
    /\ UNCHANGED appends

Init ==
    /\ files = <<>> /\ synced = 0 /\ segments = <<>> /\ nextOffset = 0
    /\ open = FALSE /\ fd = FALSE /\ acked = {} /\ appends = 0 /\ faults = 0

Next ==
    \/ New \/ RotateFails \/ Sync \/ Close \/ Crash
    \/ \E total \in Sizes, how \in {"ok", "write", "sync"} : \E have \in 0..total : AppendEntry(total, how, have)

Spec == Init /\ [][Next]_vars

-----------------------------------------------------------------------------
(* A record that a failed or torn record before it in its file still hides. *)
Hidden(a) == \E i \in DOMAIN files : \E j \in DOMAIN files[i] :
                files[i][j].n = a.n /\ j \notin Reaches(files[i])

(* No two records that were written have one offset. *)
OffsetsDistinct ==
    \A i, j \in DOMAIN files : \A x \in DOMAIN files[i], y \in DOMAIN files[j] :
        files[i][x].off = files[j][y].off /\ Whole(files[i][x]) /\ Whole(files[j][y]) => <<i, x>> = <<j, y>>

(* Every entry that Append acknowledged, and that no power loss without     *)
(* fsync could take away, is returned by ReadFrom and by RecoverFrom from   *)
(* every offset up to its own, across rotations, failed writes, restarts    *)
(* and torn tails, as long as no offset was given twice and the record is   *)
(* not behind an unfinished one that still runs past the end of its file.   *)
WalReadsAcked ==
    open /\ OffsetsDistinct /\ (\A i \in DOMAIN files : ~ScanFails(files[i])) =>
        \A a \in acked : ~Hidden(a) =>
            \A k \in 0..a.off :
                /\ \E i \in DOMAIN ReadFrom(k) : ReadFrom(k)[i].n = a.n
                /\ \E i \in DOMAIN RecoverFrom(k) : RecoverFrom(k)[i].n = a.n

(* The offset of a log entry is a number that only grows, so two entries    *)
(* that were acknowledged never share one (docs/wal.md, Entry).             *)
OffsetsIncrease == \A a, b \in acked : a.n < b.n => a.off < b.off
=============================================================================
