--------------------------------- MODULE LSM ---------------------------------
(***************************************************************************)
(* The LSM store of internal/lsm: the active memtable, the frozen ones,    *)
(* the one being flushed, the levels of sorted tables, the flush and merge *)
(* goroutines, Close, a crash, and NewDB on the files that are left.       *)
(* A value is the time of its Put; an entry is [ts, del].  A table is      *)
(* [seq, ents] with ents a function on its keys; sizes count entries.      *)
(***************************************************************************)
EXTENDS Integers, Sequences, FiniteSets, SequencesExt

CONSTANTS
    Key,             \* a set of integers
    MemTableSize, TargetFileSize,
    MaxLevel, Level0Files, LevelFiles,  \* LevelMaxFiles of level 0 and of the others
    MaxWrites,       \* bound: calls of Put and Delete
    MaxCrashes       \* bound

VARIABLES
    memTable, immutable, flushing,
    levels,          \* [0 .. MaxLevel-1 -> sequence of tables]
    seqNum, closed,
    fpc,             \* flush goroutine: "idle", "write" or "added"
    merge,           \* merge goroutine: [pc, level, old, over, new]
    disk,            \* the files: [level, table]
    writes, crashes,
    truth,           \* the newest entry of each key that no crash has lost
    saved,           \* the newest entry of each key that was written to a file
    leftover         \* a crash interrupted a compaction

vars == <<memTable, immutable, flushing, levels, seqNum, closed, fpc, merge, disk, writes, crashes, truth, saved, leftover>>

Empty == [k \in {} |-> 0]
Entry == [ts : 1..MaxWrites, del : BOOLEAN]
Level == 0..(MaxLevel - 1)
None == [ts |-> 0, del |-> TRUE]
NoMerge == [pc |-> "idle", level |-> 0, old |-> <<>>, over |-> <<>>, new |-> <<>>]

IsTable(t) == t.seq \in Nat /\ DOMAIN t.ents # {} /\ DOMAIN t.ents \subseteq Key
TypeOK ==
    /\ DOMAIN memTable \subseteq Key /\ Cardinality(DOMAIN memTable) <= MemTableSize
    /\ \A l \in Level : \A t \in ToSet(levels[l]) : IsTable(t)
    /\ \A l \in Level : \A i, j \in DOMAIN levels[l] : levels[l][i].seq = levels[l][j].seq => i = j
    /\ \A d \in disk : d.level \in Level /\ IsTable(d.table)
    /\ fpc \in {"idle", "write", "added"} /\ (fpc = "idle") = (flushing = Empty)
    /\ merge.pc \in {"idle", "written", "upper", "lower", "added"}
    /\ {truth, saved} \subseteq [Key -> Entry \cup {None}] /\ closed \in {"no", "stopping", "yes"}

MinKey(t) == CHOOSE k \in DOMAIN t.ents : \A j \in DOMAIN t.ents : k <= j
MaxKey(t) == CHOOSE k \in DOMAIN t.ents : \A j \in DOMAIN t.ents : k >= j
Overlaps(t, lo, hi) == ~(MaxKey(t) < lo \/ MinKey(t) > hi)

(* AddTable sorts by the smallest key; equal ones stay in the order they came. *)
Insert(s, t) ==
    LET n == Cardinality({i \in DOMAIN s : MinKey(s[i]) <= MinKey(t)})
    IN SubSeq(s, 1, n) \o <<t>> \o SubSeq(s, n + 1, Len(s))
InsertAll(s, ts) == FoldLeft(Insert, s, ts)
RemoveTables(s, ts) == SelectSeq(s, LAMBDA t : t \notin ToSet(ts))

Best(S) == IF S = {} THEN None ELSE CHOOSE e \in S : \A f \in S : f.ts <= e.ts

(***************************************************************************)
(* Reading.  Get takes the first entry it meets, Range the newest.         *)
(***************************************************************************)
Find(tabs, k) == {e[k] : e \in {t \in tabs : k \in DOMAIN t}}

(* the tables in memory, in the order in which Get looks at them *)
InMemory == <<memTable>> \o Reverse(immutable) \o (IF flushing = Empty THEN <<>> ELSE <<flushing>>)

(* binary search among tables that are assumed not to overlap *)
Covering(l, k) == {i \in DOMAIN levels[l] : MinKey(levels[l][i]) <= k /\ k <= MaxKey(levels[l][i])}

SearchLevel(l, k) ==
    IF l = 0 THEN Reverse([i \in DOMAIN levels[0] |-> levels[0][i].ents])
    ELSE IF Covering(l, k) = {} THEN <<>>
    ELSE <<levels[l][CHOOSE i \in Covering(l, k) : TRUE].ents>>

Get(k) ==
    LET order == InMemory \o FlattenSeq([l \in 1..MaxLevel |-> SearchLevel(l - 1, k)])
        hits == {i \in DOMAIN order : k \in DOMAIN order[i]}
    IN IF hits = {} THEN None ELSE order[CHOOSE i \in hits : \A j \in hits : i <= j][k]

RangeEntry(k) ==
    Best(Find(ToSet(InMemory), k)
         \cup UNION {{t.ents[k] : t \in {u \in ToSet(levels[l]) : k \in DOMAIN u.ents}} : l \in Level})

(***************************************************************************)
(* Put and Delete: into the memtable, which is frozen when it is full.     *)
(***************************************************************************)
Inserted(m, k, e) == [j \in DOMAIN m \cup {k} |-> IF j = k THEN e ELSE m[j]]

Write(k, del) ==
    LET e == [ts |-> writes + 1, del |-> del]
        m == Inserted(memTable, k, e)
    IN /\ closed = "no" /\ writes < MaxWrites
       /\ writes' = writes + 1
       /\ IF Cardinality(DOMAIN m) >= MemTableSize
          THEN memTable' = Empty /\ immutable' = Append(immutable, m)
          ELSE memTable' = m /\ UNCHANGED immutable
       /\ truth' = [truth EXCEPT ![k] = e]
       /\ UNCHANGED <<flushing, levels, seqNum, closed, fpc, merge, disk, crashes, saved, leftover>>

Put(k) == Write(k, FALSE)
Delete(k) == Write(k, TRUE)

(***************************************************************************)
(* flushImmutable, run by the flush goroutine and at the end by Close: the *)
(* oldest frozen memtable stays readable until its table is in level 0.    *)
(***************************************************************************)
FlushTake ==
    /\ fpc = "idle" /\ immutable # <<>>
    /\ flushing' = Head(immutable) /\ immutable' = Tail(immutable)
    /\ fpc' = "write"
    /\ UNCHANGED <<memTable, levels, seqNum, closed, merge, disk, writes, crashes, truth, saved, leftover>>

FlushTable == [seq |-> seqNum, ents |-> flushing]

FlushWrite ==
    /\ fpc = "write"
    /\ fpc' = "added" /\ seqNum' = seqNum + 1
    /\ disk' = disk \cup {[level |-> 0, table |-> FlushTable]}
    /\ levels' = [levels EXCEPT ![0] = Insert(@, FlushTable)]
    /\ saved' = [k \in Key |-> IF k \in DOMAIN flushing THEN flushing[k] ELSE saved[k]]
    /\ UNCHANGED <<memTable, immutable, flushing, closed, merge, writes, crashes, truth, leftover>>

FlushDone ==
    /\ fpc = "added"
    /\ fpc' = "idle" /\ flushing' = Empty
    /\ UNCHANGED <<memTable, immutable, levels, seqNum, closed, merge, disk, writes, crashes, truth, saved, leftover>>

(***************************************************************************)
(* compactLevel.  tables[0] has the smallest key of its level, so one pass *)
(* in the order of the level finds all tables that overlap transitively.   *)
(***************************************************************************)
Grow(acc, t) == IF Overlaps(t, acc.lo, acc.hi)
                THEN [lo |-> IF MinKey(t) < acc.lo THEN MinKey(t) ELSE acc.lo,
                      hi |-> IF MaxKey(t) > acc.hi THEN MaxKey(t) ELSE acc.hi, tabs |-> Append(acc.tabs, t)]
                ELSE acc
StartOf(t) == [lo |-> MinKey(t), hi |-> MaxKey(t), tabs |-> <<t>>]

Chosen(l) == IF l = 0 THEN FoldLeft(Grow, StartOf(levels[0][1]), Tail(levels[0]))
             ELSE StartOf(levels[l][1])

(* mergedEntries: newest per key; tombstones stay only if something lies deeper *)
Merged(ts, deeper) ==
    LET newest(k) == Best({t.ents[k] : t \in {u \in ToSet(ts) : k \in DOMAIN u.ents}})
        keys == UNION {DOMAIN t.ents : t \in ToSet(ts)}
    IN [k \in {j \in keys : deeper \/ ~newest(j).del} |-> newest(k)]

(* cut into tables of TargetFileSize entries, in key order *)
Cut(ents) ==
    LET ks == SetToSortSeq(DOMAIN ents, <)
        n == (Len(ks) + TargetFileSize - 1) \div TargetFileSize
        part(i) == {ks[j] : j \in {x \in DOMAIN ks : (x - 1) \div TargetFileSize = i - 1}}
    IN [i \in 1..n |-> [seq |-> seqNum + i - 1, ents |-> [k \in part(i) |-> ents[k]]]]

(* Tables are chosen and merged, and the new files written. *)
CompactWrite(l) ==
    LET c == Chosen(l)
        over == SelectSeq(levels[l + 1], LAMBDA t : Overlaps(t, c.lo, c.hi))
        deeper == \E d \in Level : d > l + 1 /\ \E t \in ToSet(levels[d]) : Overlaps(t, c.lo, c.hi)
        new == Cut(Merged(c.tabs \o over, deeper))
    IN /\ merge.pc = "idle" /\ closed # "yes"
       /\ l + 1 \in Level /\ Len(levels[l]) >= (IF l = 0 THEN Level0Files ELSE LevelFiles)
       /\ merge' = [pc |-> "written", level |-> l, old |-> c.tabs, over |-> over, new |-> new]
       /\ seqNum' = seqNum + Len(new)
       /\ disk' = disk \cup {[level |-> l + 1, table |-> t] : t \in ToSet(new)}
       /\ UNCHANGED <<memTable, immutable, flushing, levels, closed, fpc, writes, crashes, truth, saved, leftover>>

(* The three changes of the levels are made under a lock each. *)
RemoveUpper ==
    /\ merge.pc = "written"
    /\ levels' = [levels EXCEPT ![merge.level] = RemoveTables(@, merge.old)]
    /\ merge' = [merge EXCEPT !.pc = "upper"]
    /\ UNCHANGED <<memTable, immutable, flushing, seqNum, closed, fpc, disk, writes, crashes, truth, saved, leftover>>

RemoveLower ==
    /\ merge.pc = "upper"
    /\ levels' = [levels EXCEPT ![merge.level + 1] = RemoveTables(@, merge.over)]
    /\ merge' = [merge EXCEPT !.pc = "lower"]
    /\ UNCHANGED <<memTable, immutable, flushing, seqNum, closed, fpc, disk, writes, crashes, truth, saved, leftover>>

AddNew ==
    /\ merge.pc = "lower"
    /\ levels' = [levels EXCEPT ![merge.level + 1] = InsertAll(@, merge.new)]
    /\ merge' = [merge EXCEPT !.pc = "added"]
    /\ UNCHANGED <<memTable, immutable, flushing, seqNum, closed, fpc, disk, writes, crashes, truth, saved, leftover>>

(* The old files go one by one. *)
DeleteFile ==
    /\ merge.pc = "added"
    /\ LET f == Head(merge.old \o merge.over)
           last == Len(merge.old \o merge.over) = 1
           lev == IF merge.old # <<>> THEN merge.level ELSE merge.level + 1
       IN /\ disk' = disk \ {[level |-> lev, table |-> f]}
          /\ merge' = IF last THEN NoMerge
                      ELSE IF merge.old # <<>> THEN [merge EXCEPT !.old = Tail(@)]
                      ELSE [merge EXCEPT !.over = Tail(@)]
    /\ UNCHANGED <<memTable, immutable, flushing, levels, seqNum, closed, fpc, writes, crashes, truth, saved, leftover>>

(***************************************************************************)
(* Close, a crash, and NewDB.                                              *)
(***************************************************************************)
Close ==
    /\ closed = "no"
    /\ closed' = "stopping"
    /\ UNCHANGED <<memTable, immutable, flushing, levels, seqNum, fpc, merge, disk, writes, crashes, truth, saved, leftover>>

(* both goroutines have ended: the memtable is flushed like the frozen ones *)
CloseDrain ==
    /\ closed = "stopping" /\ merge.pc = "idle" /\ fpc = "idle"
    /\ closed' = "yes"
    /\ memTable' = Empty /\ immutable' = IF memTable = Empty THEN immutable ELSE Append(immutable, memTable)
    /\ UNCHANGED <<flushing, levels, seqNum, fpc, merge, disk, writes, crashes, truth, saved, leftover>>

(* NewDB adds the files in the order of their names. *)
Loaded == [l \in Level |->
    LET files == SetToSortSeq({d.table : d \in {x \in disk : x.level = l}}, LAMBDA a, b : a.seq < b.seq)
    IN InsertAll(<<>>, files)]
LastSeq == IF disk = {} THEN 0 ELSE CHOOSE n \in {d.table.seq : d \in disk} : \A d \in disk : d.table.seq <= n

NewDB ==
    /\ memTable' = Empty /\ immutable' = <<>> /\ flushing' = Empty
    /\ levels' = Loaded /\ seqNum' = LastSeq + 1 /\ closed' = "no"
    /\ fpc' = "idle" /\ merge' = NoMerge
    /\ UNCHANGED <<disk, writes>>

Reopen ==
    /\ closed = "yes" /\ immutable = <<>> /\ fpc = "idle"
    /\ NewDB
    /\ UNCHANGED <<crashes, truth, saved, leftover>>

(* What never reached a file is lost. *)
Crash ==
    /\ crashes < MaxCrashes /\ crashes' = crashes + 1
    /\ NewDB
    /\ truth' = saved /\ UNCHANGED saved
    /\ leftover' = (leftover \/ merge.pc # "idle")

Init ==
    /\ memTable = Empty /\ immutable = <<>> /\ flushing = Empty
    /\ levels = [l \in Level |-> <<>>] /\ seqNum = 1 /\ closed = "no"
    /\ fpc = "idle" /\ merge = NoMerge /\ disk = {} /\ writes = 0 /\ crashes = 0
    /\ truth = [k \in Key |-> None] /\ saved = [k \in Key |-> None] /\ leftover = FALSE

Next ==
    \/ \E k \in Key : Put(k) \/ Delete(k)
    \/ FlushTake \/ FlushWrite \/ FlushDone
    \/ \E l \in Level : CompactWrite(l)
    \/ RemoveUpper \/ RemoveLower \/ AddNew \/ DeleteFile
    \/ Close \/ CloseDrain \/ Reopen \/ Crash

Spec == Init /\ [][Next]_vars
-----------------------------------------------------------------------------
Answer(e) == IF e.del THEN 0 ELSE e.ts

(* Between two compactions, a range query returns for each key exactly what *)
(* the last Put or Delete left, through freezing, flushing, merging into    *)
(* lower levels with dropped tombstones, Close and NewDB; after a crash it  *)
(* returns what the last flushed table left, unless the crash interrupted a *)
(* compaction.  Get returns the same if one table of level 0 holds the key. *)
LsmReadsLatest ==
    merge.pc = "idle" /\ ~leftover =>
        \A k \in Key :
            /\ Answer(RangeEntry(k)) = Answer(truth[k])
            /\ Cardinality({i \in DOMAIN levels[0] : k \in DOMAIN levels[0][i].ents}) <= 1
                 => Answer(Get(k)) = Answer(truth[k])

(* The tables of a level below 0 do not overlap, which the binary search of *)
(* findTable relies on.                                                     *)
LsmLevelsDisjoint ==
    ~leftover => \A l \in Level \ {0} : \A i, j \in DOMAIN levels[l] :
                    i < j => MaxKey(levels[l][i]) < MinKey(levels[l][j])

(* Get returns the newest version, since level 0 is read from the newest    *)
(* table to the oldest (docs/lsm.md, 5.3).                                  *)
LsmGetLatest == merge.pc = "idle" => \A k \in Key : Answer(Get(k)) = Answer(truth[k])
=============================================================================
