------------------------------- MODULE Caches -------------------------------
(*****************************************************************************)
(* Copies kept close: the two levels of tieredcache, then the locks of       *)
(* keys across nodes and the versions of the copies of cachesync. The        *)
(* parts share no state; each has its own specification.                     *)
(*****************************************************************************)
EXTENDS Integers, Sequences, FiniteSets, SequencesExt

(***************************************************************************)
(* The two-level cache of internal/tieredcache: level 1 in memory, level 2 *)
(* in memory and in one file per key, and two goroutines that handle what  *)
(* the levels evict without the lock of the cache.  A level is its entries *)
(* in the order of use, the last used first; a value is the number of its  *)
(* Put.  Capacities are counts.                                            *)
(***************************************************************************)

CONSTANTS
    Key,
    Cap1, Cap2,
    WriteBack,          \* the write policy
    MaxWriteBackRetries,
    MaxPuts, MaxFaults, MaxRestarts,    \* bounds
    MaxQueue            \* bound: evictions waiting when a call begins

VARIABLES
    l1,         \* sequence of [k, val, dirty, fail]
    l2,         \* sequence of [k, val]
    disk,       \* [Key -> value in the file, 0: no file]
    q1, q2,     \* evicted entries not handled yet
    phase,      \* "open", "closing" or "closed"
    puts, faults, restarts,
    latest,     \* [Key -> value of the last Put, 0 after a Delete]
    excused     \* a call met an unhandled eviction, or a write failed

tierVars == <<l1, l2, disk, q1, q2, phase, puts, faults, restarts, latest, excused>>

TierTypeOK ==
    /\ Len(l1) <= Cap1 /\ Len(l2) <= Cap2
    /\ \A i \in DOMAIN l1 : l1[i] \in [k : Key, val : 1..MaxPuts, dirty : BOOLEAN, fail : 0..MaxWriteBackRetries + 1]
    /\ \A i \in DOMAIN l2 : l2[i] \in [k : Key, val : 1..MaxPuts]
    /\ disk \in [Key -> 0..MaxPuts] /\ latest \in [Key -> 0..MaxPuts]
    /\ \A i, j \in DOMAIN l1 : l1[i].k = l1[j].k => i = j
    /\ \A i, j \in DOMAIN l2 : l2[i].k = l2[j].k => i = j
    /\ phase \in {"open", "closing", "closed"}

(***************************************************************************)
(* lruCache                                                                *)
(***************************************************************************)
Has(l, k) == \E i \in DOMAIN l : l[i].k = k
At(l, k) == l[CHOOSE i \in DOMAIN l : l[i].k = k]
Without(l, k) == SelectSeq(l, LAMBDA e : e.k # k)
Touch(l, k) == <<At(l, k)>> \o Without(l, k)
Entry1(k, v, d) == [k |-> k, val |-> v, dirty |-> d, fail |-> 0]

(* put: the least recently used entry makes room *)
Overfull(l, e, cap) == ~Has(l, e.k) /\ Len(l) >= cap
PutEntrySlip(l, e, cap) == <<e>> \o Without(l, e.k)
PutEntry(l, e, cap) == <<e>> \o (IF Overfull(l, e, cap) THEN Front(l) ELSE Without(l, e.k))
Evicted(l, e, cap) == IF Overfull(l, e, cap) THEN <<Last(l)>> ELSE <<>>

(* putWithoutEvictCallback: refused when full *)
Fits(l, k, cap) == Has(l, k) \/ Len(l) < cap
PutIfFits(l, e, cap) == IF Fits(l, e.k, cap) THEN <<e>> \o Without(l, e.k) ELSE l

Room == Len(q1) < MaxQueue /\ Len(q2) < MaxQueue
Busy == q1 # <<>> \/ q2 # <<>>
Excuse(b) == excused' = (excused \/ b)

(***************************************************************************)
(* Calls                                                                   *)
(***************************************************************************)
Get(k) ==
    /\ phase = "open" /\ Room
    /\ \/ /\ Has(l1, k)
          /\ l1' = Touch(l1, k)
          /\ UNCHANGED <<l2, q1>>
       \/ /\ ~Has(l1, k) /\ Has(l2, k)
          /\ LET e == Entry1(k, At(l2, k).val, FALSE)
             IN /\ l2' = Touch(l2, k)
                /\ l1' = PutEntry(l1, e, Cap1)
                /\ q1' = q1 \o Evicted(l1, e, Cap1)
    /\ Excuse(Busy)
    /\ UNCHANGED <<disk, q2, phase, puts, faults, restarts, latest>>

PutLevel1(k) ==
    LET e == Entry1(k, puts + 1, WriteBack)
    IN /\ l1' = PutEntry(l1, e, Cap1)
       /\ q1' = q1 \o Evicted(l1, e, Cap1)

Put(k) ==
    /\ phase = "open" /\ Room /\ puts < MaxPuts
    /\ puts' = puts + 1
    /\ PutLevel1(k)
    /\ IF WriteBack THEN UNCHANGED <<l2, disk, q2>>
       ELSE LET e == [k |-> k, val |-> puts + 1]
            IN /\ disk' = [disk EXCEPT ![k] = puts + 1]
               /\ l2' = PutEntry(l2, e, Cap2)
               /\ q2' = q2 \o Evicted(l2, e, Cap2)
    /\ latest' = [latest EXCEPT ![k] = puts + 1]
    /\ Excuse(Busy)
    /\ UNCHANGED <<phase, faults, restarts>>

(* the file cannot be written: level 1 keeps the value, Put returns the error *)
PutFails(k) ==
    /\ phase = "open" /\ Room /\ puts < MaxPuts /\ ~WriteBack /\ faults < MaxFaults
    /\ faults' = faults + 1 /\ puts' = puts + 1
    /\ PutLevel1(k)
    /\ Excuse(TRUE)
    /\ UNCHANGED <<l2, disk, q2, phase, restarts, latest>>

(* a deleted entry is handed to the eviction goroutine too, no longer dirty *)
Gone(l, k) == IF Has(l, k) THEN <<At(l, k)>> ELSE <<>>
TierDelete(k) ==
    /\ phase = "open" /\ Room
    /\ l1' = Without(l1, k) /\ l2' = Without(l2, k)
    /\ q1' = q1 \o (IF Has(l1, k) THEN <<[At(l1, k) EXCEPT !.dirty = FALSE]>> ELSE <<>>)
    /\ q2' = q2 \o Gone(l2, k)
    /\ disk' = [disk EXCEPT ![k] = 0]
    /\ latest' = [latest EXCEPT ![k] = 0]
    /\ Excuse(Busy)
    /\ UNCHANGED <<phase, puts, faults, restarts>>

Clear ==
    /\ phase = "open"
    /\ l1' = <<>> /\ l2' = <<>> /\ disk' = [k \in Key |-> 0]
    /\ latest' = [k \in Key |-> 0]
    /\ Excuse(Busy)
    /\ UNCHANGED <<q1, q2, phase, puts, faults, restarts>>

(***************************************************************************)
(* The eviction goroutines                                                 *)
(***************************************************************************)
KeptOnEviction(e) == e.dirty

HandleL1Eviction ==
    /\ q1 # <<>>
    /\ q1' = Tail(q1)
    /\ LET e == Head(q1) IN
         \/ /\ KeptOnEviction(e)
            /\ disk' = [disk EXCEPT ![e.k] = e.val]
            /\ l2' = PutIfFits(l2, [k |-> e.k, val |-> e.val], Cap2)
            /\ UNCHANGED <<faults, excused>>
         \/ /\ KeptOnEviction(e) /\ faults < MaxFaults
            /\ faults' = faults + 1 /\ Excuse(TRUE)
            /\ UNCHANGED <<disk, l2>>
         \/ /\ ~KeptOnEviction(e)
            /\ UNCHANGED <<disk, l2, faults, excused>>
    /\ UNCHANGED <<l1, q2, phase, puts, restarts, latest>>

HandleL2Eviction ==
    /\ q2 # <<>>
    /\ q2' = Tail(q2)
    /\ disk' = [disk EXCEPT ![Head(q2).k] = 0]
    /\ UNCHANGED <<l1, l2, q1, phase, puts, faults, restarts, latest, excused>>

(***************************************************************************)
(* flushWriteBack: every dirty entry is tried, those of F fail to be       *)
(* written; after MaxWriteBackRetries tries it counts as clean.  The last   *)
(* one, in Close, is not tried again.                                      *)
(***************************************************************************)
Dirty == SelectSeq(l1, LAMBDA e : e.dirty)

FlushEntry(e, F) ==
    LET tried == [e EXCEPT !.fail = @ + 1]
        clean == [e EXCEPT !.dirty = FALSE, !.fail = 0]
    IN IF ~e.dirty THEN e
       ELSE IF tried.fail > MaxWriteBackRetries THEN clean
       ELSE IF e.k \in F \/ ~Fits(l2, e.k, Cap2) THEN tried
       ELSE clean

GivenUp(e) == e.dirty /\ e.fail >= MaxWriteBackRetries

(* the order in which dirty entries take the room of level 2 is that of a map; *)
(* here it is the order of use *)
FlushWriteBack(F, last) ==
    LET try == SelectSeq(Dirty, LAMBDA e : ~GivenUp(e) /\ e.k \notin F)
        Step(acc, e) == PutIfFits(acc, [k |-> e.k, val |-> e.val], Cap2)
        new2 == FoldLeft(Step, l2, try)
    IN /\ l1' = [i \in DOMAIN l1 |->
                   IF l1[i].dirty /\ ~GivenUp(l1[i]) /\ l1[i].k \notin F /\ ~Has(new2, l1[i].k)
                   THEN [l1[i] EXCEPT !.fail = @ + 1] ELSE FlushEntry(l1[i], F)]
       /\ l2' = new2
       /\ disk' = [k \in Key |-> IF Has(try, k) THEN At(try, k).val ELSE disk[k]]
       /\ Excuse(Busy \/ (last /\ F # {}) \/ \E i \in DOMAIN l1 : GivenUp(l1[i]))

FailSets == {F \in SUBSET {e.k : e \in ToSet(Dirty)} : faults + Cardinality(F) <= MaxFaults}

Flush ==
    /\ phase = "open" /\ WriteBack /\ Dirty # <<>>
    /\ \E F \in FailSets : FlushWriteBack(F, FALSE) /\ faults' = faults + Cardinality(F)
    /\ UNCHANGED <<q1, q2, phase, puts, restarts, latest>>

CloseBegin ==
    /\ phase = "open"
    /\ phase' = "closing"
    /\ IF WriteBack THEN \E F \in FailSets : FlushWriteBack(F, TRUE) /\ faults' = faults + Cardinality(F)
       ELSE UNCHANGED <<l1, l2, disk, faults, excused>>
    /\ UNCHANGED <<q1, q2, puts, restarts, latest>>

(* waitEvictions of both levels *)
CloseEnd ==
    /\ phase = "closing" /\ ~Busy
    /\ phase' = "closed"
    /\ UNCHANGED <<l1, l2, disk, q1, q2, puts, faults, restarts, latest, excused>>

(* a new cache over the same files takes what fits *)
Loaded == {s \in BoundedSeq([k : Key, val : 1..MaxPuts], Cap2) :
             LET have == {k \in Key : disk[k] # 0} IN
             /\ \A i \in DOMAIN s : s[i].k \in have /\ s[i].val = disk[s[i].k]
             /\ \A i, j \in DOMAIN s : s[i].k = s[j].k => i = j
             /\ Len(s) = (IF Cardinality(have) < Cap2 THEN Cardinality(have) ELSE Cap2)}

Reopen ==
    /\ phase = "closed" /\ restarts < MaxRestarts
    /\ restarts' = restarts + 1
    /\ phase' = "open"
    /\ l1' = <<>> /\ l2' \in Loaded
    /\ UNCHANGED <<disk, q1, q2, puts, faults, latest, excused>>

TierInit ==
    /\ l1 = <<>> /\ l2 = <<>> /\ disk = [k \in Key |-> 0] /\ q1 = <<>> /\ q2 = <<>> /\ phase = "open"
    /\ puts = 0 /\ faults = 0 /\ restarts = 0 /\ latest = [k \in Key |-> 0] /\ excused = FALSE

TierNext ==
    \/ \E k \in Key : Get(k) \/ Put(k) \/ PutFails(k) \/ TierDelete(k)
    \/ Clear \/ HandleL1Eviction \/ HandleL2Eviction \/ Flush \/ CloseBegin \/ CloseEnd \/ Reopen

TierSpec == TierInit /\ [][TierNext]_tierVars

-----------------------------------------------------------------------------
(* What Get would answer *)
TierAnswer(k) == IF Has(l1, k) THEN At(l1, k).val ELSE IF Has(l2, k) THEN At(l2, k).val ELSE 0

(* With the evictions handled, Get answers the last Put of the key or       *)
(* nothing, never an older value or a deleted one, through evictions,       *)
(* promotions, write-backs and a restart over the files.  Excused are calls *)
(* made while an eviction is queued, and failed writes: the code protects   *)
(* neither.                                                                 *)
TierNeverStale == phase = "open" /\ ~Busy /\ ~excused => \A k \in Key : TierAnswer(k) \in {0, latest[k]}

(* With the evictions handled, every value of level 2 is in its file, and   *)
(* under write-back a value that was put is dirty in level 1 or in a file,  *)
(* so closing the cache loses nothing.                                      *)
TierFilesAgree ==
    ~excused /\ ~Busy /\ phase # "closed" =>
        /\ \A i \in DOMAIN l2 : disk[l2[i].k] = l2[i].val
        /\ WriteBack => \A k \in Key : disk[k] = latest[k] \/ (Has(l1, k) /\ At(l1, k).dirty)

-----------------------------------------------------------------------------
(***************************************************************************)
(* The lock of one cache key in internal/cachesync: a node asks all the    *)
(* others, each answers from its own table, and a refused or late request  *)
(* is rolled back by a goroutine of its own.  Inboxes are FIFO and large   *)
(* enough; the time stamps of a node are the numbers of its messages.  A   *)
(* release mark outlives the runs (releaseMarkTTL).                        *)
(***************************************************************************)

CONSTANTS
    Callers,            \* nodes that lock
    Others,             \* the other nodes
    TTL,                \* timeout of Lock, which is the lifetime of the lock
    MaxAttempts,        \* bound: calls of Lock per node
    MaxTime, MaxDrops   \* bounds

LockNode == Callers \cup Others

VARIABLES
    now,
    locks,      \* [Node -> [holder, exp]]
    att,        \* [Node -> sequence of pending locks]: [st, roll, grants, by, denied, deadline, wake]
    wait,       \* [Node -> the attempt its caller is in, or 0]
    pc,         \* [Node -> step of the caller]
    pend,       \* [Node -> pendingLocks: an attempt, or 0]
    lockInbox,
    stamp,      \* [Node -> last time stamp]
    marks,      \* [Node -> [Node -> time stamp of the last release]]
    drops

lockVars == <<now, locks, att, wait, pc, pend, lockInbox, stamp, marks, drops>>

Free == [holder |-> "none", exp |-> 0]
Attempt == [st : {"pending", "ok", "failed"}, roll : {"no", "fail", "broadcast", "watch", "gone"},
            grants : 0..2 * Cardinality(LockNode), by : SUBSET LockNode, denied : BOOLEAN,
            deadline : 0..MaxTime + TTL, wake : 0..MaxTime + TTL]

LockTypeOK ==
    /\ now \in 0..MaxTime
    /\ \A n \in LockNode :
        /\ locks[n] = Free \/ locks[n].holder \in LockNode
        /\ \A i \in DOMAIN att[n] : att[n][i] \in Attempt
        /\ wait[n] \in 0..Len(att[n]) /\ pend[n] \in 0..Len(att[n])
        /\ pc[n] \in {"idle", "send", "wait", "table"}

Live(l) == l # Free /\ now < l.exp
Holds(n) == Live(locks[n]) /\ locks[n].holder = n
PeerCount == Cardinality(LockNode) - 1

(***************************************************************************)
(* Messages.  A broadcast misses the nodes of lostTo.                      *)
(***************************************************************************)
Message(n, type) == [type |-> type, from |-> n, ts |-> stamp[n] + 1]
Stamp(n) == stamp' = [stamp EXCEPT ![n] = @ + 1]
LockBroadcast(n, type, lostTo) ==
    /\ Stamp(n)
    /\ lockInbox' = [k \in LockNode |-> IF k = n \/ k \in lostTo THEN lockInbox[k] ELSE Append(lockInbox[k], Message(n, type))]
    /\ drops' = drops + Cardinality(lostTo)
Losses(n) == {S \in SUBSET (LockNode \ {n}) : drops + Cardinality(S) <= MaxDrops}

(***************************************************************************)
(* Lock                                                                    *)
(***************************************************************************)
LockBegin(n) ==
    /\ n \in Callers /\ pc[n] = "idle" /\ Len(att[n]) < MaxAttempts /\ ~Live(locks[n])
    /\ att' = [att EXCEPT ![n] = Append(@, [st |-> "pending", roll |-> "no", grants |-> 0, by |-> {},
                                            denied |-> FALSE, deadline |-> 0, wake |-> 0])]
    /\ pend' = [pend EXCEPT ![n] = Len(att[n]) + 1]
    /\ wait' = [wait EXCEPT ![n] = Len(att[n]) + 1]
    /\ pc' = [pc EXCEPT ![n] = "send"]
    /\ UNCHANGED <<now, locks, lockInbox, stamp, marks, drops>>

LockSend(n) ==
    /\ pc[n] = "send"
    /\ \E S \in Losses(n) : LockBroadcast(n, "acquire", S)
    /\ att' = [att EXCEPT ![n][wait[n]].deadline = now + TTL]
    /\ pc' = [pc EXCEPT ![n] = "wait"]
    /\ UNCHANGED <<now, locks, wait, pend, marks>>

Waiting(n) == pc[n] = "wait"
Mine(n) == att[n][wait[n]]

Enough(n) == Mine(n).grants >= PeerCount

(* the last grant arrives before the timer fires *)
LockGranted(n) ==
    /\ Waiting(n) /\ Enough(n) /\ now < Mine(n).deadline
    /\ att' = [att EXCEPT ![n][wait[n]].st = "ok"]
    /\ pend' = [pend EXCEPT ![n] = IF @ = wait[n] THEN 0 ELSE @]
    /\ pc' = [pc EXCEPT ![n] = "table"]
    /\ UNCHANGED <<now, locks, wait, lockInbox, stamp, marks, drops>>

LockTable(n) ==
    /\ pc[n] = "table"
    /\ locks' = [locks EXCEPT ![n] = [holder |-> n, exp |-> now + TTL]]
    /\ pc' = [pc EXCEPT ![n] = "idle"] /\ wait' = [wait EXCEPT ![n] = 0]
    /\ UNCHANGED <<now, att, pend, lockInbox, stamp, marks, drops>>

(* denied or timed out: Lock returns, startRollbackWatcher is started *)
LockFails(n) ==
    /\ Waiting(n) /\ (Mine(n).denied \/ now >= Mine(n).deadline)
    /\ att' = [att EXCEPT ![n][wait[n]].roll = "fail"]
    /\ pc' = [pc EXCEPT ![n] = "idle"] /\ wait' = [wait EXCEPT ![n] = 0]
    /\ UNCHANGED <<now, locks, pend, lockInbox, stamp, marks, drops>>

(* rollbackLock releases at the nodes that granted, then at all *)
ReleaseGranted(n, i) ==
    /\ i \in DOMAIN att[n] /\ att[n][i].roll = "fail"
    /\ att' = [att EXCEPT ![n][i].st = "failed", ![n][i].roll = "broadcast"]
    /\ Stamp(n)
    /\ lockInbox' = [k \in LockNode |-> IF k \in att[n][i].by THEN Append(lockInbox[k], Message(n, "release")) ELSE lockInbox[k]]
    /\ UNCHANGED <<now, locks, wait, pc, pend, marks, drops>>

ReleaseAll(n, i) ==
    /\ i \in DOMAIN att[n] /\ att[n][i].roll = "broadcast"
    /\ att' = [att EXCEPT ![n][i].roll = "watch", ![n][i].wake = now + TTL]
    /\ \E S \in Losses(n) : LockBroadcast(n, "release", S)
    /\ UNCHANGED <<now, locks, wait, pc, pend, marks>>

WatchEnds(n, i) ==
    /\ i \in DOMAIN att[n] /\ att[n][i].roll = "watch" /\ now >= att[n][i].wake
    /\ att' = [att EXCEPT ![n][i].roll = "gone"]
    /\ pend' = [pend EXCEPT ![n] = IF @ = i THEN 0 ELSE @]
    /\ UNCHANGED <<now, locks, wait, pc, lockInbox, stamp, marks, drops>>

Unlock(n) ==
    /\ pc[n] = "idle" /\ locks[n].holder = n
    /\ locks' = [locks EXCEPT ![n] = Free]
    /\ \E S \in Losses(n) : LockBroadcast(n, "release", S)
    /\ UNCHANGED <<now, att, wait, pc, pend, marks>>

(***************************************************************************)
(* The message loop                                                        *)
(***************************************************************************)
Receives(n, type) == lockInbox[n] # <<>> /\ Head(lockInbox[n]).type = type
LockAnswer(n, m, type) ==
    LET rest == [lockInbox EXCEPT ![n] = Tail(@)]
    IN lockInbox' = [rest EXCEPT ![m] = Append(@, [type |-> type, from |-> n, ts |-> stamp[n] + 1])]
Pop(n) == lockInbox' = [lockInbox EXCEPT ![n] = Tail(@)]

HandleAcquire(n) ==
    /\ Receives(n, "acquire")
    /\ LET m == Head(lockInbox[n]).from
           late == Head(lockInbox[n]).ts <= marks[n][m]
       IN IF late THEN Pop(n) /\ UNCHANGED <<locks, marks, stamp>>
          ELSE /\ marks' = [marks EXCEPT ![n][m] = 0]
               /\ UNCHANGED stamp
               /\ IF Live(locks[n]) THEN LockAnswer(n, m, "denied") /\ UNCHANGED locks
                  ELSE LockAnswer(n, m, "granted") /\ locks' = [locks EXCEPT ![n] = [holder |-> m, exp |-> now + TTL]]
    /\ UNCHANGED <<now, att, wait, pc, pend, drops>>

(* a grant nobody waits for any more is given back, unless the lock is held *)
HandleGranted(n) ==
    /\ Receives(n, "granted")
    /\ LET m == Head(lockInbox[n]).from
           st == IF pend[n] = 0 THEN IF Holds(n) THEN "ok" ELSE "failed" ELSE att[n][pend[n]].st
       IN CASE st = "failed" -> LockAnswer(n, m, "release") /\ Stamp(n) /\ UNCHANGED att
            [] st = "ok" -> Pop(n) /\ UNCHANGED <<att, stamp>>
            [] st = "pending" ->
                 /\ Pop(n)
                 /\ att' = [att EXCEPT ![n][pend[n]].by = @ \cup {m}, ![n][pend[n]].grants = @ + 1]
                 /\ UNCHANGED stamp
    /\ UNCHANGED <<now, locks, wait, pc, pend, marks, drops>>

HandleDenied(n) ==
    /\ Receives(n, "denied")
    /\ Pop(n)
    /\ att' = IF pend[n] = 0 THEN att ELSE [att EXCEPT ![n][pend[n]].denied = TRUE]
    /\ UNCHANGED <<now, locks, wait, pc, pend, stamp, marks, drops>>

Released(n, m) == IF locks[n].holder = m THEN [locks EXCEPT ![n] = Free] ELSE locks

HandleRelease(n) ==
    /\ Receives(n, "release")
    /\ LET m == Head(lockInbox[n]).from
           ts == Head(lockInbox[n]).ts
       IN /\ locks' = Released(n, m)
          /\ marks' = [marks EXCEPT ![n][m] = IF ts >= @ THEN ts ELSE @]
    /\ Pop(n)
    /\ UNCHANGED <<now, att, wait, pc, pend, stamp, drops>>

(* the select of Lock is served before its timer has been due for a tick *)
Tick ==
    /\ now < MaxTime
    /\ \A n \in LockNode : Waiting(n) => now < Mine(n).deadline
    /\ \A n \in LockNode : pc[n] # "table"
    /\ now' = now + 1
    /\ UNCHANGED <<locks, att, wait, pc, pend, lockInbox, stamp, marks, drops>>

LockInit ==
    /\ now = 0 /\ locks = [n \in LockNode |-> Free] /\ att = [n \in LockNode |-> <<>>]
    /\ wait = [n \in LockNode |-> 0] /\ pc = [n \in LockNode |-> "idle"] /\ pend = [n \in LockNode |-> 0]
    /\ lockInbox = [n \in LockNode |-> <<>>] /\ stamp = [n \in LockNode |-> 0]
    /\ marks = [n \in LockNode |-> [m \in LockNode |-> 0]] /\ drops = 0

LockNext ==
    \/ Tick
    \/ \E n \in LockNode :
        \/ LockBegin(n) \/ LockSend(n) \/ LockGranted(n) \/ LockTable(n) \/ LockFails(n) \/ Unlock(n)
        \/ HandleAcquire(n) \/ HandleGranted(n) \/ HandleDenied(n) \/ HandleRelease(n)
        \/ \E i \in 1..MaxAttempts : ReleaseGranted(n, i) \/ ReleaseAll(n, i) \/ WatchEnds(n, i)

LockSpec == LockInit /\ [][LockNext]_lockVars

-----------------------------------------------------------------------------
(* docs/cachesync.md: a lock on an entry is exclusive.                      *)
EntryLockExclusive == \A n, m \in LockNode : Holds(n) /\ Holds(m) => n = m

(* No two nodes hold the key at a time if a third node takes part, whatever *)
(* the order of the requests, the answers and the rollbacks.  It is claimed *)
(* of nodes that call Lock once: the rollback of an earlier call takes away *)
(* the grants of the next.  Two nodes alone grant each other their requests *)
(* (EntryLockExclusive).                                                    *)
CacheLockExclusive == Others # {} => \A n, m \in LockNode : Holds(n) /\ Holds(m) => n = m

(* Refused and late requests are rolled back: when all messages have been   *)
(* handled and none was lost, no table names a node as the holder that does *)
(* not hold the lock, so nobody is refused for it.                          *)
AllHandled ==
    /\ drops = 0
    /\ \A n \in LockNode : lockInbox[n] = <<>> /\ pc[n] = "idle"
                       /\ \A i \in DOMAIN att[n] : att[n][i].roll \in {"no", "watch", "gone"}
NoResidualLock ==
    AllHandled => \A n \in LockNode : Live(locks[n]) => Holds(locks[n].holder)

-----------------------------------------------------------------------------
(***************************************************************************)
(* The entry of one key in the caches of internal/cachesync: versions,     *)
(* update and invalidation messages, which may be lost, and the            *)
(* reconciliation that reads the versions of all nodes, one after the      *)
(* other, and then copies the highest.  A value is the number of its Set.  *)
(***************************************************************************)

CONSTANTS
    VersionNode,
    MessageBuffer,
    MaxSets,        \* bound: calls of Set, SetWithInvalidate and Delete
    MaxRounds       \* bound: reconciliations

VARIABLES
    cache,          \* [Node -> [ver, val]], ver = 0: absent
    send,           \* [Node -> message its caller has to broadcast]
    versionInbox,
    rec,            \* reconcileLoop: [pc, todo, seen]
    sets, rounds,
    made,           \* versions made by Set
    conflict,       \* one version was made twice
    touched         \* some entry changed since the reconciliation began, other than by it

versionVars == <<cache, send, versionInbox, rec, sets, rounds, made, conflict, touched>>

None == [ver |-> 0, val |-> 0]
NoMsg == [type |-> "none", e |-> None]
Resting == [pc |-> "rest", todo |-> {}, seen |-> [n \in VersionNode |-> 0]]

VersionTypeOK ==
    /\ \A n \in VersionNode : cache[n].ver \in 0..MaxSets /\ cache[n].val \in 0..MaxSets /\ Len(versionInbox[n]) <= MessageBuffer
    /\ rec.pc \in {"rest", "collect", "copy"} /\ rec.todo \subseteq VersionNode
    /\ made \subseteq 1..MaxSets /\ {conflict, touched} \subseteq BOOLEAN

(* Set and SetWithInvalidate write, then broadcast *)
NextVersion(n) == cache[n].ver + 1

Write(n, type) ==
    /\ send[n] = NoMsg /\ sets < MaxSets
    /\ sets' = sets + 1
    /\ LET e == [ver |-> NextVersion(n), val |-> sets + 1]
       IN /\ cache' = [cache EXCEPT ![n] = e]
          /\ send' = [send EXCEPT ![n] = [type |-> type, e |-> IF type = "update" THEN e ELSE None]]
          /\ made' = made \cup {e.ver}
          /\ conflict' = (conflict \/ e.ver \in made)
    /\ touched' = TRUE
    /\ UNCHANGED <<versionInbox, rec, rounds>>

Set(n) == Write(n, "update")
SetWithInvalidate(n) == Write(n, "invalidate")

VersionDelete(n) ==
    /\ send[n] = NoMsg /\ sets < MaxSets /\ cache[n] # None
    /\ sets' = sets + 1
    /\ cache' = [cache EXCEPT ![n] = None]
    /\ send' = [send EXCEPT ![n] = [type |-> "invalidate", e |-> None]]
    /\ touched' = TRUE
    /\ UNCHANGED <<versionInbox, rec, rounds, made, conflict>>

(* broadcast: lost to some nodes, or dropped by a full inbox *)
VersionBroadcast(n) ==
    /\ send[n] # NoMsg
    /\ \E D \in SUBSET (VersionNode \ {n}) :
         versionInbox' = [k \in VersionNode |-> IF k \in D /\ Len(versionInbox[k]) < MessageBuffer THEN Append(versionInbox[k], send[n]) ELSE versionInbox[k]]
    /\ send' = [send EXCEPT ![n] = NoMsg]
    /\ UNCHANGED <<cache, rec, sets, rounds, made, conflict, touched>>

(* handleUpdateNotify takes only what is newer *)
Newer(n, e) == IF cache[n] # None /\ e.ver <= cache[n].ver THEN cache[n] ELSE e

HandleMessage(n) ==
    /\ versionInbox[n] # <<>>
    /\ versionInbox' = [versionInbox EXCEPT ![n] = Tail(@)]
    /\ LET m == Head(versionInbox[n])
           e == IF m.type = "invalidate" THEN None ELSE Newer(n, m.e)
       IN /\ cache' = [cache EXCEPT ![n] = e]
          /\ touched' = (touched \/ e # cache[n])
    /\ UNCHANGED <<send, rec, sets, rounds, made, conflict>>

(***************************************************************************)
(* runReconciliation                                                       *)
(***************************************************************************)
ReconcileBegin ==
    /\ rec.pc = "rest" /\ rounds < MaxRounds /\ Cardinality(VersionNode) >= 2
    /\ rounds' = rounds + 1
    /\ rec' = [Resting EXCEPT !.pc = "collect", !.todo = VersionNode]
    /\ touched' = FALSE
    /\ UNCHANGED <<cache, send, versionInbox, sets, made, conflict>>

Collect(n) ==
    /\ rec.pc = "collect" /\ n \in rec.todo
    /\ rec' = [rec EXCEPT !.todo = @ \ {n}, !.seen[n] = cache[n].ver]
    /\ UNCHANGED <<cache, send, versionInbox, sets, rounds, made, conflict, touched>>

Highest == CHOOSE v \in {rec.seen[n] : n \in VersionNode} : \A n \in VersionNode : rec.seen[n] <= v
Behind(n) == rec.seen[n] < Highest

CollectEnd ==
    /\ rec.pc = "collect" /\ rec.todo = {}
    /\ rec' = [rec EXCEPT !.pc = "copy", !.todo = {n \in VersionNode : Behind(n)}]
    /\ UNCHANGED <<cache, send, versionInbox, sets, rounds, made, conflict, touched>>

(* the entry is read at its source now, and applied like an update *)
Copy(n, src) ==
    /\ rec.pc = "copy" /\ n \in rec.todo /\ rec.seen[src] = Highest
    /\ rec' = [rec EXCEPT !.todo = @ \ {n}]
    /\ cache' = IF cache[src] = None THEN cache ELSE [cache EXCEPT ![n] = Newer(n, cache[src])]
    /\ UNCHANGED <<send, versionInbox, sets, rounds, made, conflict, touched>>

ReconcileEnd ==
    /\ rec.pc = "copy" /\ rec.todo = {}
    /\ rec' = Resting
    /\ UNCHANGED <<cache, send, versionInbox, sets, rounds, made, conflict, touched>>

VersionInit ==
    /\ cache = [n \in VersionNode |-> None] /\ send = [n \in VersionNode |-> NoMsg] /\ versionInbox = [n \in VersionNode |-> <<>>]
    /\ rec = Resting /\ sets = 0 /\ rounds = 0 /\ made = {} /\ conflict = FALSE /\ touched = TRUE

VersionNext ==
    \/ \E n \in VersionNode :
        \/ Set(n) \/ SetWithInvalidate(n) \/ VersionDelete(n) \/ VersionBroadcast(n) \/ HandleMessage(n)
        \/ Collect(n) \/ (\E src \in VersionNode : Copy(n, src))
    \/ ReconcileBegin \/ CollectEnd \/ ReconcileEnd

VersionSpec == VersionInit /\ [][VersionNext]_versionVars

-----------------------------------------------------------------------------
(* A reconciliation in whose course no other goroutine changed an entry     *)
(* leaves the same version at all nodes, whatever messages were lost,       *)
(* delayed or overtaken before it, and the same value too unless two nodes  *)
(* had made the same version.  Late updates that arrive afterwards change   *)
(* nothing; only new writes and late invalidations do.                      *)
ReconcileHeals ==
    rec.pc = "rest" /\ ~touched =>
        \A n, m \in VersionNode : cache[n].ver = cache[m].ver /\ (conflict \/ cache[n] = cache[m])
=============================================================================
