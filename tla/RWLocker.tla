----------------------------- MODULE RWLocker ------------------------------
(***************************************************************************)
(* rwlocker.RWLocker: a sync.RWMutex (mu) with timeouts, re-entrant reads  *)
(* and an upgrade of a read lock to the write lock, coordinated by         *)
(* readerCount and writerWaiting under upgradeMu and its condition         *)
(* variable.  Deadlock detection is on, its default.                       *)
(*                                                                         *)
(* mu is modelled as the Go library has it: a writer that has called Lock  *)
(* keeps new readers out, and Unlock lets the readers in that it kept      *)
(* waiting.  A call that times out leaves a helper goroutine behind that   *)
(* still takes the lock and gives it back; helpers are counted per stage.  *)
(* A reader that finds writerWaiting sleeps until it is cleared, and every *)
(* step that clears it broadcasts, so its sleep is a guard; the upgrader's *)
(* sleep is explicit, since the counter it waits for has other writers.    *)
(***************************************************************************)
EXTENDS Integers, FiniteSets

CONSTANTS
    Goroutine,
    Upgrader,    \* the goroutines that may call TryUpgrade
    Writer,      \* the goroutines that may call Lock and TryLock
    MaxReads,    \* bound on the read locks a goroutine nests
    MaxHelpers   \* bound on calls that have timed out and left a helper

RWLockerAssumption ==
    /\ IsFiniteSet(Goroutine)
    /\ MaxReads \in Nat \ {0} /\ MaxHelpers \in Nat

VARIABLES
    readerCount, writerWaiting, writerActive,
    at,          \* where a goroutine is, see the actions
    reads,       \* reads[p]: the read locks p holds on mu
    registry,    \* registry[p]: the holder the detector has for p
    mine,        \* mine[p]: myReadCount of p's TryUpgrade
    asleep,      \* upgraders inside upgradeCond.Wait
    helpers      \* helpers[s]: the left-over goroutines at stage s

rwVars == <<readerCount, writerWaiting, writerActive, at, reads, registry, mine, asleep, helpers>>

Stage == {"rwait", "rlock", "rundo", "runlock", "wlock", "wundo"}

NotHeld == [lockType |-> "none", count |-> 0]

RWInit ==
    /\ readerCount = 0
    /\ writerWaiting = FALSE /\ writerActive = FALSE
    /\ at = [p \in Goroutine |-> "idle"]
    /\ reads = [p \in Goroutine |-> 0]
    /\ registry = [p \in Goroutine |-> NotHeld]
    /\ mine = [p \in Goroutine |-> 0]
    /\ asleep = {}
    /\ helpers = [s \in Stage |-> 0]

-----------------------------------------------------------------------------
(* The library's mutex. *)
Writing == {"wlocked", "write", "wunlock", "ulocked", "ulocked2"}

MuWriter == helpers["wundo"] > 0 \/ \E p \in Goroutine : at[p] \in Writing

MuPending == helpers["wlock"] > 0 \/ \E p \in Goroutine : at[p] \in {"wlock", "ulock", "ulock2"}

MuReader == \/ helpers["rundo"] > 0 \/ helpers["runlock"] > 0
            \/ \E p \in Goroutine : reads[p] > 0

MuRLock == ~ MuWriter /\ ~ MuPending

MuLock == ~ MuWriter /\ ~ MuReader

Register(t, p) ==
    registry' = [registry EXCEPT ![p] =
        [lockType |-> IF @.count = 0 THEN t ELSE @.lockType, count |-> @.count + 1]]

Unregister(p) ==
    registry' = [registry EXCEPT ![p] =
        IF @.count > 1 THEN [lockType |-> @.lockType, count |-> @.count - 1] ELSE NotHeld]

Goto(p, l) == at' = [at EXCEPT ![p] = l]

-----------------------------------------------------------------------------
(* RLock.  checkDeadlock lets a reader in again, never a writer. *)
RLock(p) ==
    /\ at[p] \in {"idle", "read"} /\ reads[p] < MaxReads
    /\ registry[p].lockType # "write"
    /\ Goto(p, "rwait")
    /\ UNCHANGED <<readerCount, writerWaiting, writerActive, reads, registry, asleep, helpers, mine>>

(* waitForWriterWaiting. *)
CountReader(p) ==
    /\ at[p] = "rwait" /\ ~ writerWaiting
    /\ readerCount' = readerCount + 1
    /\ Goto(p, "rlock")
    /\ UNCHANGED <<writerWaiting, writerActive, reads, registry, asleep, helpers, mine>>

RLocked(p) ==
    /\ at[p] = "rlock" /\ MuRLock
    /\ reads' = [reads EXCEPT ![p] = @ + 1]
    /\ Register("read", p)
    /\ Goto(p, "read")
    /\ UNCHANGED <<readerCount, writerWaiting, writerActive, asleep, helpers, mine>>

(* Back to what the goroutine held before the call that failed. *)
Resting(p) == IF reads[p] > 0 THEN "read" ELSE "idle"

Leave(s) ==
    /\ helpers["rwait"] + helpers["rlock"] + helpers["rundo"] + helpers["runlock"]
          + helpers["wlock"] + helpers["wundo"] < MaxHelpers
    /\ helpers' = [helpers EXCEPT ![s] = @ + 1]

(* RLock and Lock give up; a helper finishes the acquisition. *)
RLockTimeout(p) ==
    /\ at[p] \in {"rwait", "rlock"}
    /\ Leave(at[p])
    /\ Goto(p, Resting(p))
    /\ UNCHANGED <<readerCount, writerWaiting, writerActive, reads, registry, asleep, mine>>

LockTimeout(p) ==
    /\ at[p] = "wlock"
    /\ Leave("wlock")
    /\ Goto(p, "idle")
    /\ UNCHANGED <<readerCount, writerWaiting, writerActive, reads, registry, asleep, mine>>

Advance(s, t) ==
    /\ helpers[s] > 0
    /\ helpers' = [helpers EXCEPT ![s] = @ - 1, ![t] = @ + 1]

(* A reader leaves the count, waking the upgraders if it was the last.  *)
(* The wake-up is a broadcast.                                          *)
Uncount ==
    /\ readerCount' = readerCount - 1
    /\ asleep' = IF writerWaiting /\ readerCount - 1 = 0 THEN {} ELSE asleep

(* Slip: the helper gives the lock back but stays in the count. *)
HelperReadSlip ==
    \/ /\ ~ writerWaiting /\ Advance("rwait", "rlock")
       /\ readerCount' = readerCount + 1
       /\ UNCHANGED <<writerWaiting, writerActive, at, reads, registry, asleep, mine>>
    \/ /\ MuRLock /\ Advance("rlock", "rundo")
       /\ UNCHANGED <<readerCount, writerWaiting, writerActive, at, reads, registry, mine, asleep>>
    \/ /\ Advance("rundo", "runlock")
       /\ UNCHANGED <<readerCount, writerWaiting, writerActive, at, reads, registry, mine, asleep>>
    \/ /\ helpers["runlock"] > 0
       /\ helpers' = [helpers EXCEPT !["runlock"] = @ - 1]
       /\ UNCHANGED <<readerCount, writerWaiting, writerActive, at, reads, registry, mine, asleep>>

(* The helper of a read: count, RLock, then undo both. *)
HelperRead ==
    \/ /\ ~ writerWaiting /\ Advance("rwait", "rlock")
       /\ readerCount' = readerCount + 1
       /\ UNCHANGED <<writerWaiting, writerActive, at, reads, registry, asleep, mine>>
    \/ /\ MuRLock /\ Advance("rlock", "rundo")
       /\ UNCHANGED <<readerCount, writerWaiting, writerActive, at, reads, registry, mine, asleep>>
    \/ /\ Advance("rundo", "runlock")
       /\ Uncount
       /\ UNCHANGED <<writerWaiting, writerActive, at, reads, registry, mine>>
    \/ /\ helpers["runlock"] > 0
       /\ helpers' = [helpers EXCEPT !["runlock"] = @ - 1]
       /\ UNCHANGED <<readerCount, writerWaiting, writerActive, at, reads, registry, mine, asleep>>

(* RUnlock: the count first, then the registry and mu. *)
RUnlock(p) ==
    /\ at[p] = "read"
    /\ IF readerCount > 0 THEN Uncount ELSE UNCHANGED <<readerCount, asleep>>
    /\ Goto(p, "runlock")
    /\ UNCHANGED <<writerWaiting, writerActive, reads, registry, helpers, mine>>

RUnlocked(p) ==
    /\ at[p] = "runlock"
    /\ reads' = [reads EXCEPT ![p] = @ - 1]
    /\ Unregister(p)
    /\ Goto(p, IF reads[p] > 1 THEN "read" ELSE "idle")
    /\ UNCHANGED <<readerCount, writerWaiting, writerActive, asleep, helpers, mine>>

-----------------------------------------------------------------------------
(* Lock. *)
Lock(p) ==
    /\ p \in Writer
    /\ at[p] = "idle" /\ registry[p].count = 0
    /\ Goto(p, "wlock")
    /\ UNCHANGED <<readerCount, writerWaiting, writerActive, reads, registry, asleep, helpers, mine>>

Locked(p) ==
    /\ at[p] = "wlock" /\ MuLock
    /\ Register("write", p)
    /\ Goto(p, "wlocked")
    /\ UNCHANGED <<readerCount, writerWaiting, writerActive, reads, asleep, helpers, mine>>

Activate(p) ==
    /\ at[p] \in {"wlocked", "ulocked2"}
    /\ writerActive' = TRUE
    /\ IF at[p] = "ulocked2" THEN Register("write", p) ELSE UNCHANGED registry
    /\ Goto(p, "write")
    /\ UNCHANGED <<readerCount, writerWaiting, reads, asleep, helpers, mine>>

Unlock(p) ==
    /\ at[p] = "write"
    /\ writerActive' = FALSE
    /\ Goto(p, "wunlock")
    /\ UNCHANGED <<readerCount, writerWaiting, reads, registry, asleep, helpers, mine>>

(* mu.Unlock: the readers R and k helpers that were blocked in mu.RLock are in. *)
Admit(R, k, q, r, h) ==
    /\ at' = [p \in Goroutine |-> CASE p \in R -> "read" [] p \in q -> "idle" [] OTHER -> at[p]]
    /\ reads' = [p \in Goroutine |-> IF p \in R THEN reads[p] + 1 ELSE reads[p]]
    /\ registry' = [p \in Goroutine |->
          CASE p \in R -> [lockType |-> "read", count |-> r[p].count + 1] [] OTHER -> r[p]]
    /\ helpers' = [h EXCEPT !["rlock"] = @ - k, !["rundo"] = @ + k]

Blocked == {p \in Goroutine : at[p] = "rlock"}

Unlocked(p) ==
    /\ at[p] = "wunlock"
    /\ \E R \in SUBSET Blocked, k \in 0 .. helpers["rlock"] :
          Admit(R, k, {p}, [registry EXCEPT ![p] = NotHeld], helpers)
    /\ UNCHANGED <<readerCount, writerWaiting, writerActive, asleep, mine>>

(* The helper of a write that timed out: Lock, then Unlock. *)
HelperWrite ==
    \/ /\ MuLock /\ Advance("wlock", "wundo")
       /\ UNCHANGED <<at, reads, registry>>
       /\ UNCHANGED <<readerCount, writerWaiting, writerActive, asleep, mine>>
    \/ /\ helpers["wundo"] > 0
       /\ \E R \in SUBSET Blocked, k \in 0 .. helpers["rlock"] :
             Admit(R, k, {}, registry, [helpers EXCEPT !["wundo"] = @ - 1])
       /\ UNCHANGED <<readerCount, writerWaiting, writerActive, asleep, mine>>

-----------------------------------------------------------------------------
(* TryUpgrade by a goroutine with read locks.  The only reader goes straight *)
(* for mu ("ulock"); otherwise a blocking call leaves the count ("uleft").   *)
TryUpgrade(p) ==
    /\ p \in Upgrader
    /\ at[p] = "read"
    /\ mine' = [mine EXCEPT ![p] = registry[p].count]
    /\ LET others == readerCount - registry[p].count IN
       \/ /\ others <= 0
          /\ readerCount' = 0
          /\ Goto(p, "ufast")
       \/ /\ others > 0
          /\ readerCount' = others
          /\ Goto(p, "uleft")
    /\ writerWaiting' = TRUE
    /\ UNCHANGED <<writerActive, reads, registry, asleep, helpers>>

(* It lets go of its read locks. *)
UpgradeRelease(p) ==
    /\ at[p] \in {"ufast", "uleft"}
    /\ reads' = [reads EXCEPT ![p] = 0]
    /\ registry' = [registry EXCEPT ![p] = NotHeld]
    /\ Goto(p, IF at[p] = "ufast" THEN "ulock" ELSE "uwait")
    /\ UNCHANGED <<readerCount, writerWaiting, writerActive, asleep, helpers, mine>>

(* The loop of the blocking call: go on, or sleep. *)
UpgradeLoop(p) ==
    /\ at[p] = "uwait" /\ p \notin asleep
    /\ \/ /\ readerCount > 0
          /\ asleep' = asleep \cup {p}
          /\ UNCHANGED <<writerWaiting, at>>
       \/ /\ readerCount <= 0
          /\ writerWaiting' = FALSE
          /\ asleep' = {}
          /\ Goto(p, "ulock2")
    /\ UNCHANGED <<readerCount, writerActive, reads, registry, helpers, mine>>

(* The deadline has passed (its timer has broadcast): a reader again. *)
UpgradeTimeout(p) ==
    /\ at[p] = "uwait" /\ readerCount > 0
    /\ writerWaiting' = FALSE
    /\ readerCount' = readerCount + mine[p]
    /\ asleep' = {}
    /\ Goto(p, "uback")
    /\ UNCHANGED <<writerActive, reads, registry, helpers, mine>>

(* It takes its read locks again, one by one. *)
UpgradeBack(p) ==
    /\ at[p] = "uback" /\ MuRLock
    /\ reads' = [reads EXCEPT ![p] = @ + 1]
    /\ Register("read", p)
    /\ \/ reads[p] + 1 < mine[p] /\ UNCHANGED <<at, mine>>
       \/ reads[p] + 1 = mine[p] /\ Goto(p, "read") /\ mine' = [mine EXCEPT ![p] = 0]
    /\ UNCHANGED <<readerCount, writerWaiting, writerActive, asleep, helpers>>

UpgradeLocked(p) ==
    /\ at[p] \in {"ulock", "ulock2"} /\ MuLock
    /\ Goto(p, IF at[p] = "ulock" THEN "ulocked" ELSE "ulocked2")
    /\ mine' = [mine EXCEPT ![p] = 0]
    /\ UNCHANGED <<readerCount, writerWaiting, writerActive, reads, registry, asleep, helpers>>

UpgradeActivate(p) ==
    /\ at[p] = "ulocked"
    /\ writerWaiting' = FALSE
    /\ writerActive' = TRUE
    /\ asleep' = {}
    /\ Register("write", p)
    /\ Goto(p, "write")
    /\ UNCHANGED <<readerCount, reads, helpers, mine>>

-----------------------------------------------------------------------------
(* TryRLock counts itself first and uncounts if mu refuses. *)
TryRLock(p) ==
    /\ at[p] \in {"idle", "read"} /\ reads[p] < MaxReads
    /\ registry[p].lockType # "write"
    /\ ~ writerWaiting
    /\ readerCount' = readerCount + 1
    /\ Goto(p, "tryrlock")
    /\ UNCHANGED <<writerWaiting, writerActive, reads, registry, asleep, helpers, mine>>

TryRLocked(p) ==
    /\ at[p] = "tryrlock"
    /\ \/ /\ MuRLock
          /\ reads' = [reads EXCEPT ![p] = @ + 1]
          /\ Register("read", p)
          /\ Goto(p, "read")
          /\ UNCHANGED <<readerCount, asleep>>
       \/ /\ ~ MuRLock
          /\ Uncount
          /\ Goto(p, Resting(p))
          /\ UNCHANGED <<reads, registry>>
    /\ UNCHANGED <<writerWaiting, writerActive, helpers, mine>>

RWTryLock(p) ==
    /\ p \in Writer
    /\ at[p] = "idle" /\ registry[p].count = 0
    /\ MuLock /\ ~ MuPending
    /\ Register("write", p)
    /\ Goto(p, "wlocked")
    /\ UNCHANGED <<readerCount, writerWaiting, writerActive, reads, asleep, helpers, mine>>

-----------------------------------------------------------------------------
(* Steps a goroutine takes once it has called. *)
Progress(p) ==
    \/ CountReader(p) \/ RLocked(p) \/ RUnlock(p) \/ RUnlocked(p)
    \/ Locked(p) \/ Activate(p) \/ Unlock(p) \/ Unlocked(p)
    \/ UpgradeRelease(p) \/ UpgradeLoop(p) \/ UpgradeBack(p)
    \/ UpgradeLocked(p) \/ UpgradeActivate(p) \/ TryRLocked(p)

RWNext ==
    \/ \E p \in Goroutine :
          \/ Progress(p)
          \/ RLock(p) \/ Lock(p) \/ TryRLock(p) \/ RWTryLock(p) \/ TryUpgrade(p)
          \/ RLockTimeout(p) \/ LockTimeout(p) \/ UpgradeTimeout(p)
    \/ HelperRead \/ HelperWrite

RWSpec == RWInit /\ [][RWNext]_rwVars

(* Goroutines run, and holders let go: RUnlock and Unlock are in Progress.    *)
(* A blocked reader is not passed over for ever: mu.Unlock lets it in.        *)
RWFairSpec ==
    /\ RWSpec
    /\ \A p \in Goroutine : WF_rwVars(Progress(p)) /\ SF_rwVars(RLocked(p))

-----------------------------------------------------------------------------
RWTypeOK ==
    /\ readerCount \in Int
    /\ writerWaiting \in BOOLEAN /\ writerActive \in BOOLEAN
    /\ at \in [Goroutine -> Writing \cup
          {"idle", "rwait", "rlock", "read", "runlock", "wlock", "tryrlock",
           "ufast", "uleft", "ulock", "uwait", "ulock2", "uback"}]
    /\ reads \in [Goroutine -> 0 .. MaxReads]
    /\ registry \in [Goroutine -> [lockType : {"none", "read", "write"}, count : Nat]]
    /\ mine \in [Goroutine -> 0 .. MaxReads]
    /\ asleep \subseteq Goroutine
    /\ helpers \in [Stage -> Nat]

(* The read locks a goroutine is counted for: those it holds and is not      *)
(* giving back, and the one it has been counted for but has not got.         *)
CountedFor(p) ==
    CASE at[p] \in {"rlock", "tryrlock"} -> reads[p] + 1
      [] at[p] = "uback" -> mine[p]
      [] at[p] = "runlock" -> reads[p] - 1
      [] at[p] \in {"ufast", "uleft"} -> 0
      [] OTHER -> reads[p]

Counted == {l \in Goroutine \X (1 .. MaxReads) : l[2] <= CountedFor(l[1])}

(* readerCount is exact at every moment, whatever timeouts, failed attempts, *)
(* upgrades and their helpers have added and taken back.  An upgrader waits  *)
(* for it to reach zero, so a leaked count would block upgrades for good.    *)
ReaderCountExact ==
    readerCount = Cardinality(Counted) + helpers["rlock"] + helpers["rundo"]

(* writerActive and the detector's registry agree with the mutex between     *)
(* calls: a goroutine at rest is registered for exactly what it holds.       *)
RegistryAgrees ==
    /\ writerActive <=> \E p \in Goroutine : at[p] = "write"
    /\ \A p \in Goroutine :
          /\ at[p] = "read" => registry[p] = [lockType |-> "read", count |-> reads[p]]
          /\ at[p] = "write" => registry[p] = [lockType |-> "write", count |-> 1]
          /\ at[p] = "idle" => registry[p] = NotHeld

(* Readers are held back only for an upgrade under way: writerWaiting is     *)
(* never left set by a call that has ended, on its success or timeout path.  *)
HeldBackForUpgrade ==
    writerWaiting => \E p \in Goroutine : at[p] \in {"ufast", "uleft", "uwait", "ulock", "ulocked"}

(* Whoever is between mu.Lock and mu.Unlock, a goroutine or the helper of a  *)
(* call that timed out, is alone: no second writer, and no reader, although  *)
(* an upgrade gives its read locks back and takes mu again, and a timed-out  *)
(* call takes mu when nobody waits for it any more.                          *)
WriterIsAlone ==
    /\ MuWriter => ~ MuReader
    /\ \A p, q \in Goroutine : at[p] \in Writing /\ at[q] \in Writing => p = q
    /\ helpers["wundo"] > 0 => helpers["wundo"] = 1 /\ \A p \in Goroutine : at[p] \notin Writing

(* What the lock promises between any two steps: a writer is alone, every    *)
(* read lock is counted once, the detector knows the holders, and readers    *)
(* are held back only for an upgrade.                                        *)
HoldersAgree == WriterIsAlone /\ ReaderCountExact /\ RegistryAgrees /\ HeldBackForUpgrade

(* A blocking upgrade does not sleep for good: the last reader wakes it.     *)
(* It holds with one upgrader at a time.                                     *)
Awake(p) == at[p] # "uwait"

UpgradeWakes == \A p \in Goroutine : []<>Awake(p)
=============================================================================
