-------------------------- MODULE RWLockerProofs ---------------------------
(***************************************************************************)
(* Proofs about RWLocker, for any finite set of goroutines, any of which   *)
(* may read, write and upgrade, and any number of left-over helpers.       *)
(***************************************************************************)
EXTENDS RWLocker, FiniteSetTheorems, TLAPS

(* The detector's entry of a goroutine with n read locks, and of a writer.   *)
Holding(n) == IF n = 0 THEN NotHeld ELSE [lockType |-> "read", count |-> n]
WriteHeld == [lockType |-> "write", count |-> 1]

(* What a goroutine holds where it is: the lines that have an effect on      *)
(* reads and registry keep them in step, and a call that was admitted has    *)
(* room for its read lock.                                                   *)
PlaceInv(p) ==
    /\ registry[p] = IF at[p] \in {"wlocked", "write", "wunlock"} THEN WriteHeld ELSE Holding(reads[p])
    /\ at[p] \in Writing \cup {"idle", "wlock", "ulock", "uwait", "ulock2"} => reads[p] = 0
    /\ at[p] \in {"read", "runlock", "ufast", "uleft"} => reads[p] > 0
    /\ at[p] \in {"rwait", "rlock", "tryrlock"} => reads[p] < MaxReads
    /\ at[p] \in {"ufast", "uleft", "uwait"} => mine[p] > 0
    /\ at[p] = "uback" => reads[p] < mine[p]

ActiveInv == writerActive <=> \E p \in Goroutine : at[p] = "write"

IInv ==
    /\ RWTypeOK
    /\ \A p \in Goroutine : PlaceInv(p)
    /\ WriterIsAlone /\ ActiveInv /\ HeldBackForUpgrade /\ ReaderCountExact

-----------------------------------------------------------------------------
(* The places 1 .. f[p] of every goroutine p. *)
Places(f) == {l \in Goroutine \X (1 .. MaxReads) : l[2] <= f[l[1]]}

(* There are finitely many places. *)
LEMMA PlacesFinite ==
    ASSUME RWLockerAssumption, NEW f
    PROVE  IsFiniteSet(Places(f)) /\ Cardinality(Places(f)) \in Nat
<1>1. IsFiniteSet(1 .. MaxReads)
  BY FS_Interval DEF RWLockerAssumption
<1>2. IsFiniteSet(Goroutine \X (1 .. MaxReads))
  BY <1>1, FS_Product DEF RWLockerAssumption
<1>3. Places(f) \in SUBSET (Goroutine \X (1 .. MaxReads))
  BY DEF Places
<1>4. IsFiniteSet(Places(f))
  BY <1>2, <1>3, FS_Subset
<1>q. QED BY <1>4, FS_CardinalityType

(* One goroutine's share of the places. *)
LEMMA ShareSize ==
    ASSUME NEW p, NEW n \in Nat
    PROVE  IsFiniteSet({p} \X (1 .. n)) /\ Cardinality({p} \X (1 .. n)) = n
<1>1. IsFiniteSet(1 .. n) /\ Cardinality(1 .. n) = n
  BY FS_Interval
<1>2. IsFiniteSet({p}) /\ Cardinality({p}) = 1
  BY FS_Singleton
<1>3. IsFiniteSet({p} \X (1 .. n)) /\ Cardinality({p} \X (1 .. n)) = Cardinality({p}) * Cardinality(1 .. n)
  BY <1>1, <1>2, FS_Product
<1>q. QED BY <1>1, <1>2, <1>3

(* The number of places is the rest and the share of one goroutine. *)
LEMMA PlacesSplit ==
    ASSUME RWLockerAssumption, NEW f \in [Goroutine -> 0 .. MaxReads], NEW p \in Goroutine
    PROVE  Cardinality(Places(f)) = Cardinality(Places([f EXCEPT ![p] = 0])) + f[p]
<1> DEFINE rest == Places([f EXCEPT ![p] = 0])
           share == {p} \X (1 .. f[p])
<1>1. f[p] \in Nat /\ f[p] <= MaxReads /\ MaxReads \in Nat
  BY DEF RWLockerAssumption
<1>2. Places(f) = rest \cup share
  BY <1>1 DEF Places
<1>3. rest \cap share = {}
  BY <1>1 DEF Places
<1>4. IsFiniteSet(rest) /\ Cardinality(rest) \in Nat
  BY PlacesFinite
<1>5. IsFiniteSet(share) /\ Cardinality(share) = f[p]
  BY Zenon, <1>1, ShareSize
<1>6. Cardinality({}) = 0
  BY FS_EmptySet
<1>7. Cardinality(rest \cup share) = Cardinality(rest) + Cardinality(share) - Cardinality(rest \cap share)
  BY Zenon, <1>4, <1>5, FS_Union
<1> HIDE DEF rest, share
<1>8. Cardinality(Places(f)) = Cardinality(rest) + f[p] - 0
  BY Zenon, <1>2, <1>3, <1>5, <1>6, <1>7
<1>9. Cardinality(Places(f)) = Cardinality(rest) + f[p]
  BY <1>1, <1>4, <1>8
<1>q. QED BY Zenon, <1>9 DEF rest

(* When one goroutine's share changes, the number of places changes by as    *)
(* much; and it is at least the share.                                       *)
LEMMA PlacesChange ==
    ASSUME RWLockerAssumption, NEW f \in [Goroutine -> 0 .. MaxReads],
           NEW g \in [Goroutine -> 0 .. MaxReads], NEW p \in Goroutine,
           \A q \in Goroutine \ {p} : g[q] = f[q]
    PROVE  /\ Cardinality(Places(g)) = Cardinality(Places(f)) + g[p] - f[p]
           /\ Cardinality(Places(f)) \in Nat /\ Cardinality(Places(f)) >= f[p]
<1>1. [g EXCEPT ![p] = 0] = [f EXCEPT ![p] = 0]
  BY Zenon
<1>2. /\ Cardinality(Places(f)) = Cardinality(Places([f EXCEPT ![p] = 0])) + f[p]
      /\ Cardinality(Places(g)) = Cardinality(Places([f EXCEPT ![p] = 0])) + g[p]
  BY Zenon, <1>1, PlacesSplit
<1>3. Cardinality(Places([f EXCEPT ![p] = 0])) \in Nat
  BY PlacesFinite
<1>4. f[p] \in Nat /\ g[p] \in Nat
  BY DEF RWLockerAssumption
<1>q. QED BY <1>2, <1>3, <1>4

-----------------------------------------------------------------------------
(* A step by p alone; Unlocked, which also lets readers in, is the other     *)
(* step of a goroutine.                                                      *)
OwnStep(p) ==
    \/ RLock(p) \/ CountReader(p) \/ RLocked(p) \/ RLockTimeout(p) \/ RUnlock(p)
    \/ RUnlocked(p) \/ TryRLock(p) \/ TryRLocked(p) \/ Lock(p) \/ Locked(p)
    \/ LockTimeout(p) \/ RWTryLock(p) \/ Activate(p) \/ Unlock(p) \/ TryUpgrade(p)
    \/ UpgradeRelease(p) \/ UpgradeLoop(p) \/ UpgradeTimeout(p) \/ UpgradeBack(p) \/ UpgradeLocked(p)
    \/ UpgradeActivate(p)

(* A step is one of a goroutine on its own, an Unlock, which may admit others, or a helper's. *)
LEMMA NextSteps ==
    ASSUME RWNext
    PROVE  (\E p \in Goroutine : OwnStep(p) \/ Unlocked(p)) \/ HelperRead \/ HelperWrite
BY DEF RWNext, Progress, OwnStep

(* A place a goroutine can be at. *)
Place == Writing \cup
    {"idle", "rwait", "rlock", "read", "runlock", "wlock", "tryrlock",
     "ufast", "uleft", "ulock", "uwait", "ulock2", "uback"}

(* A step of p leaves the other goroutines where they are, with what they    *)
(* have.                                                                     *)
LEMMA OwnStepAlone ==
    ASSUME RWTypeOK, NEW p \in Goroutine, OwnStep(p), NEW q \in Goroutine, q # p
    PROVE  at'[q] = at[q] /\ reads'[q] = reads[q] /\ registry'[q] = registry[q] /\ mine'[q] = mine[q]
<1>1. CASE RLock(p)
  BY <1>1 DEF RWTypeOK, RLock, Goto
<1>2. CASE CountReader(p)
  BY <1>2 DEF RWTypeOK, CountReader, Goto
<1>3. CASE RLocked(p)
  BY <1>3 DEF RWTypeOK, RLocked, Goto, Register
<1>4. CASE RLockTimeout(p)
  BY <1>4 DEF RWTypeOK, RLockTimeout, Goto, Leave, Resting
<1>5. CASE RUnlock(p)
  BY <1>5 DEF RWTypeOK, RUnlock, Goto, Uncount
<1>6. CASE RUnlocked(p)
  BY <1>6 DEF RWTypeOK, RUnlocked, Goto, Unregister
<1>7. CASE TryRLock(p)
  BY <1>7 DEF RWTypeOK, TryRLock, Goto
<1>8. CASE TryRLocked(p)
  BY <1>8 DEF RWTypeOK, TryRLocked, Goto, Register, Uncount, Resting
<1>9. CASE Lock(p)
  BY <1>9 DEF RWTypeOK, Lock, Goto
<1>10. CASE Locked(p)
  BY <1>10 DEF RWTypeOK, Locked, Goto, Register
<1>11. CASE LockTimeout(p)
  BY <1>11 DEF RWTypeOK, LockTimeout, Goto, Leave
<1>12. CASE RWTryLock(p)
  BY <1>12 DEF RWTypeOK, RWTryLock, Goto, Register
<1>13. CASE Activate(p)
  BY <1>13 DEF RWTypeOK, Activate, Goto, Register
<1>14. CASE Unlock(p)
  BY <1>14 DEF RWTypeOK, Unlock, Goto
<1>15. CASE TryUpgrade(p)
  BY <1>15 DEF RWTypeOK, TryUpgrade, Goto
<1>16. CASE UpgradeRelease(p)
  BY <1>16 DEF RWTypeOK, UpgradeRelease, Goto
<1>17. CASE UpgradeLoop(p)
  BY <1>17 DEF RWTypeOK, UpgradeLoop, Goto
<1>18. CASE UpgradeTimeout(p)
  BY <1>18 DEF RWTypeOK, UpgradeTimeout, Goto
<1>19. CASE UpgradeBack(p)
  BY <1>19 DEF RWTypeOK, UpgradeBack, Goto, Register
<1>20. CASE UpgradeLocked(p)
  BY <1>20 DEF RWTypeOK, UpgradeLocked, Goto
<1>21. CASE UpgradeActivate(p)
  BY <1>21 DEF RWTypeOK, UpgradeActivate, Goto, Register
<1>q. QED BY <1>1, <1>2, <1>3, <1>4, <1>5, <1>6, <1>7, <1>8, <1>9, <1>10, <1>11, <1>12, <1>13, <1>14, <1>15, <1>16, <1>17, <1>18, <1>19, <1>20, <1>21 DEF OwnStep

HolderType == [lockType : {"none", "read", "write"}, count : Nat]

(* registerHolder and unregisterHolder count a reader's locks up and down,   *)
(* and enter a writer.                                                       *)
LEMMA RegisterRead ==
    ASSUME RWTypeOK, NEW p \in Goroutine, NEW n \in Nat,
           registry[p] = Holding(n), Register("read", p)
    PROVE  registry' \in [Goroutine -> HolderType] /\ registry'[p] = Holding(n + 1)
<1>1. registry \in [Goroutine -> HolderType]
  BY DEF RWTypeOK, HolderType
<1>2. registry[p].count = n
  BY DEF Holding, NotHeld
<1>3. registry'[p] = Holding(n + 1)
  <2>1. CASE n = 0
    BY <1>1, <1>2, <2>1 DEF Register, Holding
  <2>2. CASE n > 0
    <3>1. registry[p] = [lockType |-> "read", count |-> n]
      BY <2>2 DEF Holding
    <3>2. registry'[p] = [lockType |-> registry[p].lockType, count |-> registry[p].count + 1]
      BY <1>1, <1>2, <2>2 DEF Register
    <3>q. QED BY <2>2, <3>1, <3>2 DEF Holding
  <2>q. QED BY <2>1, <2>2
<1>4. Holding(n + 1) \in HolderType
  BY DEF Holding, NotHeld, HolderType
<1>5. DOMAIN registry' = Goroutine /\ \A q \in Goroutine \ {p} : registry'[q] = registry[q]
  BY <1>1 DEF Register
<1>6. registry' = [q \in Goroutine |-> registry'[q]]
  BY Zenon, <1>1 DEF Register
<1>q. QED BY <1>1, <1>3, <1>4, <1>5, <1>6

(* registerHolder of a writer. *)
LEMMA RegisterWrite ==
    ASSUME RWTypeOK, NEW p \in Goroutine, registry[p] = NotHeld, Register("write", p)
    PROVE  registry' \in [Goroutine -> HolderType] /\ registry'[p] = WriteHeld
<1>1. registry \in [Goroutine -> HolderType] /\ WriteHeld \in HolderType
  BY DEF RWTypeOK, HolderType, WriteHeld
<1>2. registry' = [registry EXCEPT ![p] = WriteHeld]
  BY DEF Register, NotHeld, WriteHeld
<1>q. QED BY <1>1, <1>2

(* unregisterHolder of a reader. *)
LEMMA UnregisterRead ==
    ASSUME RWTypeOK, NEW p \in Goroutine, NEW n \in Nat, n > 0,
           registry[p] = Holding(n), Unregister(p)
    PROVE  registry' \in [Goroutine -> HolderType] /\ registry'[p] = Holding(n - 1)
<1>1. registry \in [Goroutine -> HolderType]
  BY DEF RWTypeOK, HolderType
<1>2. registry[p].count = n
  BY DEF Holding, NotHeld
<1>3. registry'[p] = Holding(n - 1)
  <2>1. CASE n = 1
    BY <1>1, <1>2, <2>1 DEF Unregister, Holding
  <2>2. CASE n > 1
    <3>1. registry[p] = [lockType |-> "read", count |-> n]
      BY <2>2 DEF Holding
    <3>2. registry'[p] = [lockType |-> registry[p].lockType, count |-> registry[p].count - 1]
      BY <1>1, <1>2, <2>2 DEF Unregister
    <3>q. QED BY <2>2, <3>1, <3>2 DEF Holding
  <2>q. QED BY <2>1, <2>2
<1>4. Holding(n - 1) \in HolderType
  BY DEF Holding, NotHeld, HolderType
<1>5. DOMAIN registry' = Goroutine /\ \A q \in Goroutine \ {p} : registry'[q] = registry[q]
  BY <1>1 DEF Unregister
<1>6. registry' = [q \in Goroutine |-> registry'[q]]
  BY Zenon, <1>1 DEF Unregister
<1>q. QED BY <1>1, <1>3, <1>4, <1>5, <1>6

(* What is known of p where it stands. *)
LEMMA Standing ==
    ASSUME RWLockerAssumption, RWTypeOK, NEW p \in Goroutine
    PROVE  /\ at[p] \in Place /\ reads[p] \in Nat /\ mine[p] \in Nat
           /\ reads[p] <= MaxReads /\ mine[p] <= MaxReads /\ MaxReads \in Nat
           /\ registry[p] \in HolderType
BY DEF RWTypeOK, RWLockerAssumption, Place, HolderType

(* A step of p keeps the types, and what p holds in step with where it is.   *)
LEMMA OwnStepPlace ==
    ASSUME RWLockerAssumption, RWTypeOK, NEW p \in Goroutine, PlaceInv(p), OwnStep(p)
    PROVE  RWTypeOK' /\ PlaceInv(p)'
<1> USE Standing
<1>1. CASE RLock(p)
  <2>1. RWTypeOK'
    BY <1>1 DEF RWTypeOK, PlaceInv, Holding, NotHeld, RWLockerAssumption, Stage, Writing, RLock, Goto
  <2>2. PlaceInv(p)'
    BY <1>1 DEF RWTypeOK, PlaceInv, Holding, WriteHeld, NotHeld, Writing, Place, RLock, Goto
  <2>q. QED BY <2>1, <2>2
<1>2. CASE CountReader(p)
  <2>1. RWTypeOK'
    BY <1>2 DEF RWTypeOK, PlaceInv, Holding, NotHeld, RWLockerAssumption, Stage, Writing, CountReader, Goto
  <2>2. PlaceInv(p)'
    BY <1>2 DEF RWTypeOK, PlaceInv, Holding, WriteHeld, NotHeld, Writing, Place, CountReader, Goto
  <2>q. QED BY <2>1, <2>2
<1>3. CASE RLocked(p)
  <2>a. reads[p] + 1 \in 0 .. MaxReads
    BY <1>3 DEF PlaceInv, RLocked, Goto
  <2>b. reads' \in [Goroutine -> 0 .. MaxReads]
    BY <1>3, <2>a DEF RWTypeOK, RLocked
  <2>1. registry' \in [Goroutine -> HolderType] /\ PlaceInv(p)'
    BY <1>3, RegisterRead DEF RWTypeOK, PlaceInv, Holding, WriteHeld, NotHeld, Writing, Place, RLocked, Goto
  <2>2. RWTypeOK'
    BY <1>3, <2>1, <2>b DEF RWTypeOK, PlaceInv, HolderType, RWLockerAssumption, Stage, Writing, RLocked, Goto
  <2>q. QED BY <2>1, <2>2
<1>4. CASE RLockTimeout(p)
  <2>1. RWTypeOK'
    BY <1>4 DEF RWTypeOK, PlaceInv, Holding, NotHeld, RWLockerAssumption, Stage, Writing, RLockTimeout, Goto, Leave, Resting
  <2>2. PlaceInv(p)'
    BY <1>4 DEF RWTypeOK, PlaceInv, Holding, WriteHeld, NotHeld, Writing, Place, RLockTimeout, Goto, Leave, Resting
  <2>q. QED BY <2>1, <2>2
<1>5. CASE RUnlock(p)
  <2>1. RWTypeOK'
    BY <1>5 DEF RWTypeOK, PlaceInv, Holding, NotHeld, RWLockerAssumption, Stage, Writing, RUnlock, Goto, Uncount
  <2>2. PlaceInv(p)'
    BY <1>5 DEF RWTypeOK, PlaceInv, Holding, WriteHeld, NotHeld, Writing, Place, RUnlock, Goto, Uncount
  <2>q. QED BY <2>1, <2>2
<1>6. CASE RUnlocked(p)
  <2>a. reads[p] - 1 \in 0 .. MaxReads
    BY <1>6 DEF PlaceInv, RUnlocked, Goto
  <2>b. reads' \in [Goroutine -> 0 .. MaxReads]
    BY <1>6, <2>a DEF RWTypeOK, RUnlocked
  <2>1. registry' \in [Goroutine -> HolderType] /\ PlaceInv(p)'
    BY <1>6, UnregisterRead DEF RWTypeOK, PlaceInv, Holding, WriteHeld, NotHeld, Writing, Place, RUnlocked, Goto
  <2>2. RWTypeOK'
    BY <1>6, <2>1, <2>b DEF RWTypeOK, PlaceInv, HolderType, RWLockerAssumption, Stage, Writing, RUnlocked, Goto
  <2>q. QED BY <2>1, <2>2
<1>7. CASE TryRLock(p)
  <2>1. RWTypeOK'
    BY <1>7 DEF RWTypeOK, PlaceInv, Holding, NotHeld, RWLockerAssumption, Stage, Writing, TryRLock, Goto
  <2>2. PlaceInv(p)'
    BY <1>7 DEF RWTypeOK, PlaceInv, Holding, WriteHeld, NotHeld, Writing, Place, TryRLock, Goto
  <2>q. QED BY <2>1, <2>2
<1>8. CASE TryRLocked(p)
  <2>1. registry' \in [Goroutine -> HolderType] /\ PlaceInv(p)'
    BY <1>8, RegisterRead DEF RWTypeOK, PlaceInv, Holding, WriteHeld, NotHeld, Writing, Place, TryRLocked, Goto, Uncount, Resting
  <2>2. RWTypeOK'
    BY <1>8, <2>1 DEF RWTypeOK, PlaceInv, HolderType, RWLockerAssumption, Stage, Writing, TryRLocked, Goto, Uncount, Resting
  <2>q. QED BY <2>1, <2>2
<1>9. CASE Lock(p)
  <2>1. RWTypeOK'
    BY <1>9 DEF RWTypeOK, PlaceInv, Holding, NotHeld, RWLockerAssumption, Stage, Writing, Lock, Goto
  <2>2. PlaceInv(p)'
    BY <1>9 DEF RWTypeOK, PlaceInv, Holding, WriteHeld, NotHeld, Writing, Place, Lock, Goto
  <2>q. QED BY <2>1, <2>2
<1>10. CASE Locked(p)
  <2>1. registry' \in [Goroutine -> HolderType] /\ PlaceInv(p)'
    BY <1>10, RegisterWrite DEF RWTypeOK, PlaceInv, Holding, WriteHeld, NotHeld, Writing, Place, Locked, Goto
  <2>2. RWTypeOK'
    BY Zenon, <1>10, <2>1 DEF RWTypeOK, PlaceInv, HolderType, RWLockerAssumption, Stage, Writing, Locked, Goto
  <2>q. QED BY <2>1, <2>2
<1>11. CASE LockTimeout(p)
  <2>1. RWTypeOK'
    BY <1>11 DEF RWTypeOK, PlaceInv, Holding, NotHeld, RWLockerAssumption, Stage, Writing, LockTimeout, Goto, Leave
  <2>2. PlaceInv(p)'
    BY <1>11 DEF RWTypeOK, PlaceInv, Holding, WriteHeld, NotHeld, Writing, Place, LockTimeout, Goto, Leave
  <2>q. QED BY <2>1, <2>2
<1>12. CASE RWTryLock(p)
  <2>1. registry' \in [Goroutine -> HolderType] /\ PlaceInv(p)'
    BY <1>12, RegisterWrite DEF RWTypeOK, PlaceInv, Holding, WriteHeld, NotHeld, Writing, Place, RWTryLock, Goto
  <2>2. RWTypeOK'
    BY Zenon, <1>12, <2>1 DEF RWTypeOK, PlaceInv, HolderType, RWLockerAssumption, Stage, Writing, RWTryLock, Goto
  <2>q. QED BY <2>1, <2>2
<1>13. CASE Activate(p)
  <2>1. registry' \in [Goroutine -> HolderType] /\ PlaceInv(p)'
    BY <1>13, RegisterWrite DEF RWTypeOK, PlaceInv, Holding, WriteHeld, NotHeld, Writing, Place, Activate, Goto
  <2>2. RWTypeOK'
    BY Zenon, <1>13, <2>1 DEF RWTypeOK, PlaceInv, HolderType, RWLockerAssumption, Stage, Writing, Activate, Goto
  <2>q. QED BY <2>1, <2>2
<1>14. CASE Unlock(p)
  <2>1. RWTypeOK'
    BY Zenon, <1>14 DEF RWTypeOK, PlaceInv, Holding, NotHeld, RWLockerAssumption, Stage, Writing, Unlock, Goto
  <2>2. PlaceInv(p)'
    BY <1>14 DEF RWTypeOK, PlaceInv, Holding, WriteHeld, NotHeld, Writing, Place, Unlock, Goto
  <2>q. QED BY <2>1, <2>2
<1>15. CASE TryUpgrade(p)
  <2>1. RWTypeOK'
    BY <1>15 DEF RWTypeOK, PlaceInv, Holding, NotHeld, RWLockerAssumption, Stage, Writing, TryUpgrade, Goto
  <2>2. PlaceInv(p)'
    BY <1>15 DEF RWTypeOK, PlaceInv, Holding, WriteHeld, NotHeld, Writing, Place, TryUpgrade, Goto
  <2>q. QED BY <2>1, <2>2
<1>16. CASE UpgradeRelease(p)
  <2>1. RWTypeOK'
    BY <1>16 DEF RWTypeOK, PlaceInv, Holding, NotHeld, RWLockerAssumption, Stage, Writing, UpgradeRelease, Goto
  <2>2. PlaceInv(p)'
    BY <1>16 DEF RWTypeOK, PlaceInv, Holding, WriteHeld, NotHeld, Writing, Place, UpgradeRelease, Goto
  <2>q. QED BY <2>1, <2>2
<1>17. CASE UpgradeLoop(p)
  <2>1. RWTypeOK'
    BY Zenon, <1>17 DEF RWTypeOK, PlaceInv, Holding, NotHeld, RWLockerAssumption, Stage, Writing, UpgradeLoop, Goto
  <2>2. PlaceInv(p)'
    BY <1>17 DEF RWTypeOK, PlaceInv, Holding, WriteHeld, NotHeld, Writing, Place, UpgradeLoop, Goto
  <2>q. QED BY <2>1, <2>2
<1>18. CASE UpgradeTimeout(p)
  <2>a. readerCount' \in Int
    BY <1>18 DEF RWTypeOK, UpgradeTimeout
  <2>1. RWTypeOK'
    BY Zenon, <1>18, <2>a DEF RWTypeOK, PlaceInv, Holding, NotHeld, RWLockerAssumption, Stage, Writing, UpgradeTimeout, Goto
  <2>2. PlaceInv(p)'
    BY <1>18 DEF RWTypeOK, PlaceInv, Holding, WriteHeld, NotHeld, Writing, Place, UpgradeTimeout, Goto
  <2>q. QED BY <2>1, <2>2
<1>19. CASE UpgradeBack(p)
  <2>a. reads[p] + 1 \in 0 .. MaxReads
    BY <1>19 DEF PlaceInv, UpgradeBack, Goto
  <2>b. reads' \in [Goroutine -> 0 .. MaxReads]
    BY <1>19, <2>a DEF RWTypeOK, UpgradeBack
  <2>c. mine' \in [Goroutine -> 0 .. MaxReads]
    BY <1>19 DEF RWTypeOK, RWLockerAssumption, UpgradeBack
  <2>1. registry' \in [Goroutine -> HolderType] /\ PlaceInv(p)'
    BY <1>19, RegisterRead DEF RWTypeOK, PlaceInv, Holding, WriteHeld, NotHeld, Writing, Place, UpgradeBack, Goto
  <2>2. RWTypeOK'
    BY <1>19, <2>1, <2>b, <2>c DEF RWTypeOK, PlaceInv, HolderType, RWLockerAssumption, Stage, Writing, UpgradeBack, Goto
  <2>q. QED BY <2>1, <2>2
<1>20. CASE UpgradeLocked(p)
  <2>1. RWTypeOK'
    BY <1>20 DEF RWTypeOK, PlaceInv, Holding, NotHeld, RWLockerAssumption, Stage, Writing, UpgradeLocked, Goto
  <2>2. PlaceInv(p)'
    BY <1>20 DEF RWTypeOK, PlaceInv, Holding, WriteHeld, NotHeld, Writing, Place, UpgradeLocked, Goto
  <2>q. QED BY <2>1, <2>2
<1>21. CASE UpgradeActivate(p)
  <2>1. registry' \in [Goroutine -> HolderType] /\ PlaceInv(p)'
    BY <1>21, RegisterWrite DEF RWTypeOK, PlaceInv, Holding, WriteHeld, NotHeld, Writing, Place, UpgradeActivate, Goto
  <2>2. RWTypeOK'
    BY Zenon, <1>21, <2>1 DEF RWTypeOK, PlaceInv, HolderType, RWLockerAssumption, Stage, Writing, UpgradeActivate, Goto
  <2>q. QED BY <2>1, <2>2
<1>q. QED BY <1>1, <1>2, <1>3, <1>4, <1>5, <1>6, <1>7, <1>8, <1>9, <1>10, <1>11, <1>12, <1>13, <1>14, <1>15, <1>16, <1>17, <1>18, <1>19, <1>20, <1>21 DEF OwnStep

-----------------------------------------------------------------------------
(* mu.Unlock lets blocked readers in: what that does to where everybody is.  *)
LEMMA AdmitPlaces ==
    ASSUME RWLockerAssumption, RWTypeOK, \A g \in Goroutine : PlaceInv(g),
           NEW R \in SUBSET Blocked, NEW k, NEW q \in SUBSET Goroutine, NEW r, NEW h,
           \A g \in q : at[g] = "wunlock",
           r = [g \in Goroutine |-> IF g \in q THEN NotHeld ELSE registry[g]],
           Admit(R, k, q, r, h), mine' = mine
    PROVE  /\ at' \in [Goroutine -> Place]
           /\ reads' \in [Goroutine -> 0 .. MaxReads]
           /\ registry' \in [Goroutine -> HolderType]
           /\ \A g \in Goroutine : PlaceInv(g)'
<1>1. /\ at' = [g \in Goroutine |-> at'[g]] /\ reads' = [g \in Goroutine |-> reads'[g]]
      /\ registry' = [g \in Goroutine |-> registry'[g]]
  BY DEF Admit
<1>2. ASSUME NEW g \in Goroutine
      PROVE  /\ at'[g] \in Place /\ reads'[g] \in 0 .. MaxReads /\ registry'[g] \in HolderType
             /\ PlaceInv(g)'
  <2>0. PlaceInv(g)
    OBVIOUS
  <2>1. CASE g \in R
    <3>1. at[g] = "rlock" /\ at'[g] = "read" /\ g \notin q
      BY <2>1 DEF Admit, Blocked
    <3>2. registry[g] = Holding(reads[g]) /\ reads[g] < MaxReads
      BY <2>0, <3>1 DEF PlaceInv
    <3>3. reads'[g] = reads[g] + 1 /\ registry'[g] = [lockType |-> "read", count |-> registry[g].count + 1]
      BY <2>1, <3>1 DEF Admit
    <3>4. registry[g].count = reads[g]
      BY <3>2, Standing DEF Holding, NotHeld
    <3>5. registry'[g] = Holding(reads'[g]) /\ Holding(reads'[g]) \in HolderType
      BY <3>3, <3>4, Standing DEF Holding, HolderType
    <3>q. QED BY <3>1, <3>2, <3>3, <3>5, Standing DEF PlaceInv, Writing, Place
  <2>2. CASE g \in q
    <3>1. at[g] = "wunlock" /\ at'[g] = "idle" /\ g \notin R
      BY <2>2 DEF Admit, Blocked
    <3>2. reads[g] = 0 /\ reads'[g] = 0 /\ registry'[g] = NotHeld
      BY <2>0, <2>2, <3>1 DEF PlaceInv, Writing, Admit
    <3>3. NotHeld = Holding(0) /\ NotHeld \in HolderType
      BY DEF NotHeld, Holding, HolderType
    <3>q. QED BY <3>1, <3>2, <3>3, Standing DEF PlaceInv, Writing, Place
  <2>3. CASE g \notin R /\ g \notin q
    <3>1. at'[g] = at[g] /\ reads'[g] = reads[g] /\ registry'[g] = registry[g] /\ mine'[g] = mine[g]
      BY <2>3 DEF Admit
    <3>q. QED BY <2>0, <3>1, Standing DEF PlaceInv
  <2>q. QED BY <2>1, <2>2, <2>3
<1>q. QED BY <1>1, <1>2

(* Unlock admits blocked readers, and everybody's place stays in step. *)
LEMMA UnlockedPlaces ==
    ASSUME RWLockerAssumption, RWTypeOK, \A g \in Goroutine : PlaceInv(g),
           NEW p \in Goroutine, Unlocked(p)
    PROVE  RWTypeOK' /\ \A g \in Goroutine : PlaceInv(g)'
<1> DEFINE r == [registry EXCEPT ![p] = NotHeld]
<1>1. PICK R \in SUBSET Blocked, k \in 0 .. helpers["rlock"] : Admit(R, k, {p}, r, helpers)
  BY DEF Unlocked
<1>2. r = [g \in Goroutine |-> IF g \in {p} THEN NotHeld ELSE registry[g]]
  BY Zenon DEF RWTypeOK
<1>3. at[p] = "wunlock" /\ mine' = mine
  BY DEF Unlocked
<1> HIDE DEF r
<1>4. /\ at' \in [Goroutine -> Place]
      /\ reads' \in [Goroutine -> 0 .. MaxReads]
      /\ registry' \in [Goroutine -> HolderType]
      /\ \A g \in Goroutine : PlaceInv(g)'
  BY SMTT(30), <1>1, <1>2, <1>3, AdmitPlaces
<1>5. helpers["rlock"] \in Nat /\ helpers["rundo"] \in Nat
  BY DEF RWTypeOK, Stage
<1>6. helpers' \in [Stage -> Nat]
  BY <1>1, <1>5 DEF RWTypeOK, Admit, Stage
<1>q. QED BY <1>4, <1>6 DEF RWTypeOK, Unlocked, Place, HolderType

(* A helper changes no goroutine's place, but for the readers its Unlock admits. *)
LEMMA HelperPlaces ==
    ASSUME RWLockerAssumption, RWTypeOK, \A g \in Goroutine : PlaceInv(g),
           HelperRead \/ HelperWrite
    PROVE  RWTypeOK' /\ \A g \in Goroutine : PlaceInv(g)'
<1>0. helpers \in [Stage -> Nat] /\ readerCount \in Int
  BY DEF RWTypeOK
<1>1. CASE \/ HelperRead
           \/ /\ Advance("wlock", "wundo") /\ UNCHANGED <<at, reads, registry, mine>>
              /\ UNCHANGED <<readerCount, writerWaiting, writerActive, asleep>>
  <2>0. UNCHANGED <<at, reads, registry, mine>>
    BY <1>1 DEF HelperRead
  <2>1. \A g \in Goroutine : PlaceInv(g)'
    BY <2>0 DEF PlaceInv
  <2>2. /\ helpers' \in [Stage -> Nat] /\ readerCount' \in Int /\ asleep' \subseteq Goroutine
        /\ UNCHANGED <<writerWaiting, writerActive>>
    <3>1. CASE HelperRead
      BY <1>0, <3>1 DEF RWTypeOK, HelperRead, Advance, Uncount, Stage
    <3>2. CASE ~ HelperRead
      BY <1>0, <1>1, <3>2 DEF RWTypeOK, Advance, Stage
    <3>q. QED BY <3>1, <3>2
  <2>q. QED BY <2>0, <2>1, <2>2 DEF RWTypeOK
<1>2. CASE helpers["wundo"] > 0 /\ \E R \in SUBSET Blocked, k \in 0 .. helpers["rlock"] :
             /\ Admit(R, k, {}, registry, [helpers EXCEPT !["wundo"] = @ - 1])
             /\ UNCHANGED <<readerCount, writerWaiting, writerActive, asleep, mine>>
  <2> DEFINE h == [helpers EXCEPT !["wundo"] = @ - 1]
  <2>1. PICK R \in SUBSET Blocked, k \in 0 .. helpers["rlock"] :
             /\ Admit(R, k, {}, registry, h)
             /\ UNCHANGED <<readerCount, writerWaiting, writerActive, asleep, mine>>
    BY <1>2
  <2>2. h \in [Stage -> Nat] /\ h["rlock"] = helpers["rlock"]
    BY <1>0, <1>2 DEF Stage
  <2>3. registry = [g \in Goroutine |-> IF g \in {} THEN NotHeld ELSE registry[g]]
    BY DEF RWTypeOK
  <2> HIDE DEF h
  <2>4. /\ at' \in [Goroutine -> Place]
        /\ reads' \in [Goroutine -> 0 .. MaxReads]
        /\ registry' \in [Goroutine -> HolderType]
        /\ \A g \in Goroutine : PlaceInv(g)'
    BY <2>1, <2>3, AdmitPlaces
  <2>5. helpers' \in [Stage -> Nat]
    BY <1>0, <2>1, <2>2 DEF Admit, Stage
  <2>q. QED BY <2>1, <2>4, <2>5 DEF RWTypeOK, Place, HolderType
<1>3. \/ HelperRead
      \/ /\ Advance("wlock", "wundo") /\ UNCHANGED <<at, reads, registry, mine>>
         /\ UNCHANGED <<readerCount, writerWaiting, writerActive, asleep>>
      \/ helpers["wundo"] > 0 /\ \E R \in SUBSET Blocked, k \in 0 .. helpers["rlock"] :
             /\ Admit(R, k, {}, registry, [helpers EXCEPT !["wundo"] = @ - 1])
             /\ UNCHANGED <<readerCount, writerWaiting, writerActive, asleep, mine>>
  BY Zenon DEF HelperWrite
<1>q. QED BY Zenon, <1>1, <1>2, <1>3

(* A step of p enters the writers' part only through mu.Lock, and gets a     *)
(* read lock only while nobody writes.                                       *)
LEMMA OwnStepMu ==
    ASSUME RWLockerAssumption, RWTypeOK, NEW p \in Goroutine, PlaceInv(p), OwnStep(p)
    PROVE  /\ at'[p] \in Writing => at[p] \in Writing \/ MuLock
           /\ reads'[p] > 0 => reads[p] > 0 \/ ~ MuWriter
           /\ \A s \in {"wundo", "rundo", "runlock"} : helpers'[s] = helpers[s]
<1> USE Standing
<1>1. CASE RLock(p)
  BY <1>1 DEF RWTypeOK, PlaceInv, Writing, Stage, MuRLock, RLock, Goto
<1>2. CASE CountReader(p)
  BY <1>2 DEF RWTypeOK, PlaceInv, Writing, Stage, MuRLock, CountReader, Goto
<1>3. CASE RLocked(p)
  BY <1>3 DEF RWTypeOK, PlaceInv, Writing, Stage, MuRLock, RLocked, Goto
<1>4. CASE RLockTimeout(p)
  BY <1>4 DEF RWTypeOK, PlaceInv, Writing, Stage, MuRLock, RLockTimeout, Goto, Leave, Resting
<1>5. CASE RUnlock(p)
  BY <1>5 DEF RWTypeOK, PlaceInv, Writing, Stage, MuRLock, RUnlock, Goto, Uncount
<1>6. CASE RUnlocked(p)
  BY <1>6 DEF RWTypeOK, PlaceInv, Writing, Stage, MuRLock, RUnlocked, Goto
<1>7. CASE TryRLock(p)
  BY <1>7 DEF RWTypeOK, PlaceInv, Writing, Stage, MuRLock, TryRLock, Goto
<1>8. CASE TryRLocked(p)
  BY <1>8 DEF RWTypeOK, PlaceInv, Writing, Stage, MuRLock, TryRLocked, Goto, Uncount, Resting
<1>9. CASE Lock(p)
  BY <1>9 DEF RWTypeOK, PlaceInv, Writing, Stage, MuRLock, Lock, Goto
<1>10. CASE Locked(p)
  BY <1>10 DEF RWTypeOK, PlaceInv, Writing, Stage, MuRLock, Locked, Goto
<1>11. CASE LockTimeout(p)
  BY <1>11 DEF RWTypeOK, PlaceInv, Writing, Stage, MuRLock, LockTimeout, Goto, Leave
<1>12. CASE RWTryLock(p)
  BY <1>12 DEF RWTypeOK, PlaceInv, Writing, Stage, MuRLock, RWTryLock, Goto
<1>13. CASE Activate(p)
  BY <1>13 DEF RWTypeOK, PlaceInv, Writing, Stage, MuRLock, Activate, Goto
<1>14. CASE Unlock(p)
  BY <1>14 DEF RWTypeOK, PlaceInv, Writing, Stage, MuRLock, Unlock, Goto
<1>15. CASE TryUpgrade(p)
  BY <1>15 DEF RWTypeOK, PlaceInv, Writing, Stage, MuRLock, TryUpgrade, Goto
<1>16. CASE UpgradeRelease(p)
  BY <1>16 DEF RWTypeOK, PlaceInv, Writing, Stage, MuRLock, UpgradeRelease, Goto
<1>17. CASE UpgradeLoop(p)
  BY <1>17 DEF RWTypeOK, PlaceInv, Writing, Stage, MuRLock, UpgradeLoop, Goto
<1>18. CASE UpgradeTimeout(p)
  BY <1>18 DEF RWTypeOK, PlaceInv, Writing, Stage, MuRLock, UpgradeTimeout, Goto
<1>19. CASE UpgradeBack(p)
  BY <1>19 DEF RWTypeOK, PlaceInv, Writing, Stage, MuRLock, UpgradeBack, Goto
<1>20. CASE UpgradeLocked(p)
  BY <1>20 DEF RWTypeOK, PlaceInv, Writing, Stage, MuRLock, UpgradeLocked, Goto
<1>21. CASE UpgradeActivate(p)
  BY <1>21 DEF RWTypeOK, PlaceInv, Writing, Stage, MuRLock, UpgradeActivate, Goto
<1>q. QED BY Zenon, <1>1, <1>2, <1>3, <1>4, <1>5, <1>6, <1>7, <1>8, <1>9, <1>10, <1>11, <1>12, <1>13, <1>14, <1>15, <1>16, <1>17, <1>18, <1>19, <1>20, <1>21 DEF OwnStep

(* So a writer stays alone. *)
LEMMA OwnStepExcludes ==
    ASSUME RWLockerAssumption, RWTypeOK, \A g \in Goroutine : PlaceInv(g), WriterIsAlone,
           NEW p \in Goroutine, OwnStep(p)
    PROVE  WriterIsAlone'
<1>1. /\ at'[p] \in Writing => at[p] \in Writing \/ MuLock
      /\ reads'[p] > 0 => reads[p] > 0 \/ ~ MuWriter
      /\ \A s \in {"wundo", "rundo", "runlock"} : helpers'[s] = helpers[s]
  BY OwnStepMu
<1>2. \A g \in Goroutine \ {p} : at'[g] = at[g] /\ reads'[g] = reads[g]
  BY OwnStepAlone
<1>3. at'[p] \in Writing => reads'[p] = 0
  BY OwnStepPlace DEF PlaceInv
<1>4. \A g, q \in Goroutine : at'[g] \in Writing /\ at'[q] \in Writing => g = q
  BY <1>1, <1>2 DEF WriterIsAlone, MuLock, MuWriter
<1>5. helpers'["wundo"] > 0 => helpers'["wundo"] = 1 /\ \A g \in Goroutine : at'[g] \notin Writing
  BY <1>1, <1>2 DEF WriterIsAlone, MuLock, MuWriter
<1>6. MuWriter' => ~ MuReader'
  BY <1>1, <1>2, <1>3 DEF WriterIsAlone, MuLock, MuWriter, MuReader
<1>q. QED BY <1>4, <1>5, <1>6 DEF WriterIsAlone

(* The steps of others: a writer that leaves lets readers in, a helper goes  *)
(* its way.                                                                  *)
LEMMA AdmitExcludes ==
    ASSUME RWTypeOK, WriterIsAlone, NEW q \in SUBSET Goroutine, NEW R \in SUBSET Blocked,
           NEW k, NEW r, NEW h, Admit(R, k, q, r, h),
           \A g \in Goroutine : at[g] \in Writing => g \in q, h["wundo"] = 0, h \in [Stage -> Nat]
    PROVE  WriterIsAlone'
<1>1. \A g \in Goroutine : at'[g] \notin Writing
  BY DEF Admit, Writing, Blocked
<1>2. helpers'["wundo"] = 0
  BY DEF Admit, Stage
<1>q. QED BY <1>1, <1>2 DEF WriterIsAlone, MuWriter

(* Unlocks and helpers keep a writer alone. *)
LEMMA OtherStepExcludes ==
    ASSUME RWLockerAssumption, RWTypeOK, WriterIsAlone,
           (\E p \in Goroutine : Unlocked(p)) \/ HelperRead \/ HelperWrite
    PROVE  WriterIsAlone'
<1>0. helpers \in [Stage -> Nat]
  BY DEF RWTypeOK
<1>1. ASSUME NEW p \in Goroutine, Unlocked(p) PROVE WriterIsAlone'
  <2>1. at[p] \in Writing
    BY <1>1 DEF Unlocked, Writing
  <2>2. helpers["wundo"] = 0
    BY <1>0, <2>1 DEF WriterIsAlone, Stage
  <2>q. QED BY SMTT(30), <1>0, <1>1, <2>1, <2>2, AdmitExcludes DEF Unlocked, WriterIsAlone
<1>2. CASE HelperRead
  <2>1. UNCHANGED <<at, reads>> /\ helpers'["wundo"] = helpers["wundo"]
    BY <1>0, <1>2 DEF HelperRead, Advance, Stage
  <2>2. MuWriter => ~ MuReader'
    BY SMTT(30), <1>0, <1>2, <2>1 DEF HelperRead, Advance, Stage, MuRLock, MuReader, WriterIsAlone
  <2>q. QED BY <2>1, <2>2 DEF WriterIsAlone, MuWriter
<1>3. CASE MuLock /\ Advance("wlock", "wundo") /\ UNCHANGED <<at, reads>>
  <2>1. helpers["wundo"] = 0 /\ \A g \in Goroutine : at[g] \notin Writing
    BY <1>0, <1>3 DEF MuLock, MuWriter, Stage
  <2>2. helpers'["wundo"] = 1 /\ helpers'["rundo"] = helpers["rundo"] /\ helpers'["runlock"] = helpers["runlock"]
    BY <1>0, <1>3, <2>1 DEF Advance, Stage
  <2>q. QED BY <1>3, <2>1, <2>2 DEF WriterIsAlone, MuLock, MuWriter, MuReader
<1>4. CASE helpers["wundo"] > 0 /\ \E R \in SUBSET Blocked, k \in 0 .. helpers["rlock"] :
             Admit(R, k, {}, registry, [helpers EXCEPT !["wundo"] = @ - 1])
  <2>1. helpers["wundo"] = 1 /\ \A g \in Goroutine : at[g] \notin Writing
    BY <1>4 DEF WriterIsAlone
  <2>2. [helpers EXCEPT !["wundo"] = @ - 1] \in [Stage -> Nat] /\ [helpers EXCEPT !["wundo"] = @ - 1]["wundo"] = 0
    BY <1>0, <2>1 DEF Stage
  <2>q. QED BY Zenon, <1>4, <2>1, <2>2, AdmitExcludes
<1>q. QED BY Zenon, <1>1, <1>2, <1>3, <1>4 DEF HelperWrite

-----------------------------------------------------------------------------
(* writerActive is set and cleared by the goroutine that is in the write     *)
(* section; an upgrade under way is what holds readers back.                 *)
Upgrading == {"ufast", "uleft", "uwait", "ulock", "ulocked"}

(* Who sets and clears writerActive and writerWaiting. *)
LEMMA OwnStepFlags ==
    ASSUME RWTypeOK, NEW p \in Goroutine, OwnStep(p)
    PROVE  /\ \/ writerActive' = writerActive /\ (at'[p] = "write" <=> at[p] = "write")
              \/ writerActive' = TRUE /\ at'[p] = "write"
              \/ writerActive' = FALSE /\ at[p] = "write" /\ at'[p] # "write"
           /\ writerWaiting' => at'[p] \in Upgrading \/ (writerWaiting /\ at[p] \notin Upgrading)
<1>1. CASE RLock(p)
  BY <1>1 DEF RWTypeOK, Upgrading, Writing, RLock, Goto
<1>2. CASE CountReader(p)
  BY <1>2 DEF RWTypeOK, Upgrading, Writing, CountReader, Goto
<1>3. CASE RLocked(p)
  BY <1>3 DEF RWTypeOK, Upgrading, Writing, RLocked, Goto
<1>4. CASE RLockTimeout(p)
  BY <1>4 DEF RWTypeOK, Upgrading, Writing, RLockTimeout, Goto, Leave, Resting
<1>5. CASE RUnlock(p)
  BY <1>5 DEF RWTypeOK, Upgrading, Writing, RUnlock, Goto, Uncount
<1>6. CASE RUnlocked(p)
  BY <1>6 DEF RWTypeOK, Upgrading, Writing, RUnlocked, Goto
<1>7. CASE TryRLock(p)
  BY <1>7 DEF RWTypeOK, Upgrading, Writing, TryRLock, Goto
<1>8. CASE TryRLocked(p)
  BY <1>8 DEF RWTypeOK, Upgrading, Writing, TryRLocked, Goto, Uncount, Resting
<1>9. CASE Lock(p)
  BY <1>9 DEF RWTypeOK, Upgrading, Writing, Lock, Goto
<1>10. CASE Locked(p)
  BY <1>10 DEF RWTypeOK, Upgrading, Writing, Locked, Goto
<1>11. CASE LockTimeout(p)
  BY <1>11 DEF RWTypeOK, Upgrading, Writing, LockTimeout, Goto, Leave
<1>12. CASE RWTryLock(p)
  BY <1>12 DEF RWTypeOK, Upgrading, Writing, RWTryLock, Goto
<1>13. CASE Activate(p)
  BY <1>13 DEF RWTypeOK, Upgrading, Writing, Activate, Goto
<1>14. CASE Unlock(p)
  BY <1>14 DEF RWTypeOK, Upgrading, Writing, Unlock, Goto
<1>15. CASE TryUpgrade(p)
  BY <1>15 DEF RWTypeOK, Upgrading, Writing, TryUpgrade, Goto
<1>16. CASE UpgradeRelease(p)
  BY <1>16 DEF RWTypeOK, Upgrading, Writing, UpgradeRelease, Goto
<1>17. CASE UpgradeLoop(p)
  BY <1>17 DEF RWTypeOK, Upgrading, Writing, UpgradeLoop, Goto
<1>18. CASE UpgradeTimeout(p)
  BY <1>18 DEF RWTypeOK, Upgrading, Writing, UpgradeTimeout, Goto
<1>19. CASE UpgradeBack(p)
  BY <1>19 DEF RWTypeOK, Upgrading, Writing, UpgradeBack, Goto
<1>20. CASE UpgradeLocked(p)
  BY <1>20 DEF RWTypeOK, Upgrading, Writing, UpgradeLocked, Goto
<1>21. CASE UpgradeActivate(p)
  BY <1>21 DEF RWTypeOK, Upgrading, Writing, UpgradeActivate, Goto
<1>q. QED BY Zenon, <1>1, <1>2, <1>3, <1>4, <1>5, <1>6, <1>7, <1>8, <1>9, <1>10, <1>11, <1>12, <1>13, <1>14, <1>15, <1>16, <1>17, <1>18, <1>19, <1>20, <1>21 DEF OwnStep

(* So the flags are set for as long as somebody stands for them. *)
LEMMA FlagsStep ==
    ASSUME RWLockerAssumption, RWTypeOK, WriterIsAlone, ActiveInv, HeldBackForUpgrade, RWNext
    PROVE  ActiveInv' /\ HeldBackForUpgrade'
<1>1. ASSUME NEW p \in Goroutine, OwnStep(p)
      PROVE  ActiveInv' /\ HeldBackForUpgrade'
  <2>1. \A g \in Goroutine \ {p} : at'[g] = at[g]
    BY <1>1, OwnStepAlone
  <2>2. ActiveInv'
    <3>1. CASE writerActive' = writerActive /\ (at'[p] = "write" <=> at[p] = "write")
      BY <2>1, <3>1 DEF ActiveInv
    <3>2. CASE writerActive' = TRUE /\ at'[p] = "write"
      BY <3>2 DEF ActiveInv
    <3>3. CASE writerActive' = FALSE /\ at[p] = "write" /\ at'[p] # "write"
      BY <2>1, <3>3 DEF ActiveInv, WriterIsAlone, Writing
    <3>q. QED BY Zenon, <1>1, <3>1, <3>2, <3>3, OwnStepFlags
  <2>3. HeldBackForUpgrade'
    BY Zenon, <1>1, <2>1, OwnStepFlags DEF HeldBackForUpgrade, Upgrading
  <2>q. QED BY <2>2, <2>3
<1>2. ASSUME NEW q \in SUBSET Goroutine, NEW R \in SUBSET Blocked, NEW k, NEW r, NEW h, Admit(R, k, q, r, h),
             \A g \in q : at[g] = "wunlock", UNCHANGED <<writerActive, writerWaiting>>
      PROVE  ActiveInv' /\ HeldBackForUpgrade'
  <2>1. \A g \in Goroutine : at'[g] = at[g] \/ (at[g] \in {"rlock", "wunlock"} /\ at'[g] \in {"read", "idle"})
    BY <1>2 DEF Admit, Blocked
  <2>2. \A g \in Goroutine : at'[g] \in Upgrading <=> at[g] \in Upgrading
    BY <2>1 DEF Upgrading
  <2>3. ActiveInv'
    <3>1. (\E g \in Goroutine : at[g] = "write") <=> \E g \in Goroutine : at'[g] = "write"
      <4>1. \A g \in Goroutine : at'[g] = "write" <=> at[g] = "write"
        BY <2>1
      <4>q. QED BY Zenon, <4>1
    <3>2. writerActive' = writerActive
      BY <1>2
    <3>q. QED BY Zenon, <3>1, <3>2 DEF ActiveInv
  <2>4. HeldBackForUpgrade'
    BY Zenon, <1>2, <2>2 DEF HeldBackForUpgrade, Upgrading
  <2>q. QED BY <2>3, <2>4
<1>3. ASSUME NEW p \in Goroutine, Unlocked(p)
      PROVE  ActiveInv' /\ HeldBackForUpgrade'
  BY <1>2, <1>3 DEF Unlocked
<1>4. CASE UNCHANGED <<at, writerActive, writerWaiting>>
  BY <1>4 DEF ActiveInv, HeldBackForUpgrade
<1>5. CASE HelperRead \/ HelperWrite
  BY <1>2, <1>4, <1>5 DEF HelperRead, HelperWrite
<1>q. QED BY <1>1, <1>3, <1>5, NextSteps

-----------------------------------------------------------------------------
(* What p is counted for, with its bounds. *)
LEMMA ShareType ==
    ASSUME RWLockerAssumption, RWTypeOK, NEW p \in Goroutine, PlaceInv(p)
    PROVE  CountedFor(p) \in 0 .. MaxReads
BY Standing DEF PlaceInv, CountedFor, Place, Writing

(* Every step keeps every goroutine's place in step. *)
LEMMA NextPlaces ==
    ASSUME RWLockerAssumption, RWTypeOK, \A g \in Goroutine : PlaceInv(g), RWNext
    PROVE  RWTypeOK' /\ \A g \in Goroutine : PlaceInv(g)'
<1>1. ASSUME NEW p \in Goroutine, OwnStep(p)
      PROVE  RWTypeOK' /\ \A g \in Goroutine : PlaceInv(g)'
  <2>1. RWTypeOK' /\ PlaceInv(p)'
    BY <1>1, OwnStepPlace
  <2>2. ASSUME NEW g \in Goroutine, g # p PROVE PlaceInv(g)'
    BY <1>1, <2>2, OwnStepAlone DEF PlaceInv
  <2>q. QED BY <2>1, <2>2
<1>q. QED BY <1>1, UnlockedPlaces, HelperPlaces, NextSteps

(* The same after a step. *)
LEMMA ShareTypeNext ==
    ASSUME RWLockerAssumption, RWTypeOK', NEW p \in Goroutine, PlaceInv(p)'
    PROVE  CountedFor(p)' \in 0 .. MaxReads
<1>1. /\ at'[p] \in Place /\ reads'[p] \in Nat /\ mine'[p] \in Nat
      /\ reads'[p] <= MaxReads /\ mine'[p] <= MaxReads /\ MaxReads \in Nat
  BY DEF RWTypeOK, RWLockerAssumption, Place
<1>q. QED BY <1>1 DEF PlaceInv, CountedFor, Place, Writing

(* A step of p changes the count by what it changes of its own share, with   *)
(* the one lock that it leaves to a helper when it gives up.                 *)
LEMMA OwnStepCount ==
    ASSUME RWLockerAssumption, RWTypeOK, NEW p \in Goroutine, PlaceInv(p), OwnStep(p),
           readerCount >= CountedFor(p)
    PROVE  /\ readerCount' = readerCount + CountedFor(p)' - CountedFor(p)
                                + helpers'["rlock"] - helpers["rlock"]
           /\ helpers'["rundo"] = helpers["rundo"]
<1>a. readerCount \in Int /\ helpers["rlock"] \in Nat
  BY DEF RWTypeOK, Stage
<1> USE Standing, <1>a
<1>1. CASE RLock(p)
  BY <1>1 DEF RWTypeOK, PlaceInv, Place, Holding, NotHeld, CountedFor, Writing, Stage, RLock, Goto
<1>2. CASE CountReader(p)
  BY <1>2 DEF RWTypeOK, PlaceInv, Place, Holding, NotHeld, CountedFor, Writing, Stage, CountReader, Goto
<1>3. CASE RLocked(p)
  BY <1>3 DEF RWTypeOK, PlaceInv, Place, Holding, NotHeld, CountedFor, Writing, Stage, RLocked, Goto
<1>4. CASE RLockTimeout(p)
  BY <1>4 DEF RWTypeOK, PlaceInv, Place, Holding, NotHeld, CountedFor, Writing, Stage, RLockTimeout, Goto, Leave, Resting
<1>5. CASE RUnlock(p)
  BY <1>5 DEF RWTypeOK, PlaceInv, Place, Holding, NotHeld, CountedFor, Writing, Stage, RUnlock, Goto, Uncount
<1>6. CASE RUnlocked(p)
  BY <1>6 DEF RWTypeOK, PlaceInv, Place, Holding, NotHeld, CountedFor, Writing, Stage, RUnlocked, Goto
<1>7. CASE TryRLock(p)
  BY <1>7 DEF RWTypeOK, PlaceInv, Place, Holding, NotHeld, CountedFor, Writing, Stage, TryRLock, Goto
<1>8. CASE TryRLocked(p)
  BY <1>8 DEF RWTypeOK, PlaceInv, Place, Holding, NotHeld, CountedFor, Writing, Stage, TryRLocked, Goto, Uncount, Resting
<1>9. CASE Lock(p)
  BY <1>9 DEF RWTypeOK, PlaceInv, Place, Holding, NotHeld, CountedFor, Writing, Stage, Lock, Goto
<1>10. CASE Locked(p)
  BY <1>10 DEF RWTypeOK, PlaceInv, Place, Holding, NotHeld, CountedFor, Writing, Stage, Locked, Goto
<1>11. CASE LockTimeout(p)
  BY <1>11 DEF RWTypeOK, PlaceInv, Place, Holding, NotHeld, CountedFor, Writing, Stage, LockTimeout, Goto, Leave
<1>12. CASE RWTryLock(p)
  BY <1>12 DEF RWTypeOK, PlaceInv, Place, Holding, NotHeld, CountedFor, Writing, Stage, RWTryLock, Goto
<1>13. CASE Activate(p)
  BY <1>13 DEF RWTypeOK, PlaceInv, Place, Holding, NotHeld, CountedFor, Writing, Stage, Activate, Goto
<1>14. CASE Unlock(p)
  BY <1>14 DEF RWTypeOK, PlaceInv, Place, Holding, NotHeld, CountedFor, Writing, Stage, Unlock, Goto
<1>15. CASE TryUpgrade(p)
  BY <1>15 DEF RWTypeOK, PlaceInv, Place, Holding, NotHeld, CountedFor, Writing, Stage, TryUpgrade, Goto
<1>16. CASE UpgradeRelease(p)
  BY <1>16 DEF RWTypeOK, PlaceInv, Place, Holding, NotHeld, CountedFor, Writing, Stage, UpgradeRelease, Goto
<1>17. CASE UpgradeLoop(p)
  BY <1>17 DEF RWTypeOK, PlaceInv, Place, Holding, NotHeld, CountedFor, Writing, Stage, UpgradeLoop, Goto
<1>18. CASE UpgradeTimeout(p)
  BY <1>18 DEF RWTypeOK, PlaceInv, Place, Holding, NotHeld, CountedFor, Writing, Stage, UpgradeTimeout, Goto
<1>19. CASE UpgradeBack(p)
  BY <1>19 DEF RWTypeOK, PlaceInv, Place, Holding, NotHeld, CountedFor, Writing, Stage, UpgradeBack, Goto
<1>20. CASE UpgradeLocked(p)
  BY <1>20 DEF RWTypeOK, PlaceInv, Place, Holding, NotHeld, CountedFor, Writing, Stage, UpgradeLocked, Goto
<1>21. CASE UpgradeActivate(p)
  BY <1>21 DEF RWTypeOK, PlaceInv, Place, Holding, NotHeld, CountedFor, Writing, Stage, UpgradeActivate, Goto
<1>q. QED BY Zenon, <1>1, <1>2, <1>3, <1>4, <1>5, <1>6, <1>7, <1>8, <1>9, <1>10, <1>11, <1>12, <1>13, <1>14, <1>15, <1>16, <1>17, <1>18, <1>19, <1>20, <1>21 DEF OwnStep

(* Every step keeps readerCount exact. *)
LEMMA CountStep ==
    ASSUME RWLockerAssumption, RWTypeOK, \A g \in Goroutine : PlaceInv(g), ReaderCountExact, RWNext
    PROVE  ReaderCountExact'
<1> DEFINE f == [g \in Goroutine |-> CountedFor(g)]
           fn == [g \in Goroutine |-> CountedFor(g)']
<1>0. /\ readerCount \in Int /\ helpers \in [Stage -> Nat]
      /\ helpers["rlock"] \in Nat /\ helpers["rundo"] \in Nat
  BY DEF RWTypeOK, Stage
<1>1. Counted = Places(f) /\ Counted' = Places(fn)
  BY DEF Counted, Places
<1>2. RWTypeOK' /\ \A g \in Goroutine : PlaceInv(g)'
  BY NextPlaces
<1>3. f \in [Goroutine -> 0 .. MaxReads] /\ fn \in [Goroutine -> 0 .. MaxReads]
  BY <1>2, ShareType, ShareTypeNext
<1>4. readerCount = Cardinality(Places(f)) + helpers["rlock"] + helpers["rundo"]
  BY <1>1 DEF ReaderCountExact
<1> SUFFICES readerCount' = Cardinality(Places(fn)) + helpers'["rlock"] + helpers'["rundo"]
  BY <1>1 DEF ReaderCountExact
<1>5. ASSUME NEW p \in Goroutine, OwnStep(p)
      PROVE  readerCount' = Cardinality(Places(fn)) + helpers'["rlock"] + helpers'["rundo"]
  <2>1. \A g \in Goroutine \ {p} : fn[g] = f[g]
    BY <1>5, OwnStepAlone DEF CountedFor
  <2>2. /\ Cardinality(Places(fn)) = Cardinality(Places(f)) + fn[p] - f[p]
        /\ Cardinality(Places(f)) \in Nat /\ Cardinality(Places(f)) >= f[p]
    BY <1>3, <2>1, PlacesChange
  <2>3. f[p] = CountedFor(p) /\ fn[p] = CountedFor(p)' /\ f[p] \in Nat /\ fn[p] \in Nat
    BY <1>3 DEF RWLockerAssumption
  <2> HIDE DEF f, fn
  <2>4. readerCount >= CountedFor(p)
    BY <1>0, <1>4, <2>2, <2>3
  <2>5. /\ readerCount' = readerCount + CountedFor(p)' - CountedFor(p)
                             + helpers'["rlock"] - helpers["rlock"]
        /\ helpers'["rundo"] = helpers["rundo"]
    BY <1>5, <2>4, OwnStepCount
  <2>6. helpers'["rlock"] \in Nat
    BY <1>2 DEF RWTypeOK, Stage
  <2>q. QED BY <1>0, <1>4, <2>2, <2>3, <2>5, <2>6
<1>6. ASSUME fn = f, readerCount' = readerCount,
             helpers'["rlock"] + helpers'["rundo"] = helpers["rlock"] + helpers["rundo"]
      PROVE  readerCount' = Cardinality(Places(fn)) + helpers'["rlock"] + helpers'["rundo"]
  <2>1. Cardinality(Places(f)) \in Nat
    BY PlacesFinite
  <2>2. helpers'["rlock"] \in Nat /\ helpers'["rundo"] \in Nat
    BY <1>2 DEF RWTypeOK, Stage
  <2> HIDE DEF f, fn
  <2>q. QED BY <1>0, <1>4, <1>6, <2>1, <2>2
<1>7. ASSUME NEW q \in SUBSET Goroutine, NEW R \in SUBSET Blocked, NEW k \in 0 .. helpers["rlock"], NEW r, NEW h,
             Admit(R, k, q, r, h), \A g \in q : at[g] = "wunlock", UNCHANGED <<readerCount, mine>>,
             h \in [Stage -> Nat], h["rlock"] = helpers["rlock"], h["rundo"] = helpers["rundo"]
      PROVE  readerCount' = Cardinality(Places(fn)) + helpers'["rlock"] + helpers'["rundo"]
  <2>1. ASSUME NEW g \in Goroutine PROVE CountedFor(g)' = CountedFor(g)
    <3>1. CASE g \in R
      BY <1>7, <3>1 DEF Admit, Blocked, CountedFor
    <3>2. CASE g \in q
      BY <1>7, <3>2 DEF Admit, Blocked, CountedFor
    <3>3. CASE g \notin R /\ g \notin q
      BY <1>7, <3>3 DEF Admit, CountedFor
    <3>q. QED BY <3>1, <3>2, <3>3
  <2>2. helpers'["rlock"] + helpers'["rundo"] = helpers["rlock"] + helpers["rundo"]
    BY <1>0, <1>7 DEF Admit, Stage
  <2>q. QED BY <1>6, <1>7, <2>1, <2>2
<1>8. ASSUME NEW p \in Goroutine, Unlocked(p)
      PROVE  readerCount' = Cardinality(Places(fn)) + helpers'["rlock"] + helpers'["rundo"]
  BY <1>0, <1>7, <1>8 DEF Unlocked
<1>9. CASE HelperRead
  <2>1. fn = f
    BY <1>9 DEF HelperRead, CountedFor
  <2>2. Cardinality(Places(f)) \in Nat
    BY PlacesFinite
  <2>3. readerCount' = readerCount + (helpers'["rlock"] + helpers'["rundo"]) - (helpers["rlock"] + helpers["rundo"])
    BY <1>0, <1>9 DEF HelperRead, Advance, Uncount, Stage
  <2>4. helpers'["rlock"] \in Nat /\ helpers'["rundo"] \in Nat
    BY <1>2 DEF RWTypeOK, Stage
  <2> HIDE DEF f, fn
  <2>q. QED BY <1>0, <1>4, <2>1, <2>2, <2>3, <2>4
<1>10. CASE HelperWrite
  <2>1. CASE Advance("wlock", "wundo") /\ UNCHANGED <<at, reads, mine, readerCount>>
    <3>1. fn = f
      BY <2>1 DEF CountedFor
    <3>2. helpers'["rlock"] + helpers'["rundo"] = helpers["rlock"] + helpers["rundo"]
      BY <1>0, <2>1 DEF Advance, Stage
    <3>q. QED BY <1>6, <2>1, <3>1, <3>2
  <2>2. CASE helpers["wundo"] > 0 /\ \E R \in SUBSET Blocked, k \in 0 .. helpers["rlock"] :
               /\ Admit(R, k, {}, registry, [helpers EXCEPT !["wundo"] = @ - 1])
               /\ UNCHANGED <<readerCount, mine>>
    <3> DEFINE h == [helpers EXCEPT !["wundo"] = @ - 1]
    <3>1. h \in [Stage -> Nat] /\ h["rlock"] = helpers["rlock"] /\ h["rundo"] = helpers["rundo"]
      BY <1>0, <2>2 DEF Stage
    <3>2. PICK R \in SUBSET Blocked, k \in 0 .. helpers["rlock"] :
             Admit(R, k, {}, registry, h) /\ UNCHANGED <<readerCount, mine>>
      BY <2>2
    <3> HIDE DEF h
    <3>q. QED BY <1>7, <3>1, <3>2
  <2>q. QED BY Zenon, <1>10, <2>1, <2>2 DEF HelperWrite
<1>q. QED BY <1>5, <1>8, <1>9, <1>10, NextSteps

-----------------------------------------------------------------------------
(* The invariant holds of a new lock. *)
LEMMA InitInv == RWLockerAssumption /\ RWInit => IInv
<1> SUFFICES ASSUME RWLockerAssumption, RWInit PROVE IInv
  OBVIOUS
<1>1. RWTypeOK
  <2>1. reads \in [Goroutine -> 0 .. MaxReads] /\ mine \in [Goroutine -> 0 .. MaxReads]
    BY DEF RWInit, RWLockerAssumption
  <2>2. /\ registry \in [Goroutine -> [lockType : {"none", "read", "write"}, count : Nat]]
        /\ helpers \in [Stage -> Nat]
    BY DEF RWInit, NotHeld
  <2>3. at \in [Goroutine -> Place]
    BY DEF RWInit, Place
  <2>4. readerCount \in Int /\ asleep \subseteq Goroutine
    BY SMT DEF RWInit
  <2>5. writerWaiting \in BOOLEAN /\ writerActive \in BOOLEAN
    BY Zenon DEF RWInit
  <2>q. QED BY Zenon, <2>1, <2>2, <2>3, <2>4, <2>5 DEF RWTypeOK, Place
<1>2. \A p \in Goroutine : PlaceInv(p)
  BY DEF RWInit, PlaceInv, Holding, NotHeld, Writing
<1>3. WriterIsAlone /\ ActiveInv /\ HeldBackForUpgrade
  BY DEF RWInit, WriterIsAlone, ActiveInv, HeldBackForUpgrade, MuWriter, Writing, Stage
<1>4. ReaderCountExact
  <2>1. Counted = {}
    BY DEF RWInit, Counted, CountedFor
  <2>2. Cardinality({}) = 0
    BY FS_EmptySet
  <2>q. QED BY <2>1, <2>2 DEF RWInit, ReaderCountExact, Stage
<1>q. QED BY <1>1, <1>2, <1>3, <1>4 DEF IInv

(* Every step keeps it. *)
LEMMA NextInv == RWLockerAssumption /\ IInv /\ [RWNext]_rwVars => IInv'
<1> SUFFICES ASSUME RWLockerAssumption, IInv, [RWNext]_rwVars PROVE IInv'
  OBVIOUS
<1>1. CASE RWNext
  <2>0. /\ RWTypeOK /\ \A p \in Goroutine : PlaceInv(p)
        /\ WriterIsAlone /\ ActiveInv /\ HeldBackForUpgrade /\ ReaderCountExact
    BY DEF IInv
  <2>1. RWTypeOK' /\ \A p \in Goroutine : PlaceInv(p)'
    BY <1>1, <2>0, NextPlaces
  <2>2. WriterIsAlone'
    BY <1>1, <2>0, NextSteps, OwnStepExcludes, OtherStepExcludes
  <2>3. ActiveInv' /\ HeldBackForUpgrade'
    BY <1>1, <2>0, FlagsStep
  <2>4. ReaderCountExact'
    BY SMTT(30), <1>1, <2>0, CountStep
  <2>q. QED BY <2>1, <2>2, <2>3, <2>4 DEF IInv
<1>2. CASE UNCHANGED rwVars
  BY <1>2 DEF rwVars, IInv, RWTypeOK, PlaceInv, WriterIsAlone, MuWriter, MuReader, ActiveInv,
     HeldBackForUpgrade, ReaderCountExact, Counted, CountedFor
<1>q. QED BY <1>1, <1>2

(* The fields of the lock, the detector's registry and the places of the     *)
(* goroutines keep their types.                                              *)
THEOREM TypeCorrect == ASSUME RWLockerAssumption PROVE RWSpec => []RWTypeOK
<1>1. IInv => RWTypeOK
  BY DEF IInv
<1>q. QED BY InitInv, NextInv, <1>1, PTL DEF RWSpec

(* Between any two steps of any goroutines and helpers, with timeouts and    *)
(* upgrades at any moment: a writer is alone, readerCount counts every read  *)
(* lock once, registry and writerActive say who holds what, and readers are  *)
(* held back only for an upgrade under way.                                  *)
THEOREM Holders == ASSUME RWLockerAssumption PROVE RWSpec => []HoldersAgree
<1>1. ASSUME IInv PROVE HoldersAgree
  <2>1. RegistryAgrees
    <3>1. writerActive <=> \E p \in Goroutine : at[p] = "write"
      BY <1>1 DEF IInv, ActiveInv
    <3>2. ASSUME NEW p \in Goroutine
          PROVE  /\ at[p] = "read" => registry[p] = [lockType |-> "read", count |-> reads[p]]
                 /\ at[p] = "write" => registry[p] = [lockType |-> "write", count |-> 1]
                 /\ at[p] = "idle" => registry[p] = NotHeld
      BY <1>1 DEF IInv, PlaceInv, Holding, WriteHeld
    <3>q. QED BY <3>1, <3>2 DEF RegistryAgrees
  <2>q. QED BY <1>1, <2>1 DEF IInv, HoldersAgree
<1>q. QED BY InitInv, NextInv, <1>1, PTL DEF RWSpec
=============================================================================
